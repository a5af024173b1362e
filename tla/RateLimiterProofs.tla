-------------------------- MODULE RateLimiterProofs --------------------------
(***************************************************************************)
(* Theorems about RateLimiter for every number of calls, keys and threads, *)
(* every limit and every window.                                           *)
(***************************************************************************)
EXTENDS RateLimiter, FiniteSetTheorems, SequenceTheorems, TLAPS

Started(c) == pc[c] # "idle"

\* A call under way is alone with its key, and made later than all before it.
AloneAndLatest(k) ==
    \A c, d \in Calls :
       key[c] = k /\ key[d] = k /\ c # d /\ pc[c] \in Running /\ Started(d)
         => pc[d] \notin Running /\ now[d] <= now[c]

\* Which calls the entries of a deque stand for: b[i] made entry i.
Stands(k, b) ==
    /\ Len(b) = Len(attempts[k])
    /\ \A i \in 1..Len(b) : /\ pc[b[i]] = "accepted" /\ key[b[i]] = k
                            /\ now[b[i]] = attempts[k][i]

\* As long as a key's calls do not overlap, its entries are also in order.
Remembers(k, b) ==
    /\ Stands(k, b)
    /\ \A i, j \in 1..Len(b) : i < j => b[i] # b[j] /\ now[b[i]] <= now[b[j]]

\* Some call for key k, and so every later one, is past the window of call c.
Forgotten(c, k) ==
    \E d \in Calls : Started(d) /\ key[d] = k /\ now[c] + Window < now[d]

\* An accepted call is remembered until it is out of every window to come.
Complete(k, b) ==
    \A c \in Calls : pc[c] = "accepted" /\ key[c] = k =>
       (\E i \in 1..Len(b) : b[i] = c) \/ Forgotten(c, k)

Bounded(k) ==
    /\ Len(attempts[k]) <= MaxAttempts
    /\ \A c \in Calls : pc[c] = "append" /\ key[c] = k => Len(attempts[k]) < MaxAttempts
    /\ \A t \in 0..MaxTime : Cardinality(AcceptedIn(k, t)) <= MaxAttempts

RefusedFull(k) ==
    \A c \in Calls : pc[c] = "refused" /\ key[c] = k =>
       Cardinality(AcceptedIn(k, now[c])) >= MaxAttempts

KeyInv(k) ==
    /\ AloneAndLatest(k)
    /\ \E b \in Seq(Calls) : Remembers(k, b) /\ Complete(k, b)
    /\ Bounded(k)
    /\ RefusedFull(k)

\* No call has read a time that is still to come.
ClockRead == \A c \in Calls : Started(c) => now[c] <= clock

RateInv ==
    /\ TypeOK
    /\ ClockRead
    /\ \A k \in Keys \ raced : KeyInv(k)

-----------------------------------------------------------------------------
(* Types *)

LEMMA TypeInit == Init => TypeOK
<1> SUFFICES ASSUME Init PROVE TypeOK
  OBVIOUS
<1>1. attempts \in [Keys -> Seq(0..MaxTime)]
  BY DEF Init
<1>2. 0 \in 0..MaxTime
  BY LimiterAssumption
<1>3. QED
  BY <1>1, <1>2 DEF Init, TypeOK

LEMMA RecentType ==
    ASSUME TypeOK, NEW c \in Calls
    PROVE  /\ Recent(c) \in Seq(0..MaxTime) /\ key[c] \in Keys /\ now[c] \in 0..MaxTime
  BY DEF TypeOK, Recent

LEMMA TypeStep == TypeOK /\ [Next]_vars => TypeOK'
<1> SUFFICES ASSUME TypeOK, [Next]_vars PROVE TypeOK'
  OBVIOUS
<1> USE LimiterAssumption DEF TypeOK, Goto, Running
<1>1. CASE Tick
  BY <1>1 DEF Tick
<1>2. ASSUME NEW c \in Calls, ReadClock(c) PROVE TypeOK'
  BY <1>2 DEF ReadClock
<1>3. ASSUME NEW c \in Calls, Sweep(c) PROVE TypeOK'
  <2>1. Tail(Recent(c)) \in Seq(0..MaxTime)
    BY <1>3, RecentType DEF Sweep, Expired
  <2>2. QED
    BY <1>3, <2>1 DEF Sweep, Recent
<1>4. ASSUME NEW c \in Calls, Measure(c) PROVE TypeOK'
  BY <1>4 DEF Measure
<1>5. ASSUME NEW c \in Calls, Record(c) PROVE TypeOK'
  <2>1. Append(Recent(c), now[c]) \in Seq(0..MaxTime)
    BY RecentType
  <2>2. QED
    BY <1>5, <2>1 DEF Record, Recent
<1>6. CASE Quiet \/ UNCHANGED vars
  BY <1>6 DEF Quiet, vars
<1>7. QED
  BY <1>1, <1>2, <1>3, <1>4, <1>5, <1>6 DEF Next

\* The state keeps its types.
THEOREM TypeCorrect == Spec => []TypeOK
  BY TypeInit, TypeStep, PTL DEF Spec

-----------------------------------------------------------------------------
(* Counting *)

LEMMA AcceptedFinite ==
    ASSUME NEW k, NEW t
    PROVE  /\ IsFiniteSet(AcceptedIn(k, t)) /\ Cardinality(AcceptedIn(k, t)) \in Nat
<1>1. AcceptedIn(k, t) \in SUBSET Calls
  BY DEF AcceptedIn
<1>2. QED
  BY <1>1, LimiterAssumption, FS_Subset, FS_CardinalityType

LEMMA OneMore ==
    ASSUME NEW S, NEW x, IsFiniteSet(S)
    PROVE  /\ Cardinality(S \cup {x}) \in Nat
           /\ Cardinality(S) <= Cardinality(S \cup {x})
           /\ Cardinality(S \cup {x}) <= Cardinality(S) + 1
<1>1. Cardinality(S) \in Nat
  BY FS_CardinalityType
<1>2. Cardinality(S \cup {x}) = IF x \in S THEN Cardinality(S) ELSE Cardinality(S) + 1
  BY FS_AddElement
<1>3. CASE x \in S
  BY <1>1, <1>2, <1>3
<1>4. CASE x \notin S
  BY <1>1, <1>2, <1>4
<1>5. QED
  BY <1>3, <1>4

LEMMA IntervalSize ==
    ASSUME NEW n \in Nat PROVE IsFiniteSet(1..n) /\ Cardinality(1..n) = n
<1>1. IsFiniteSet(1..n) /\ Cardinality(1..n) = IF 1 > n THEN 0 ELSE n - 1 + 1
  BY FS_Interval
<1>2. QED
  BY <1>1

\* A set all of whose members are in a sequence is no larger than it is long.
LEMMA ListedBound ==
    ASSUME NEW b \in Seq(Calls), NEW S \in SUBSET Calls,
           \A c \in S : \E i \in 1..Len(b) : b[i] = c
    PROVE  Cardinality(S) <= Len(b)
<1>1. Len(b) \in Nat
  OBVIOUS
<1> DEFINE place == [c \in S |-> CHOOSE i \in 1..Len(b) : b[i] = c]
<1>2. \A c \in S : place[c] \in 1..Len(b) /\ b[place[c]] = c
  OBVIOUS
<1>3. place \in [S -> 1..Len(b)]
  BY <1>2
<1>4. place \in Injection(S, 1..Len(b))
  BY <1>2, <1>3 DEF Injection, IsInjective
<1>5. IsFiniteSet(1..Len(b)) /\ Cardinality(1..Len(b)) = Len(b)
  BY <1>1, IntervalSize
<1>6. QED
  BY <1>4, <1>5, FS_Injection

\* A set that has all the members of a sequence, each listed once, is no smaller.
LEMMA ListedFills ==
    ASSUME NEW b \in Seq(Calls), NEW S \in SUBSET Calls,
           \A i \in 1..Len(b) : b[i] \in S,
           \A i, j \in 1..Len(b) : i < j => b[i] # b[j]
    PROVE  Len(b) <= Cardinality(S)
<1>1. Len(b) \in Nat
  OBVIOUS
<1> DEFINE at == [i \in 1..Len(b) |-> b[i]]
<1>2. at \in [1..Len(b) -> S]
  OBVIOUS
<1>3. \A i, j \in 1..Len(b) : at[i] = at[j] => i = j
  BY <1>1
<1>4. at \in Injection(1..Len(b), S)
  BY <1>2, <1>3 DEF Injection, IsInjective
<1>5. Cardinality(1..Len(b)) = Len(b)
  BY <1>1, IntervalSize
<1>6. IsFiniteSet(S)
  BY LimiterAssumption, FS_Subset
<1>7. QED
  BY <1>4, <1>5, <1>6, FS_Injection

-----------------------------------------------------------------------------
(* Steps *)

LEMMA RateInit == Init => RateInv
<1> SUFFICES ASSUME Init PROVE RateInv
  OBVIOUS
<1>1. TypeOK
  BY TypeInit
<1>2. \A c \in Calls : pc[c] = "idle"
  BY DEF Init
<1>3. ASSUME NEW k \in Keys PROVE KeyInv(k)
  <2>1. attempts[k] = <<>>
    BY DEF Init
  <2>2. <<>> \in Seq(Calls) /\ Len(<<>>) = 0
    OBVIOUS
  <2>3. \A i : i \notin 1..0
    OBVIOUS
  <2>4. Remembers(k, <<>>) /\ Complete(k, <<>>)
    BY <1>2, <2>1, <2>2, <2>3 DEF Remembers, Stands, Complete
  <2>5. \A t : AcceptedIn(k, t) = {}
    BY <1>2 DEF AcceptedIn
  <2>6. Len(attempts[k]) = 0 /\ \A t : Cardinality(AcceptedIn(k, t)) = 0
    BY <2>1, <2>2, <2>5, FS_EmptySet
  <2>7. Bounded(k)
    BY <1>2, <2>6, LimiterAssumption DEF Bounded
  <2>8. AloneAndLatest(k) /\ RefusedFull(k)
    BY <1>2 DEF AloneAndLatest, RefusedFull, Started
  <2>9. QED
    BY <2>2, <2>4, <2>7, <2>8 DEF KeyInv
<1>4. \A c \in Calls : ~Started(c)
  BY <1>2 DEF Started
<1>5. QED
  BY <1>1, <1>3, <1>4 DEF RateInv, ClockRead

\* A step that leaves the deque and the calls of a key alone.
LEMMA ElsewhereKeeps ==
    ASSUME NEW k \in Keys, KeyInv(k), attempts'[k] = attempts[k], key' = key,
           \A c \in Calls : key[c] = k => pc'[c] = pc[c] /\ now'[c] = now[c]
    PROVE  KeyInv(k)'
<1>1. AloneAndLatest(k)'
  BY DEF KeyInv, AloneAndLatest, Started
<1>2. PICK b \in Seq(Calls) : Remembers(k, b) /\ Complete(k, b)
  BY DEF KeyInv
<1>3. \A i \in 1..Len(b) : b[i] \in Calls
  OBVIOUS
<1>4. Remembers(k, b)'
  BY <1>2, <1>3 DEF Remembers, Stands
<1>5. \A c \in Calls : key[c] = k /\ Forgotten(c, k) => Forgotten(c, k)'
  BY DEF Forgotten, Started
<1>6. Complete(k, b)'
  BY <1>2, <1>5 DEF Complete
<1>7. \A t : AcceptedIn(k, t)' = AcceptedIn(k, t)
  BY DEF AcceptedIn
<1>8. Bounded(k)'
  BY <1>7 DEF KeyInv, Bounded
<1>9. RefusedFull(k)'
  BY <1>7 DEF KeyInv, RefusedFull
<1>10. QED
  BY <1>1, <1>2, <1>4, <1>6, <1>8, <1>9 DEF KeyInv

\* A call that starts alone with its key reads a later time than all before it.
LEMMA ReadClockKeeps ==
    ASSUME RateInv, NEW c \in Calls, ReadClock(c), key[c] \notin raced'
    PROVE  KeyInv(key[c])'
<1> DEFINE k == key[c]
<1>1. /\ pc[c] = "idle" /\ now' = [now EXCEPT ![c] = clock]
      /\ pc' = [pc EXCEPT ![c] = "sweep"]
      /\ UNCHANGED <<clock, attempts, key>>
  BY DEF ReadClock, Goto
<1>2. k \in Keys \ raced /\ \A d \in Calls : key[d] = k => pc[d] \notin Running
  BY DEF ReadClock, RateInv, TypeOK
<1>3. KeyInv(k)
  BY <1>2 DEF RateInv
<1>4. /\ pc'[c] = "sweep" /\ now'[c] = clock
      /\ \A d \in Calls : d # c => pc'[d] = pc[d] /\ now'[d] = now[d]
  BY <1>1 DEF RateInv, TypeOK
<1>5. AloneAndLatest(k)'
  <2> SUFFICES ASSUME NEW e \in Calls, NEW d \in Calls, key[e] = k, key[d] = k, e # d,
                      pc'[e] \in Running, pc'[d] # "idle"
               PROVE  pc'[d] \notin Running /\ now'[d] <= now'[e]
    BY <1>1 DEF AloneAndLatest, Started
  <2>1. e = c
    BY <1>2, <1>4
  <2>2. pc[d] \notin Running /\ now[d] <= clock
    BY <1>2, <1>4, <2>1 DEF RateInv, ClockRead, Started
  <2>3. QED
    BY <1>4, <2>1, <2>2
<1>6. PICK b \in Seq(Calls) : Remembers(k, b) /\ Complete(k, b)
  BY <1>3 DEF KeyInv
<1>7. \A i \in 1..Len(b) : b[i] \in Calls /\ b[i] # c
  BY <1>1, <1>6 DEF Remembers, Stands
<1>8. Remembers(k, b)'
  BY <1>1, <1>4, <1>6, <1>7 DEF Remembers, Stands
<1>9. ASSUME NEW d \in Calls, pc'[d] = "accepted", key[d] = k
      PROVE  (\E i \in 1..Len(b) : b[i] = d) \/ Forgotten(d, k)'
  <2>1. d # c /\ pc[d] = "accepted"
    BY <1>4, <1>9
  <2>2. ASSUME Forgotten(d, k) PROVE Forgotten(d, k)'
    <3>1. PICK e \in Calls : Started(e) /\ key[e] = k /\ now[d] + Window < now[e]
      BY <2>2 DEF Forgotten
    <3>2. e # c
      BY <1>1, <3>1 DEF Started
    <3>3. QED
      BY <1>1, <1>4, <2>1, <3>1, <3>2 DEF Forgotten, Started
  <2>3. QED
    BY <1>6, <1>9, <2>1, <2>2 DEF Complete
<1>10. Complete(k, b)'
  BY <1>1, <1>9 DEF Complete
<1>11. \A t : AcceptedIn(k, t)' = AcceptedIn(k, t)
  BY <1>1, <1>4 DEF AcceptedIn
<1>12. Bounded(k)'
  BY <1>1, <1>3, <1>4, <1>11 DEF KeyInv, Bounded
<1>13. RefusedFull(k)'
  BY <1>1, <1>3, <1>4, <1>11 DEF KeyInv, RefusedFull
<1>14. k' = k
  BY <1>1
<1>15. QED
  BY <1>5, <1>6, <1>8, <1>10, <1>12, <1>13, <1>14 DEF KeyInv

\* The sweep forgets an attempt that is out of this window and every later one.
LEMMA SweepStands ==
    ASSUME TypeOK, NEW c \in Calls, Sweep(c),
           NEW b \in Seq(Calls), Stands(key[c], b), Complete(key[c], b)
    PROVE  Stands(key[c], Tail(b))' /\ Complete(key[c], Tail(b))' /\ Tail(b) \in Seq(Calls)
<1> DEFINE k == key[c]
<1>1. /\ pc[c] = "sweep" /\ Expired(c)
      /\ attempts' = [attempts EXCEPT ![k] = Tail(@)]
      /\ UNCHANGED <<clock, pc, key, now, raced>>
  BY DEF Sweep
<1>2. /\ attempts[k] \in Seq(0..MaxTime) /\ attempts[k] # <<>>
      /\ now[c] > Head(attempts[k]) + Window
      /\ attempts'[k] = Tail(attempts[k])
  BY <1>1 DEF TypeOK, Expired, Recent
<1>3. Len(b) = Len(attempts[k]) /\ Len(b) \in Nat /\ Len(b) > 0 /\ b # <<>>
  BY <1>2 DEF Stands
<1>4. /\ Tail(b) \in Seq(Calls) /\ Len(Tail(b)) = Len(b) - 1
      /\ \A i \in 1..Len(Tail(b)) : Tail(b)[i] = b[i + 1]
  BY <1>3, HeadTailProperties
<1>5. /\ Len(Tail(attempts[k])) = Len(attempts[k]) - 1
      /\ \A i \in 1..Len(Tail(attempts[k])) : Tail(attempts[k])[i] = attempts[k][i + 1]
  BY <1>2, HeadTailProperties
<1>6. Stands(k, Tail(b))'
  <2>1. \A i \in 1..Len(Tail(b)) : i + 1 \in 1..Len(b)
    BY <1>3, <1>4
  <2>2. Len(Tail(b)) = Len(attempts'[k])
    BY <1>2, <1>3, <1>4, <1>5
  <2>3. ASSUME NEW i \in 1..Len(Tail(b))
        PROVE  /\ pc[Tail(b)[i]] = "accepted" /\ key[Tail(b)[i]] = k
               /\ now[Tail(b)[i]] = attempts'[k][i]
    BY <1>2, <1>3, <1>4, <1>5, <2>1 DEF Stands
  <2>4. QED
    BY <1>1, <2>2, <2>3 DEF Stands
<1>7. Forgotten(b[1], k)
  <2>1. 1 \in 1..Len(b)
    BY <1>3
  <2>2. now[b[1]] = attempts[k][1] /\ Head(attempts[k]) = attempts[k][1]
    BY <1>2, <2>1 DEF Stands
  <2>3. now[b[1]] + Window < now[c]
    <3>1. attempts[k][1] \in 0..MaxTime
      BY <1>2, <2>2, HeadTailProperties
    <3>2. now[c] \in Nat /\ attempts[k][1] \in Nat /\ Window \in Nat
      BY <3>1, LimiterAssumption DEF TypeOK
    <3>3. QED
      BY <1>2, <2>2, <3>2
  <2>4. QED
    BY <1>1, <2>3 DEF Forgotten, Started
<1>8. Complete(k, Tail(b))'
  <2>1. ASSUME NEW d \in Calls, pc[d] = "accepted", key[d] = k
        PROVE  (\E i \in 1..Len(Tail(b)) : Tail(b)[i] = d) \/ Forgotten(d, k)
    <3>1. CASE Forgotten(d, k)
      BY <3>1
    <3>2. ASSUME NEW i \in 1..Len(b), b[i] = d
          PROVE  (\E j \in 1..Len(Tail(b)) : Tail(b)[j] = d) \/ Forgotten(d, k)
      <4>1. CASE i = 1
        BY <1>7, <3>2, <4>1
      <4>2. CASE i # 1
        <5>1. i - 1 \in 1..Len(Tail(b)) /\ (i - 1) + 1 = i
          BY <1>3, <1>4, <4>2
        <5>2. Tail(b)[i - 1] = d
          BY <1>4, <3>2, <5>1
        <5>3. QED
          BY <5>1, <5>2
      <4>3. QED
        BY <4>1, <4>2
    <3>3. QED
      BY <2>1, <3>1, <3>2 DEF Complete
  <2>2. \A d : Forgotten(d, k)' <=> Forgotten(d, k)
    BY <1>1 DEF Forgotten, Started
  <2>3. QED
    BY <1>1, <2>1, <2>2 DEF Complete
<1>9. k' = k
  BY <1>1
<1>10. QED
  BY <1>4, <1>6, <1>8, <1>9

LEMMA SweepKeeps ==
    ASSUME RateInv, NEW c \in Calls, Sweep(c), key[c] \notin raced
    PROVE  KeyInv(key[c])'
<1> DEFINE k == key[c]
<1>1. /\ pc[c] = "sweep" /\ Expired(c)
      /\ attempts' = [attempts EXCEPT ![k] = Tail(@)]
      /\ UNCHANGED <<clock, pc, key, now, raced>>
  BY DEF Sweep
<1>2. k \in Keys \ raced /\ KeyInv(k) /\ TypeOK
  BY DEF RateInv, TypeOK
<1>3. /\ attempts[k] \in Seq(0..MaxTime) /\ attempts[k] # <<>>
      /\ now[c] > Head(attempts[k]) + Window
      /\ attempts'[k] = Tail(attempts[k])
  BY <1>1, <1>2 DEF TypeOK, Expired, Recent
<1>4. PICK b \in Seq(Calls) : Remembers(k, b) /\ Complete(k, b)
  BY <1>2 DEF KeyInv
<1>5. Len(b) = Len(attempts[k]) /\ Len(b) \in Nat /\ Len(b) > 0
  BY <1>3, <1>4 DEF Remembers, Stands
<1>6. b # <<>>
  BY <1>5
<1>7. /\ Tail(b) \in Seq(Calls) /\ Len(Tail(b)) = Len(b) - 1
      /\ \A i \in 1..Len(Tail(b)) : Tail(b)[i] = b[i + 1]
      /\ Len(Tail(attempts[k])) = Len(attempts[k]) - 1
  BY <1>3, <1>6, HeadTailProperties
<1>8. /\ Stands(k, b) /\ Complete(k, b)
      /\ \A i, j \in 1..Len(b) : i < j => b[i] # b[j] /\ now[b[i]] <= now[b[j]]
  BY <1>4 DEF Remembers
<1>9. Stands(k, Tail(b))' /\ Complete(k, Tail(b))'
  BY <1>2, <1>8, SweepStands
<1>10. ASSUME NEW i \in 1..Len(Tail(b)), NEW j \in 1..Len(Tail(b)), i < j
       PROVE  Tail(b)[i] # Tail(b)[j] /\ now[Tail(b)[i]] <= now[Tail(b)[j]]
  <2>1. i + 1 < j + 1 /\ i + 1 \in 1..Len(b) /\ j + 1 \in 1..Len(b)
    BY <1>5, <1>7, <1>10
  <2>2. QED
    BY <1>7, <1>8, <2>1
<1>11. Remembers(k, Tail(b))' /\ Complete(k, Tail(b))'
  BY <1>1, <1>9, <1>10 DEF Remembers
<1>12. \A t : AcceptedIn(k, t)' = AcceptedIn(k, t)
  BY <1>1 DEF AcceptedIn
<1>13. Bounded(k)'
  <2>1. Len(attempts'[k]) < Len(attempts[k]) /\ Len(attempts[k]) \in Nat
        /\ Len(attempts'[k]) \in Nat
    BY <1>3, <1>5, <1>7
  <2>2. QED
    BY <1>1, <1>2, <1>12, <2>1, LimiterAssumption DEF KeyInv, Bounded
<1>14. AloneAndLatest(k)' /\ RefusedFull(k)'
  BY <1>1, <1>2, <1>12 DEF KeyInv, AloneAndLatest, RefusedFull, Started
<1>15. k' = k
  BY <1>1
<1>16. QED
  BY <1>7, <1>11, <1>13, <1>14, <1>15 DEF KeyInv

\* A deque as long as the limit, after its sweep, fills the window.
LEMMA FullWindow ==
    ASSUME RateInv, NEW c \in Calls, key[c] \notin raced, pc[c] = "sweep", ~Expired(c),
           Len(Recent(c)) >= MaxAttempts
    PROVE  Cardinality(AcceptedIn(key[c], now[c])) >= MaxAttempts
<1> DEFINE k == key[c]
           S == AcceptedIn(k, now[c])
<1>1. k \in Keys \ raced /\ KeyInv(k) /\ TypeOK
  BY DEF RateInv, TypeOK
<1>2. attempts[k] \in Seq(0..MaxTime) /\ Len(attempts[k]) >= MaxAttempts
  BY <1>1 DEF TypeOK, Recent
<1>3. PICK b \in Seq(Calls) : Remembers(k, b) /\ Complete(k, b)
  BY <1>1 DEF KeyInv
<1>4. Len(b) = Len(attempts[k]) /\ Len(b) \in Nat /\ Len(b) > 0
  BY <1>2, <1>3, LimiterAssumption DEF Remembers, Stands
<1>5. attempts[k] # <<>>
  BY <1>2, <1>4
<1>6. /\ Head(attempts[k]) = attempts[k][1] /\ Head(attempts[k]) \in 0..MaxTime
      /\ ~(now[c] > Head(attempts[k]) + Window)
  <2>1. Head(attempts[k]) \in 0..MaxTime
    BY <1>2, <1>5, HeadTailProperties
  <2>2. Head(attempts[k]) = attempts[k][1]
    BY <1>2, <1>5
  <2>3. ~(now[c] > Head(attempts[k]) + Window)
    BY <1>5 DEF Expired, Recent
  <2>4. QED
    BY <2>1, <2>2, <2>3
<1>7. now[b[1]] = Head(attempts[k])
  BY <1>3, <1>4, <1>6 DEF Remembers, Stands
<1>8. now[c] \in Nat /\ now[b[1]] \in Nat /\ Window \in Nat
  BY <1>1, <1>6, <1>7, LimiterAssumption DEF TypeOK
<1>9. now[c] <= now[b[1]] + Window
  BY <1>6, <1>7, <1>8
<1>10. ASSUME NEW i \in 1..Len(b) PROVE b[i] \in S
  <2>1. b[i] \in Calls /\ pc[b[i]] = "accepted" /\ key[b[i]] = k
    BY <1>3 DEF Remembers, Stands
  <2>2. now[b[i]] <= now[c]
    BY <2>1, <1>1 DEF KeyInv, AloneAndLatest, Started, Running
  <2>3. now[b[1]] <= now[b[i]]
    <3>1. CASE i = 1
      BY <1>8, <3>1
    <3>2. CASE i # 1
      <4>1. 1 \in 1..Len(b) /\ 1 < i
        BY <1>4, <3>2
      <4>2. QED
        BY <1>3, <4>1 DEF Remembers, Stands
    <3>3. QED
      BY <3>1, <3>2
  <2>4. now[b[i]] \in Nat
    BY <1>1, <2>1 DEF TypeOK
  <2>5. now[c] <= now[b[i]] + Window
    BY <1>8, <1>9, <2>3, <2>4
  <2>6. QED
    BY <2>1, <2>2, <2>5 DEF AcceptedIn
<1>11. S \in SUBSET Calls
  BY DEF AcceptedIn
<1>12. Len(b) <= Cardinality(S)
  BY <1>3, <1>10, <1>11, ListedFills DEF Remembers, Stands
<1>13. QED
  BY <1>2, <1>4, <1>12, AcceptedFinite, LimiterAssumption

LEMMA MeasureKeeps ==
    ASSUME RateInv, NEW c \in Calls, Measure(c), key[c] \notin raced
    PROVE  KeyInv(key[c])'
<1> DEFINE k == key[c]
           full == Len(Recent(c)) >= MaxAttempts
<1>1. /\ pc[c] = "sweep" /\ ~Expired(c)
      /\ pc' = [pc EXCEPT ![c] = IF full THEN "refused" ELSE "append"]
      /\ UNCHANGED <<clock, attempts, key, now, raced>>
  BY DEF Measure, Goto
<1>2. k \in Keys \ raced /\ KeyInv(k) /\ TypeOK
  BY DEF RateInv, TypeOK
<1>3. /\ pc'[c] = IF full THEN "refused" ELSE "append"
      /\ \A d \in Calls : d # c => pc'[d] = pc[d]
  BY <1>1, <1>2 DEF TypeOK
<1>4. \A d \in Calls : /\ Started(d)' <=> Started(d)
                       /\ pc'[d] = "accepted" <=> pc[d] = "accepted"
                       /\ pc'[d] \in Running => pc[d] \in Running
  BY <1>1, <1>3 DEF Started, Running
<1>5. AloneAndLatest(k)'
  BY <1>1, <1>2, <1>4 DEF KeyInv, AloneAndLatest
<1>6. PICK b \in Seq(Calls) : Remembers(k, b) /\ Complete(k, b)
  BY <1>2 DEF KeyInv
<1>7. \A i \in 1..Len(b) : b[i] \in Calls
  OBVIOUS
<1>8. Remembers(k, b)'
  BY <1>1, <1>4, <1>6, <1>7 DEF Remembers, Stands
<1>9. \A d \in Calls : Forgotten(d, k)' <=> Forgotten(d, k)
  BY <1>1, <1>4 DEF Forgotten
<1>10. Complete(k, b)'
  BY <1>1, <1>4, <1>6, <1>9 DEF Complete
<1>11. \A t : AcceptedIn(k, t)' = AcceptedIn(k, t)
  BY <1>1, <1>4 DEF AcceptedIn
<1>12. Recent(c) = attempts[k] /\ attempts[k] \in Seq(0..MaxTime)
  BY <1>2 DEF Recent, TypeOK
<1>13. Bounded(k)'
  <2>1. ~full => Len(attempts[k]) < MaxAttempts
    BY <1>12, LimiterAssumption
  <2>2. QED
    BY <1>1, <1>2, <1>3, <1>11, <2>1 DEF KeyInv, Bounded
<1>14. RefusedFull(k)'
  <2>1. full => Cardinality(AcceptedIn(k, now[c])) >= MaxAttempts
    BY <1>1, FullWindow
  <2>2. QED
    BY <1>1, <1>2, <1>3, <1>11, <2>1 DEF KeyInv, RefusedFull
<1>15. k' = k
  BY <1>1
<1>16. QED
  BY <1>5, <1>6, <1>8, <1>10, <1>13, <1>14, <1>15 DEF KeyInv

LEMMA RecordStands ==
    ASSUME TypeOK, NEW c \in Calls, Record(c),
           NEW b \in Seq(Calls), Stands(key[c], b), Complete(key[c], b)
    PROVE  /\ Stands(key[c], Append(b, c))' /\ Complete(key[c], Append(b, c))'
           /\ Append(b, c) \in Seq(Calls)
<1> DEFINE k == key[c]
<1>1. /\ pc[c] = "append"
      /\ attempts' = [attempts EXCEPT ![k] = Append(@, now[c])]
      /\ pc' = [pc EXCEPT ![c] = "accepted"]
      /\ UNCHANGED <<clock, key, now, raced>>
  BY DEF Record, Goto
<1>2. /\ pc'[c] = "accepted" /\ \A d \in Calls : d # c => pc'[d] = pc[d]
      /\ attempts'[k] = Append(attempts[k], now[c])
      /\ attempts[k] \in Seq(0..MaxTime) /\ now[c] \in 0..MaxTime
  BY <1>1 DEF TypeOK
<1>3. Len(b) = Len(attempts[k]) /\ Len(b) \in Nat
  BY DEF Stands
<1> DEFINE grown == Append(b, c)
<1>4. /\ grown \in Seq(Calls) /\ Len(grown) = Len(b) + 1
      /\ \A i \in 1..Len(b) : grown[i] = b[i]
      /\ grown[Len(b) + 1] = c
  BY AppendProperties
<1>5. /\ Len(attempts'[k]) = Len(attempts[k]) + 1
      /\ \A i \in 1..Len(attempts[k]) : attempts'[k][i] = attempts[k][i]
      /\ attempts'[k][Len(attempts[k]) + 1] = now[c]
  BY <1>2, AppendProperties
<1> HIDE DEF grown
<1>6. Stands(k, grown)'
  <2>1. \A i \in 1..Len(grown) : i \in 1..Len(b) \/ i = Len(b) + 1
    BY <1>3, <1>4
  <2>2. ASSUME NEW i \in 1..Len(grown)
        PROVE  /\ pc'[grown[i]] = "accepted" /\ key[grown[i]] = k
               /\ now[grown[i]] = attempts'[k][i]
    <3>1. CASE i \in 1..Len(b)
      <4>1. grown[i] = b[i] /\ attempts'[k][i] = attempts[k][i]
        BY <1>3, <1>4, <1>5, <3>1
      <4>2. /\ b[i] \in Calls /\ pc[b[i]] = "accepted" /\ key[b[i]] = k
            /\ now[b[i]] = attempts[k][i]
        BY <3>1 DEF Stands
      <4>3. b[i] # c
        BY <1>1, <4>2
      <4>4. QED
        BY <1>2, <4>1, <4>2, <4>3
    <3>2. CASE i = Len(b) + 1
      <4>1. grown[i] = c /\ attempts'[k][i] = now[c]
        BY <1>3, <1>4, <1>5, <3>2
      <4>2. QED
        BY <1>2, <4>1
    <3>3. QED
      BY <2>1, <3>1, <3>2
  <2>3. Len(grown) = Len(attempts'[k])
    BY <1>3, <1>4, <1>5
  <2>4. QED
    BY <1>1, <2>2, <2>3 DEF Stands
<1>7. \A d \in Calls : Started(d)' <=> Started(d)
  BY <1>1, <1>2 DEF Started
<1>8. Complete(k, grown)'
  <2>1. ASSUME NEW d \in Calls, pc'[d] = "accepted", key[d] = k
        PROVE  (\E i \in 1..Len(grown) : grown[i] = d) \/ Forgotten(d, k)
    <3>1. CASE d = c
      BY <1>3, <1>4, <3>1
    <3>2. CASE d # c
      <4>1. (\E i \in 1..Len(b) : b[i] = d) \/ Forgotten(d, k)
        BY <1>2, <2>1, <3>2 DEF Complete
      <4>2. \A i \in 1..Len(b) : i \in 1..Len(grown)
        BY <1>3, <1>4
      <4>3. QED
        BY <1>4, <4>1, <4>2
    <3>3. QED
      BY <3>1, <3>2
  <2>2. \A d \in Calls : Forgotten(d, k)' <=> Forgotten(d, k)
    BY <1>1, <1>7 DEF Forgotten
  <2>3. QED
    BY <1>1, <2>1, <2>2 DEF Complete
<1>9. k' = k
  BY <1>1
<1>10. QED
  BY <1>4, <1>6, <1>8, <1>9 DEF grown

\* An attempt that is remembered finds its whole window in a deque that is not
\* full.
LEMMA RecordKeeps ==
    ASSUME RateInv, NEW c \in Calls, Record(c), key[c] \notin raced
    PROVE  KeyInv(key[c])'
<1> DEFINE k == key[c]
<1>1. /\ pc[c] = "append"
      /\ attempts' = [attempts EXCEPT ![k] = Append(@, now[c])]
      /\ pc' = [pc EXCEPT ![c] = "accepted"]
      /\ UNCHANGED <<clock, key, now, raced>>
  BY DEF Record, Goto
<1>2. k \in Keys \ raced /\ KeyInv(k) /\ TypeOK
  BY DEF RateInv, TypeOK
<1>3. /\ pc'[c] = "accepted" /\ \A d \in Calls : d # c => pc'[d] = pc[d]
      /\ attempts'[k] = Append(attempts[k], now[c])
      /\ attempts[k] \in Seq(0..MaxTime) /\ now[c] \in 0..MaxTime
  BY <1>1, <1>2 DEF TypeOK
<1>4. PICK b \in Seq(Calls) : Remembers(k, b) /\ Complete(k, b)
  BY <1>2 DEF KeyInv
<1>5. Len(b) = Len(attempts[k]) /\ Len(b) \in Nat /\ Len(attempts[k]) < MaxAttempts
  BY <1>1, <1>2, <1>4 DEF Remembers, Stands, KeyInv, Bounded
<1>6. \A d \in Calls : key[d] = k /\ Started(d) /\ d # c =>
         pc[d] \notin Running /\ now[d] <= now[c]
  BY <1>1, <1>2 DEF KeyInv, AloneAndLatest, Running
<1>7. \A i \in 1..Len(b) :
        /\ b[i] \in Calls /\ b[i] # c /\ key[b[i]] = k /\ pc[b[i]] = "accepted"
        /\ now[b[i]] <= now[c]
  BY <1>1, <1>4, <1>6 DEF Remembers, Stands, Started
<1> DEFINE grown == Append(b, c)
<1>8. /\ grown \in Seq(Calls) /\ Len(grown) = Len(b) + 1
      /\ \A i \in 1..Len(b) : grown[i] = b[i]
      /\ grown[Len(b) + 1] = c
  BY AppendProperties
<1>9. Len(attempts'[k]) = Len(attempts[k]) + 1
  BY <1>3, AppendProperties
<1> HIDE DEF grown
<1>10. /\ Stands(k, b) /\ Complete(k, b)
       /\ \A i, j \in 1..Len(b) : i < j => b[i] # b[j] /\ now[b[i]] <= now[b[j]]
  BY <1>4 DEF Remembers
<1>11. Stands(k, grown)' /\ Complete(k, grown)'
  BY <1>2, <1>10, RecordStands DEF grown
<1>12. Remembers(k, grown)'
  <2>1. ASSUME NEW i \in 1..Len(grown), NEW j \in 1..Len(grown), i < j
        PROVE  grown[i] # grown[j] /\ now[grown[i]] <= now[grown[j]]
    <3>1. i \in 1..Len(b) /\ (j \in 1..Len(b) \/ j = Len(b) + 1)
      BY <1>5, <1>8, <2>1
    <3>2. CASE j \in 1..Len(b)
      BY <1>8, <1>10, <2>1, <3>1, <3>2
    <3>3. CASE j = Len(b) + 1
      BY <1>7, <1>8, <3>1, <3>3
    <3>4. QED
      BY <3>1, <3>2, <3>3
  <2>2. QED
    BY <1>1, <1>11, <2>1 DEF Remembers
<1>13. ASSUME NEW t \in 0..MaxTime
       PROVE  /\ Cardinality(AcceptedIn(k, t)') <= MaxAttempts
              /\ AcceptedIn(k, t)' \in {AcceptedIn(k, t), AcceptedIn(k, t) \cup {c}}
  <2> DEFINE old == AcceptedIn(k, t)
  <2>1. AcceptedIn(k, t)'
          = IF now[c] <= t /\ t <= now[c] + Window THEN old \cup {c} ELSE old
    BY <1>1, <1>3 DEF AcceptedIn
  <2>2. IsFiniteSet(old) /\ Cardinality(old) \in Nat /\ Cardinality(old) <= MaxAttempts
    BY <1>2, AcceptedFinite DEF KeyInv, Bounded
  <2>3. ASSUME now[c] <= t PROVE Cardinality(old) <= Len(b)
    <3>1. ASSUME NEW d \in old PROVE \E i \in 1..Len(b) : b[i] = d
      <4>1. /\ d \in Calls /\ pc[d] = "accepted" /\ key[d] = k /\ t <= now[d] + Window
        BY <3>1 DEF AcceptedIn
      <4>2. ASSUME Forgotten(d, k) PROVE FALSE
        <5>1. PICK e \in Calls : Started(e) /\ key[e] = k /\ now[d] + Window < now[e]
          BY <4>2 DEF Forgotten
        <5>2. now[e] \in Nat /\ now[d] \in Nat /\ now[c] \in Nat /\ t \in Nat /\ Window \in Nat
          BY <1>2, <4>1, LimiterAssumption DEF TypeOK
        <5>3. now[e] <= now[c]
          BY <1>6, <5>1, <5>2
        <5>4. QED
          BY <2>3, <4>1, <5>1, <5>2, <5>3
      <4>3. QED
        BY <1>4, <4>1, <4>2 DEF Complete
    <3>2. old \in SUBSET Calls
      BY DEF AcceptedIn
    <3>3. QED
      BY <3>1, <3>2, ListedBound
  <2> HIDE DEF old
  <2>4. Cardinality(old \cup {c}) <= Cardinality(old) + 1
    BY <2>2, OneMore
  <2>5. Cardinality(old \cup {c}) \in Nat
    BY <2>2, OneMore
  <2>6. now[c] <= t => Cardinality(old \cup {c}) <= MaxAttempts
    BY <1>5, <2>2, <2>3, <2>4, <2>5, LimiterAssumption
  <2>7. QED
    BY <2>1, <2>2, <2>6 DEF old
<1>14. Bounded(k)'
  <2>1. Len(attempts'[k]) <= MaxAttempts
    BY <1>5, <1>9, LimiterAssumption
  <2>2. \A d \in Calls : key[d] = k => pc'[d] # "append"
    BY <1>1, <1>3, <1>6 DEF Started, Running
  <2>3. QED
    BY <1>1, <1>13, <2>1, <2>2 DEF Bounded
<1>15. RefusedFull(k)'
  <2> SUFFICES ASSUME NEW d \in Calls, pc'[d] = "refused", key[d] = k
               PROVE  Cardinality(AcceptedIn(k, now[d])') >= MaxAttempts
    BY <1>1 DEF RefusedFull
  <2>1. pc[d] = "refused" /\ now[d] \in 0..MaxTime
    BY <1>2, <1>3 DEF TypeOK
  <2> DEFINE old == AcceptedIn(k, now[d])
  <2>2. IsFiniteSet(old) /\ Cardinality(old) \in Nat /\ Cardinality(old) >= MaxAttempts
    BY <1>2, <2>1, AcceptedFinite DEF KeyInv, RefusedFull
  <2>3. AcceptedIn(k, now[d])' \in {old, old \cup {c}}
    BY <1>1, <1>13, <2>1
  <2> HIDE DEF old
  <2>4. Cardinality(old) <= Cardinality(old \cup {c})
    BY <2>2, OneMore
  <2>5. Cardinality(old \cup {c}) \in Nat
    BY <2>2, OneMore
  <2>6. Cardinality(old \cup {c}) >= MaxAttempts
    BY <2>2, <2>4, <2>5, LimiterAssumption
  <2>7. QED
    BY <2>2, <2>3, <2>6
<1>16. AloneAndLatest(k)'
  <2>1. \A d \in Calls : key[d] = k => pc'[d] \notin Running
    BY <1>3, <1>6 DEF Started, Running
  <2>2. QED
    BY <1>1, <2>1 DEF AloneAndLatest
<1>17. k' = k
  BY <1>1
<1>18. QED
  BY <1>8, <1>11, <1>12, <1>14, <1>15, <1>16, <1>17 DEF KeyInv

LEMMA ClockReadStep == TypeOK /\ ClockRead /\ [Next]_vars => ClockRead'
<1> SUFFICES ASSUME TypeOK, ClockRead, [Next]_vars PROVE ClockRead'
  OBVIOUS
<1> USE LimiterAssumption DEF TypeOK, Started, ClockRead
<1>1. CASE Tick
  BY <1>1 DEF Tick
<1>2. ASSUME NEW c \in Calls, ReadClock(c) PROVE ClockRead'
  BY <1>2 DEF ReadClock, Goto
<1>3. ASSUME NEW c \in Calls, Sweep(c) \/ Measure(c) \/ Record(c) PROVE ClockRead'
  BY <1>3 DEF Sweep, Measure, Record, Goto
<1>4. CASE Quiet \/ UNCHANGED vars
  BY <1>4 DEF Quiet, vars
<1>5. QED
  BY <1>1, <1>2, <1>3, <1>4 DEF Next

LEMMA RateStep == RateInv /\ [Next]_vars => RateInv'
<1> SUFFICES ASSUME RateInv, [Next]_vars PROVE RateInv'
  OBVIOUS
<1>1. TypeOK'
  BY TypeStep DEF RateInv
<1>2. ClockRead'
  BY ClockReadStep DEF RateInv
<1>3. ASSUME NEW k \in Keys \ raced' PROVE KeyInv(k)'
  <2>1. raced \subseteq raced' /\ key' = key
    BY DEF Next, Tick, ReadClock, Sweep, Measure, Record, Quiet, vars
  <2>2. k \in Keys /\ k \notin raced /\ KeyInv(k) /\ TypeOK
    BY <2>1 DEF RateInv
  <2>3. ASSUME NEW c \in Calls, ReadClock(c) \/ Sweep(c) \/ Measure(c) \/ Record(c)
        PROVE  KeyInv(k)'
    <3>1. CASE key[c] = k
      <4>1. key[c] \notin raced /\ key[c] \notin raced' /\ key'[c] = k
        BY <1>3, <2>1, <2>2, <3>1
      <4>2. KeyInv(key[c])'
        BY <2>3, <4>1, ReadClockKeeps, SweepKeeps, MeasureKeeps, RecordKeeps
      <4>3. QED
        BY <4>1, <4>2
    <3>2. CASE key[c] # k
      <4>1. attempts'[k] = attempts[k]
        BY <2>2, <2>3, <3>2 DEF ReadClock, Sweep, Measure, Record, TypeOK
      <4>2. \A d \in Calls : key[d] = k => pc'[d] = pc[d] /\ now'[d] = now[d]
        BY <2>2, <2>3, <3>2 DEF ReadClock, Sweep, Measure, Record, Goto, TypeOK
      <4>3. QED
        BY <2>1, <2>2, <4>1, <4>2, ElsewhereKeeps
    <3>3. QED
      BY <3>1, <3>2
  <2>4. ASSUME Tick \/ Quiet \/ UNCHANGED vars PROVE KeyInv(k)'
    <3>1. UNCHANGED <<attempts, pc, key, now>>
      BY <2>4 DEF Tick, Quiet, vars
    <3>2. QED
      BY <2>2, <3>1, ElsewhereKeeps
  <2>5. QED
    BY <2>3, <2>4 DEF Next
<1>4. QED
  BY <1>1, <1>2, <1>3 DEF RateInv

LEMMA RateInvHolds == Spec => []RateInv
  BY RateInit, RateStep, PTL DEF Spec

-----------------------------------------------------------------------------
(* Threads that race for one key *)

Busy == {d \in Calls : pc[d] \in Running}

Around(c, t) == now[c] <= t /\ t <= now[c] + Window

\* The calls of key k that time t may yet count: those past the test of the
\* length, and those that have only read the clock as well.
Settled(k, t) ==
    {c \in Calls : pc[c] \in {"append", "accepted"} /\ key[c] = k /\ Around(c, t)}

Early(k, t) ==
    {c \in Calls : pc[c] \in Running \cup {"accepted"} /\ key[c] = k /\ Around(c, t)}

\* A call of key k has read a time after t: its sweep may forget what t counts,
\* and no call yet to come counts at t.
Passed(k, t) == \E d \in Calls : Started(d) /\ key[d] = k /\ t < now[d]

Overshoot(k, t) ==
    IF Passed(k, t) THEN Cardinality(Early(k, t)) <= MaxAttempts + 2 * (MaxThreads - 1)
                    ELSE Cardinality(Settled(k, t)) <= MaxAttempts + (MaxThreads - 1)

OverInv(k) ==
    /\ \E b \in Seq(Calls) : Stands(k, b) /\ Complete(k, b)
    /\ \A t \in 0..MaxTime : Overshoot(k, t)

ThreadsInv ==
    /\ TypeOK
    /\ Cardinality(Busy) <= MaxThreads
    /\ ClockRead
    /\ \A k \in Keys : OverInv(k)

LEMMA CallsFinite ==
    ASSUME NEW S \in SUBSET Calls
    PROVE  IsFiniteSet(S) /\ Cardinality(S) \in Nat
  BY LimiterAssumption, FS_Subset, FS_CardinalityType

LEMMA Monotone ==
    ASSUME NEW S \in SUBSET Calls, NEW T \in SUBSET S
    PROVE  Cardinality(T) <= Cardinality(S)
  BY CallsFinite, FS_Subset

\* A set covered by two others is no larger than both together.
LEMMA CoveredBound ==
    ASSUME NEW S \in SUBSET Calls, NEW A \in SUBSET Calls, NEW B \in SUBSET Calls,
           S \subseteq A \cup B
    PROVE  Cardinality(S) <= Cardinality(A) + Cardinality(B)
<1>1. /\ IsFiniteSet(A) /\ IsFiniteSet(B) /\ Cardinality(A) \in Nat /\ Cardinality(B) \in Nat
      /\ Cardinality(A \cap B) \in Nat /\ Cardinality(S) \in Nat /\ Cardinality(A \cup B) \in Nat
  BY CallsFinite
<1>2. Cardinality(A \cup B) = Cardinality(A) + Cardinality(B) - Cardinality(A \cap B)
  BY <1>1, FS_Union
<1>3. Cardinality(S) <= Cardinality(A \cup B)
  BY Monotone
<1>4. QED
  BY <1>1, <1>2, <1>3

LEMMA OvershootType ==
    ASSUME NEW k, NEW t
    PROVE  /\ AcceptedIn(k, t) \in SUBSET Calls /\ Settled(k, t) \in SUBSET Calls
           /\ Early(k, t) \in SUBSET Calls /\ Busy \in SUBSET Calls
           /\ AcceptedIn(k, t) \subseteq Settled(k, t) /\ Settled(k, t) \subseteq Early(k, t)
  BY DEF AcceptedIn, Settled, Early, Busy, Around, Running

LEMMA ThreadsInit == Init => ThreadsInv
<1> SUFFICES ASSUME Init PROVE ThreadsInv
  OBVIOUS
<1>1. TypeOK /\ \A c \in Calls : pc[c] = "idle"
  BY TypeInit DEF Init
<1>2. Busy = {} /\ \A k, t : Settled(k, t) = {}
  BY <1>1 DEF Busy, Running, Settled
<1>3. ASSUME NEW k \in Keys PROVE OverInv(k)
  <2>1. attempts[k] = <<>> /\ <<>> \in Seq(Calls) /\ Len(<<>>) = 0
    BY DEF Init
  <2>2. Stands(k, <<>>) /\ Complete(k, <<>>)
    BY <1>1, <2>1 DEF Stands, Complete
  <2>3. \A t : ~Passed(k, t)
    BY <1>1 DEF Passed, Started
  <2>4. \A t : Cardinality(Settled(k, t)) = 0
    BY <1>2, FS_EmptySet
  <2>5. 0 <= MaxAttempts + (MaxThreads - 1)
    BY LimiterAssumption
  <2>6. \A t : Overshoot(k, t)
    BY <2>3, <2>4, <2>5 DEF Overshoot
  <2>7. QED
    BY <2>1, <2>2, <2>6 DEF OverInv
<1>4. Cardinality(Busy) <= MaxThreads
  BY <1>2, FS_EmptySet, LimiterAssumption
<1>5. QED
  BY <1>1, <1>3, <1>4 DEF ThreadsInv, ClockRead, Started

\* A step that leaves the deque and the calls of a key alone.
LEMMA ElsewhereStays ==
    ASSUME NEW k \in Keys, OverInv(k), attempts'[k] = attempts[k], key' = key,
           \A c \in Calls : key[c] = k => pc'[c] = pc[c] /\ now'[c] = now[c]
    PROVE  OverInv(k)'
<1>1. PICK b \in Seq(Calls) : Stands(k, b) /\ Complete(k, b)
  BY DEF OverInv
<1>2. \A i \in 1..Len(b) : b[i] \in Calls
  OBVIOUS
<1>3. Stands(k, b)'
  BY <1>1, <1>2 DEF Stands
<1>4. \A c \in Calls : key[c] = k /\ Forgotten(c, k) => Forgotten(c, k)'
  BY DEF Forgotten, Started
<1>5. Complete(k, b)'
  BY <1>1, <1>4 DEF Complete
<1>6. \A t : /\ Passed(k, t)' <=> Passed(k, t)
             /\ Settled(k, t)' = Settled(k, t) /\ Early(k, t)' = Early(k, t)
  BY DEF Passed, Started, Settled, Early, Around
<1>7. QED
  BY <1>1, <1>3, <1>5, <1>6 DEF OverInv, Overshoot

\* When a call reads a time past t, those that may still count at t are the
\* settled ones and those under way.
LEMMA ReadClockOvershoot ==
    ASSUME ThreadsInv, NEW c \in Calls, ReadClock(c)
    PROVE  OverInv(key[c])'
<1> DEFINE k == key[c]
<1>1. /\ pc[c] = "idle" /\ Cardinality(Busy) < MaxThreads
      /\ now' = [now EXCEPT ![c] = clock] /\ pc' = [pc EXCEPT ![c] = "sweep"]
      /\ UNCHANGED <<clock, attempts, key>>
  BY DEF ReadClock, Goto, Busy
<1>2. TypeOK /\ k \in Keys /\ OverInv(k)
  BY DEF ThreadsInv, TypeOK
<1>3. /\ pc'[c] = "sweep" /\ now'[c] = clock /\ clock \in 0..MaxTime
      /\ \A d \in Calls : d # c => pc'[d] = pc[d] /\ now'[d] = now[d]
  BY <1>1, <1>2 DEF TypeOK
<1>4. \A d \in Calls : Started(d) => d # c /\ Started(d)' /\ now[d] <= clock
  BY <1>1, <1>3 DEF ThreadsInv, ClockRead, Started
<1>5. PICK b \in Seq(Calls) : Stands(k, b) /\ Complete(k, b)
  BY <1>2 DEF OverInv
<1>6. \A i \in 1..Len(b) : b[i] \in Calls
  OBVIOUS
<1>7. Stands(k, b)'
  BY <1>1, <1>3, <1>5, <1>6 DEF Stands
<1>8. \A d \in Calls : d # c /\ Forgotten(d, k) => Forgotten(d, k)'
  BY <1>1, <1>3, <1>4 DEF Forgotten
<1>9. Complete(k, b)'
  BY <1>1, <1>3, <1>5, <1>8 DEF Complete
<1>10. ASSUME NEW t \in 0..MaxTime PROVE Overshoot(k, t)'
  <2>1. Passed(k, t) => Passed(k, t)'
    BY <1>1, <1>3, <1>4 DEF Passed
  <2>2. Settled(k, t)' = Settled(k, t)
    BY <1>1, <1>3 DEF Settled, Around
  <2>3. CASE ~Passed(k, t)'
    BY <1>1, <1>2, <2>1, <2>2, <2>3 DEF OverInv, Overshoot
  <2>4. CASE Passed(k, t)'
    <3>1. t < clock
      <4>1. PICK d \in Calls : Started(d)' /\ key[d] = k /\ t < now'[d]
        BY <1>1, <2>4 DEF Passed
      <4>2. CASE d = c
        BY <1>3, <4>1, <4>2
      <4>3. CASE d # c
        <5>1. t < now[d] /\ now[d] <= clock
          BY <1>3, <1>4, <4>1, <4>3 DEF Started
        <5>2. QED
          BY <1>2, <5>1 DEF TypeOK
      <4>4. QED
        BY <4>2, <4>3
    <3>2. c \notin Early(k, t)'
      BY <1>3, <3>1 DEF Early, Around
    <3>3. Early(k, t)' \subseteq Early(k, t)
      BY <1>1, <1>3, <3>2 DEF Early, Around
    <3>4. CASE Passed(k, t)
      <4>1. Cardinality(Early(k, t)') <= Cardinality(Early(k, t))
        BY <3>3, OvershootType, Monotone
      <4>2. Cardinality(Early(k, t)) <= MaxAttempts + 2 * (MaxThreads - 1)
        BY <1>2, <3>4 DEF OverInv, Overshoot
      <4>3. Cardinality(Early(k, t)) \in Nat /\ Cardinality(Early(k, t)') \in Nat
        BY <3>3, OvershootType, CallsFinite
      <4>4. Cardinality(Early(k, t)') <= MaxAttempts + 2 * (MaxThreads - 1)
        BY <4>1, <4>2, <4>3, LimiterAssumption
      <4>5. QED
        BY <1>1, <2>4, <4>4 DEF Overshoot
    <3>5. CASE ~Passed(k, t)
      <4>1. Early(k, t)' \subseteq Settled(k, t) \cup Busy
        BY <3>3 DEF Early, Settled, Busy, Running
      <4>2. Early(k, t)' \in SUBSET Calls
        BY <3>3, OvershootType
      <4>3. Cardinality(Early(k, t)') <= Cardinality(Settled(k, t)) + Cardinality(Busy)
        BY <4>1, <4>2, OvershootType, CoveredBound
      <4>4. Cardinality(Settled(k, t)) <= MaxAttempts + (MaxThreads - 1)
        BY <1>2, <3>5 DEF OverInv, Overshoot
      <4>5. /\ Cardinality(Early(k, t)') \in Nat /\ Cardinality(Settled(k, t)) \in Nat
            /\ Cardinality(Busy) \in Nat
        BY <4>2, OvershootType, CallsFinite
      <4>6. Cardinality(Early(k, t)') <= MaxAttempts + 2 * (MaxThreads - 1)
        BY <1>1, <4>3, <4>4, <4>5, LimiterAssumption
      <4>7. QED
        BY <1>1, <2>4, <4>6 DEF Overshoot
    <3>6. QED
      BY <3>4, <3>5
  <2>5. QED
    BY <2>3, <2>4
<1>11. QED
  BY <1>1, <1>5, <1>7, <1>9, <1>10 DEF OverInv

\* A call that finds room adds itself, and every thread under way might: until a
\* later call has swept, the deque lists all that count.
LEMMA MeasureOvershoot ==
    ASSUME ThreadsInv, NEW c \in Calls, Measure(c)
    PROVE  OverInv(key[c])'
<1> DEFINE k == key[c]
           full == Len(Recent(c)) >= MaxAttempts
<1>1. /\ pc[c] = "sweep"
      /\ pc' = [pc EXCEPT ![c] = IF full THEN "refused" ELSE "append"]
      /\ UNCHANGED <<clock, attempts, key, now, raced>>
  BY DEF Measure, Goto
<1>2. TypeOK /\ k \in Keys /\ OverInv(k)
  BY DEF ThreadsInv, TypeOK
<1>3. /\ pc'[c] = IF full THEN "refused" ELSE "append"
      /\ \A d \in Calls : d # c => pc'[d] = pc[d]
  BY <1>1, <1>2 DEF TypeOK
<1>4. \A d \in Calls : /\ Started(d)' <=> Started(d)
                       /\ pc'[d] = "accepted" <=> pc[d] = "accepted"
                       /\ pc'[d] \in Running => pc[d] \in Running
  BY <1>1, <1>3 DEF Started, Running
<1>5. PICK b \in Seq(Calls) : Stands(k, b) /\ Complete(k, b)
  BY <1>2 DEF OverInv
<1>6. \A i \in 1..Len(b) : b[i] \in Calls
  OBVIOUS
<1>7. Stands(k, b)'
  BY <1>1, <1>4, <1>5, <1>6 DEF Stands
<1>8. \A d \in Calls : Forgotten(d, k)' <=> Forgotten(d, k)
  BY <1>1, <1>4 DEF Forgotten
<1>9. Complete(k, b)'
  BY <1>1, <1>4, <1>5, <1>8 DEF Complete
<1>10. Len(b) = Len(Recent(c)) /\ Len(b) \in Nat
  BY <1>5 DEF Stands, Recent
<1>11. ASSUME NEW t \in 0..MaxTime PROVE Overshoot(k, t)'
  <2>1. Passed(k, t)' <=> Passed(k, t)
    BY <1>1, <1>4 DEF Passed
  <2>2. CASE Passed(k, t)
    <3>1. Early(k, t)' \subseteq Early(k, t)
      BY <1>1, <1>4 DEF Early, Around
    <3>2. Cardinality(Early(k, t)') <= Cardinality(Early(k, t))
      BY <3>1, OvershootType, Monotone
    <3>3. Cardinality(Early(k, t)) \in Nat /\ Cardinality(Early(k, t)') \in Nat
      BY <3>1, OvershootType, CallsFinite
    <3>4. Cardinality(Early(k, t)) <= MaxAttempts + 2 * (MaxThreads - 1)
      BY <1>2, <2>2 DEF OverInv, Overshoot
    <3>5. Cardinality(Early(k, t)') <= MaxAttempts + 2 * (MaxThreads - 1)
      BY <3>2, <3>3, <3>4, LimiterAssumption
    <3>6. QED
      BY <1>1, <2>1, <2>2, <3>5 DEF Overshoot
  <2>3. CASE ~Passed(k, t) /\ full
    <3>1. Settled(k, t)' = Settled(k, t)
      BY <1>1, <1>3, <2>3 DEF Settled, Around
    <3>2. QED
      BY <1>1, <1>2, <2>1, <2>3, <3>1 DEF OverInv, Overshoot
  <2>4. CASE ~Passed(k, t) /\ ~full
    <3>1. Settled(k, t)' \subseteq AcceptedIn(k, t) \cup Busy
      BY <1>1, <1>4 DEF Settled, Around, AcceptedIn, Busy, Running
    <3>2. Settled(k, t)' \in SUBSET Calls
      BY <3>1, OvershootType
    <3>3. Cardinality(Settled(k, t)') <= Cardinality(AcceptedIn(k, t)) + Cardinality(Busy)
      BY <3>1, <3>2, OvershootType, CoveredBound
    <3>4. ASSUME NEW d \in AcceptedIn(k, t) PROVE \E i \in 1..Len(b) : b[i] = d
      <4>1. d \in Calls /\ pc[d] = "accepted" /\ key[d] = k /\ t <= now[d] + Window
        BY <3>4 DEF AcceptedIn
      <4>2. ASSUME NEW e \in Calls, Started(e), key[e] = k, now[d] + Window < now[e]
            PROVE  FALSE
        <5>1. now[d] \in Nat /\ now[e] \in Nat /\ Window \in Nat /\ t \in Nat
          BY <1>2, <4>1, LimiterAssumption DEF TypeOK
        <5>2. t < now[e]
          BY <4>1, <4>2, <5>1
        <5>3. QED
          BY <2>4, <4>2, <5>2 DEF Passed
      <4>3. ~Forgotten(d, k)
        BY <4>2 DEF Forgotten
      <4>4. QED
        BY <1>5, <4>1, <4>3 DEF Complete
    <3>5. Cardinality(AcceptedIn(k, t)) <= Len(b)
      BY <3>4, OvershootType, ListedBound
    <3>6. /\ Cardinality(AcceptedIn(k, t)) \in Nat /\ Cardinality(Settled(k, t)') \in Nat
          /\ Cardinality(Busy) \in Nat /\ Cardinality(Busy) <= MaxThreads
      BY <3>2, OvershootType, CallsFinite DEF ThreadsInv
    <3>7. Cardinality(Settled(k, t)') <= MaxAttempts + (MaxThreads - 1)
      BY <1>10, <2>4, <3>3, <3>5, <3>6, LimiterAssumption
    <3>8. QED
      BY <1>1, <2>1, <2>4, <3>7 DEF Overshoot
  <2>5. QED
    BY <2>2, <2>3, <2>4
<1>12. QED
  BY <1>1, <1>5, <1>7, <1>9, <1>11 DEF OverInv

LEMMA SweepOvershoot ==
    ASSUME ThreadsInv, NEW c \in Calls, Sweep(c)
    PROVE  OverInv(key[c])'
<1> DEFINE k == key[c]
<1>1. UNCHANGED <<clock, pc, key, now, raced>> /\ TypeOK /\ k \in Keys /\ OverInv(k)
  BY DEF Sweep, ThreadsInv, TypeOK
<1>2. PICK b \in Seq(Calls) : Stands(k, b) /\ Complete(k, b)
  BY <1>1 DEF OverInv
<1>3. Stands(k, Tail(b))' /\ Complete(k, Tail(b))' /\ Tail(b) \in Seq(Calls)
  BY <1>1, <1>2, SweepStands
<1>4. \A t : /\ Passed(k, t)' <=> Passed(k, t)
             /\ Settled(k, t)' = Settled(k, t) /\ Early(k, t)' = Early(k, t)
  BY <1>1 DEF Passed, Started, Settled, Early, Around
<1>5. QED
  BY <1>1, <1>3, <1>4 DEF OverInv, Overshoot

LEMMA RecordOvershoot ==
    ASSUME ThreadsInv, NEW c \in Calls, Record(c)
    PROVE  OverInv(key[c])'
<1> DEFINE k == key[c]
<1>1. /\ pc[c] = "append" /\ pc' = [pc EXCEPT ![c] = "accepted"]
      /\ UNCHANGED <<clock, key, now, raced>> /\ TypeOK /\ k \in Keys /\ OverInv(k)
  BY DEF Record, Goto, ThreadsInv, TypeOK
<1>2. pc'[c] = "accepted" /\ \A d \in Calls : d # c => pc'[d] = pc[d]
  BY <1>1 DEF TypeOK
<1>3. PICK b \in Seq(Calls) : Stands(k, b) /\ Complete(k, b)
  BY <1>1 DEF OverInv
<1>4. Stands(k, Append(b, c))' /\ Complete(k, Append(b, c))' /\ Append(b, c) \in Seq(Calls)
  BY <1>1, <1>3, RecordStands
<1>5. \A t : /\ Passed(k, t)' <=> Passed(k, t)
             /\ Settled(k, t)' = Settled(k, t) /\ Early(k, t)' = Early(k, t)
  BY <1>1, <1>2 DEF Passed, Started, Settled, Early, Around, Running
<1>6. QED
  BY <1>1, <1>4, <1>5 DEF OverInv, Overshoot

\* At most MaxThreads calls are under way.
LEMMA BusyStep == ThreadsInv /\ [Next]_vars => Cardinality(Busy') <= MaxThreads
<1> SUFFICES ASSUME ThreadsInv, [Next]_vars PROVE Cardinality(Busy') <= MaxThreads
  OBVIOUS
<1>1. /\ TypeOK /\ Cardinality(Busy) <= MaxThreads /\ IsFiniteSet(Busy)
      /\ Cardinality(Busy) \in Nat /\ Busy \in SUBSET Calls
  BY CallsFinite DEF ThreadsInv, Busy
<1>2. ASSUME NEW c \in Calls, ReadClock(c) PROVE Cardinality(Busy') <= MaxThreads
  <2>1. Cardinality(Busy) < MaxThreads /\ Busy' = Busy \cup {c}
    BY <1>1, <1>2 DEF ReadClock, Goto, Busy, Running, TypeOK
  <2>2. Cardinality(Busy \cup {c}) <= Cardinality(Busy) + 1 /\ Cardinality(Busy \cup {c}) \in Nat
    BY <1>1, OneMore
  <2>3. QED
    BY <1>1, <2>1, <2>2, LimiterAssumption
<1>3. ASSUME Busy' \subseteq Busy PROVE Cardinality(Busy') <= MaxThreads
  <2>1. Cardinality(Busy') <= Cardinality(Busy) /\ Cardinality(Busy') \in Nat
    BY <1>1, <1>3, Monotone, CallsFinite
  <2>2. QED
    BY <1>1, <2>1, LimiterAssumption
<1>4. ASSUME NEW c \in Calls, Sweep(c) \/ Measure(c) \/ Record(c) PROVE Busy' \subseteq Busy
  BY <1>1, <1>4 DEF Sweep, Measure, Record, Goto, Busy, Running, TypeOK
<1>5. ASSUME Tick \/ Quiet \/ UNCHANGED vars PROVE Busy' \subseteq Busy
  BY <1>5 DEF Tick, Quiet, vars, Busy
<1>6. QED
  BY <1>2, <1>3, <1>4, <1>5 DEF Next

LEMMA ThreadsStep == ThreadsInv /\ [Next]_vars => ThreadsInv'
<1> SUFFICES ASSUME ThreadsInv, [Next]_vars PROVE ThreadsInv'
  OBVIOUS
<1>1. TypeOK /\ TypeOK' /\ Cardinality(Busy') <= MaxThreads
  BY TypeStep, BusyStep DEF ThreadsInv
<1>2. ClockRead'
  BY ClockReadStep DEF ThreadsInv
<1>3. ASSUME NEW k \in Keys PROVE OverInv(k)'
  <2>1. key' = key /\ OverInv(k)
    BY DEF Next, Tick, ReadClock, Sweep, Measure, Record, Quiet, vars, ThreadsInv
  <2>2. ASSUME NEW c \in Calls, ReadClock(c) \/ Sweep(c) \/ Measure(c) \/ Record(c)
        PROVE  OverInv(k)'
    <3>1. CASE key[c] = k
      <4>1. OverInv(key[c])'
        BY <2>2, ReadClockOvershoot, SweepOvershoot, MeasureOvershoot, RecordOvershoot
      <4>2. QED
        BY <2>1, <3>1, <4>1
    <3>2. CASE key[c] # k
      <4>1. attempts'[k] = attempts[k]
        BY <1>1, <2>2, <3>2 DEF ReadClock, Sweep, Measure, Record, TypeOK
      <4>2. \A d \in Calls : key[d] = k => pc'[d] = pc[d] /\ now'[d] = now[d]
        BY <1>1, <2>2, <3>2 DEF ReadClock, Sweep, Measure, Record, Goto, TypeOK
      <4>3. QED
        BY <2>1, <4>1, <4>2, ElsewhereStays
    <3>3. QED
      BY <3>1, <3>2
  <2>3. ASSUME Tick \/ Quiet \/ UNCHANGED vars PROVE OverInv(k)'
    <3>1. UNCHANGED <<attempts, pc, key, now>>
      BY <2>3 DEF Tick, Quiet, vars
    <3>2. QED
      BY <2>1, <3>1, ElsewhereStays
  <2>4. QED
    BY <2>2, <2>3 DEF Next
<1>4. QED
  BY <1>1, <1>2, <1>3 DEF ThreadsInv

-----------------------------------------------------------------------------
(* What follows *)

\* However many threads there are: no window of a key holds more accepted
\* attempts than the limit, as long as no two calls for that key overlapped
\* (rate_limit.py check).
THEOREM WindowsBounded == Spec => []WindowBound
<1>1. RateInv => WindowBound
  BY DEF RateInv, KeyInv, Bounded, WindowBound
<1>2. QED
  BY <1>1, RateInvHolds, PTL

\* Under the same condition nobody is turned away from a window with room in it
\* (rate_limit.py check).
THEOREM RefusalsJustified == Spec => []RefusedOnlyWhenFull
<1>1. RateInv => RefusedOnlyWhenFull
  <2> SUFFICES ASSUME RateInv, NEW c \in Calls, pc[c] = "refused", key[c] \notin raced
               PROVE  Cardinality(AcceptedIn(key[c], now[c])) >= MaxAttempts
    BY DEF RefusedOnlyWhenFull
  <2>1. key[c] \in Keys
    BY DEF RateInv, TypeOK
  <2>2. QED
    BY <2>1 DEF RateInv, KeyInv, RefusedFull
<1>2. QED
  BY <1>1, RateInvHolds, PTL

\* Whatever the threads do, a window exceeds the limit by at most two attempts
\* for each other thread: those that measured before it was full, and those that
\* measured a deque swept for a later time (rate_limit.py check).
THEOREM OvershootIsBounded == Spec => []OvershootBounded
<1>1. ThreadsInv => OvershootBounded
  <2> SUFFICES ASSUME ThreadsInv, NEW k \in Keys, NEW t \in 0..MaxTime
               PROVE  Cardinality(AcceptedIn(k, t)) <= MaxAttempts + 2 * (MaxThreads - 1)
    BY DEF OvershootBounded
  <2>1. Overshoot(k, t)
    BY DEF ThreadsInv, OverInv
  <2>2. /\ Cardinality(AcceptedIn(k, t)) \in Nat /\ Cardinality(Settled(k, t)) \in Nat
        /\ Cardinality(Early(k, t)) \in Nat
    BY OvershootType, CallsFinite
  <2>3. /\ Cardinality(AcceptedIn(k, t)) <= Cardinality(Settled(k, t))
        /\ Cardinality(Settled(k, t)) <= Cardinality(Early(k, t))
    BY OvershootType, Monotone
  <2>4. QED
    BY <2>1, <2>2, <2>3, LimiterAssumption DEF Overshoot
<1>2. QED
  BY <1>1, ThreadsInit, ThreadsStep, PTL DEF Spec
=============================================================================
