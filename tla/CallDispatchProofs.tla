-------------------------- MODULE CallDispatchProofs --------------------------
(***************************************************************************)
(* What holds of the calls of an operation for every number of calls,      *)
(* limits, retries and endings.  Where a fault breaks a property the       *)
(* theorem assumes it away, and says so.                                   *)
(***************************************************************************)
EXTENDS CallDispatch, SequenceTheorems, FiniteSetTheorems, TLAPS

Statuses == {"ABSENT"} \cup Progress \cup Terminal

\* What a sequence holds, and that it holds nothing twice.
In(p) == {p[i] : i \in 1..Len(p)}
Once(p) == \A i, j \in 1..Len(p) : p[i] = p[j] => i = j

\* p can be called while the calls in a are active.
Callable(p, a, st) ==
  /\ p \in Seq(QuoteCalls) /\ Once(p)
  /\ a \subseteq QuoteCalls /\ IsFiniteSet(a) /\ Cardinality(a) <= MaxParallel
  /\ In(p) \cap a = {}
  /\ \A c \in In(p) : st[c] = "ABSENT"

\* The first n of a sequence, and the rest of it.
First(p, n) == {p[i] : i \in 1..n}
Rest(p, n)  == SubSeq(p, n + 1, Len(p))

LEMMA Split ==
  ASSUME NEW p \in Seq(QuoteCalls), Once(p), NEW n \in 0..Len(p)
  PROVE  /\ IsFiniteSet(First(p, n)) /\ Cardinality(First(p, n)) = n
         /\ Rest(p, n) \in Seq(QuoteCalls) /\ Once(Rest(p, n))
         /\ Len(Rest(p, n)) = Len(p) - n
         /\ In(p) = First(p, n) \cup In(Rest(p, n))
         /\ First(p, n) \cap In(Rest(p, n)) = {}
<1> DEFINE first == {p[i] : i \in 1..n}
           rest  == SubSeq(p, n + 1, Len(p))
           f == [i \in 1..n |-> p[i]]
<1>1. Len(p) \in Nat /\ n \in Nat /\ n <= Len(p) /\ \A i \in 1..Len(p) : p[i] \in QuoteCalls
  OBVIOUS
<1>2. IsFiniteSet(first) /\ Cardinality(first) = n
  <2>1. f \in Surjection(1..n, first)
    BY DEF Surjection
  <2>2. IsInjective(f)
    <3> SUFFICES ASSUME NEW i \in 1..n, NEW j \in 1..n, p[i] = p[j] PROVE i = j
      BY DEF IsInjective
    <3> QED
      BY <1>1 DEF Once
  <2>3. f \in Injection(1..n, first)
    BY <2>1, <2>2 DEF Injection, Surjection
  <2>4. IsFiniteSet(1..n) /\ Cardinality(1..n) = n
    BY <1>1, FS_Interval
  <2> HIDE DEF f, first
  <2> QED
    BY <2>1, <2>3, <2>4, FS_Surjection
<1>3. /\ rest \in Seq(QuoteCalls)
      /\ Len(rest) = Len(p) - n
      /\ \A i \in 1..(Len(p) - n) : rest[i] = p[n + i]
  <2>1. \A i \in (n + 1)..Len(p) : p[i] \in QuoteCalls
    BY <1>1
  <2> QED
    BY <1>1, <2>1
<1>4. Once(rest)
  <2> SUFFICES ASSUME NEW i \in 1..(Len(p) - n), NEW j \in 1..(Len(p) - n), rest[i] = rest[j]
               PROVE  i = j
    BY <1>3 DEF Once
  <2>1. n + i \in 1..Len(p) /\ n + j \in 1..Len(p) /\ p[n + i] = p[n + j]
    BY <1>1, <1>3
  <2> QED
    BY <1>1, <2>1 DEF Once
<1>5. In(rest) = {p[i] : i \in (n + 1)..Len(p)}
  <2>1. \A i \in 1..(Len(p) - n) : n + i \in (n + 1)..Len(p) /\ rest[i] = p[n + i]
    BY <1>1, <1>3
  <2>2. \A i \in (n + 1)..Len(p) : i - n \in 1..(Len(p) - n) /\ rest[i - n] = p[i]
    BY <1>1, <1>3
  <2> HIDE DEF rest
  <2> QED
    BY <1>3, <2>1, <2>2 DEF In
<1>6. In(p) = first \cup {p[i] : i \in (n + 1)..Len(p)}
  <2>1. \A i \in 1..Len(p) : i \in 1..n \/ i \in (n + 1)..Len(p)
    BY <1>1
  <2>2. 1..n \subseteq 1..Len(p) /\ (n + 1)..Len(p) \subseteq 1..Len(p)
    BY <1>1
  <2> QED
    BY <2>1, <2>2 DEF In
<1>7. first \cap {p[i] : i \in (n + 1)..Len(p)} = {}
  <2> SUFFICES ASSUME NEW i \in 1..n, NEW j \in (n + 1)..Len(p), p[i] = p[j] PROVE FALSE
    OBVIOUS
  <2> QED
    BY <1>1 DEF Once
<1> HIDE DEF first, rest
<1> QED
  BY <1>2, <1>3, <1>4, <1>5, <1>6, <1>7 DEF first, rest, First, Rest

\* Calls N of p are made, and those in R only have a row.
Pumped(p, a, st, jb, N, R) ==
  /\ N \cup R \subseteq In(p)
  /\ R # {} => "storage" \in Faults
  /\ active' = a \cup N
  /\ status' = [c \in Calls |-> IF c \in N \cup R THEN "QUEUED" ELSE st[c]]
  /\ job' = [c \in Calls |-> IF c \in N THEN "queued" ELSE jb[c]]
  /\ Callable(pending', active', status')
  /\ In(pending') \subseteq In(p)
  /\ "storage" \notin Faults => In(p) = In(pending') \cup N
  /\ "storage" \notin Faults /\ pending' # <<>> => Cardinality(active') = MaxParallel

\* Room is made for no more calls than are allowed.
LEMMA RoomBound ==
  ASSUME NEW p \in Seq(QuoteCalls), NEW a, IsFiniteSet(a), Cardinality(a) <= MaxParallel
  PROVE  /\ Room(p, a) \in 0..Len(p)
         /\ Cardinality(a) + Room(p, a) <= MaxParallel
         /\ Room(p, a) = Len(p) \/ Cardinality(a) + Room(p, a) = MaxParallel
<1>1. Cardinality(a) \in Nat /\ Len(p) \in Nat /\ MaxParallel \in Nat
  BY FS_CardinalityType, LimitsAssumption
<1> QED
  BY <1>1 DEF Room

\* Adding the first n of a list of calls to those that are active.
LEMMA Added ==
  ASSUME NEW p, NEW a, NEW st, Callable(p, a, st), NEW n \in 0..Room(p, a),
         NEW m \in 0..Len(p), m = n \/ m = n + 1
  PROVE  /\ First(p, n) \subseteq In(p) /\ First(p, n) \subseteq QuoteCalls
         /\ IsFiniteSet(a \cup First(p, n))
         /\ n = Room(p, a) => n = Len(p) \/ Cardinality(a \cup First(p, n)) = MaxParallel
         /\ Cardinality(a \cup First(p, n)) <= MaxParallel
         /\ Rest(p, m) \in Seq(QuoteCalls) /\ Once(Rest(p, m))
         /\ Len(Rest(p, m)) = Len(p) - m
         /\ In(Rest(p, m)) \subseteq In(p)
         /\ In(Rest(p, m)) \cap First(p, m) = {}
         /\ First(p, n) \subseteq First(p, m)
<1> DEFINE new  == First(p, n)
           upTo == First(p, m)
           rest == Rest(p, m)
<1>1. /\ p \in Seq(QuoteCalls) /\ Once(p) /\ IsFiniteSet(a) /\ Cardinality(a) <= MaxParallel
      /\ In(p) \cap a = {}
  BY DEF Callable
<1>2. /\ Room(p, a) \in 0..Len(p) /\ Cardinality(a) + Room(p, a) <= MaxParallel
      /\ Cardinality(a) \in Nat /\ Len(p) \in Nat /\ MaxParallel \in Nat
  BY <1>1, RoomBound, FS_CardinalityType, LimitsAssumption
<1>3. n \in 0..Len(p) /\ n \in Nat /\ m \in Nat /\ n <= m
  BY <1>2
<1>4. IsFiniteSet(new) /\ Cardinality(new) = n /\ new \subseteq In(p)
  <2>1. IsFiniteSet(new) /\ Cardinality(new) = n
    BY <1>1, <1>3, Split
  <2>2. new \subseteq In(p)
    BY <1>3 DEF In, First
  <2> QED
    BY <2>1, <2>2
<1>5. /\ rest \in Seq(QuoteCalls) /\ Once(rest) /\ Len(rest) = Len(p) - m
      /\ In(p) = upTo \cup In(rest) /\ upTo \cap In(rest) = {}
  BY <1>1, <1>3, Split
<1>6. new \subseteq upTo
  BY <1>3 DEF First
<1>7. new \subseteq QuoteCalls
  <2>1. In(p) \subseteq QuoteCalls
    BY <1>1 DEF In
  <2> QED
    BY <1>4, <2>1
<1> HIDE DEF new, upTo, rest
<1>8. a \cap new = {}
  BY <1>1, <1>4
<1>9. IsFiniteSet(a \cup new) /\ Cardinality(a \cup new) = Cardinality(a) + n
  <2>1. /\ IsFiniteSet(a \cup new)
        /\ Cardinality(a \cup new) = Cardinality(a) + Cardinality(new) - Cardinality(a \cap new)
    BY <1>1, <1>4, FS_Union
  <2>2. Cardinality(a \cap new) = 0
    BY <1>8, FS_EmptySet
  <2> QED
    BY <1>2, <1>3, <1>4, <2>1, <2>2
<1>10. Cardinality(a \cup new) <= MaxParallel
  BY <1>2, <1>3, <1>9
<1>11. n = Room(p, a) => n = Len(p) \/ Cardinality(a \cup new) = MaxParallel
  BY <1>1, <1>9, RoomBound
<1> QED
  BY <1>4, <1>5, <1>6, <1>7, <1>9, <1>10, <1>11 DEF new, upTo, rest

\* pumpCampaign leaves a list that can be called, and no more active calls than
\* are allowed.
LEMMA PumpEffect ==
  ASSUME NEW p, NEW a, NEW st \in [Calls -> Statuses], NEW jb,
         Callable(p, a, st), Pump(p, a, st, jb)
  PROVE  \E N, R \in SUBSET QuoteCalls : Pumped(p, a, st, jb, N, R)
<1>1. /\ p \in Seq(QuoteCalls) /\ a \subseteq QuoteCalls /\ IsFiniteSet(a)
      /\ Cardinality(a) <= MaxParallel /\ In(p) \cap a = {}
      /\ \A c \in In(p) : st[c] = "ABSENT"
  BY DEF Callable
<1>2. /\ Room(p, a) \in 0..Len(p) /\ Len(p) \in Nat
      /\ Room(p, a) = Len(p) \/ Cardinality(a) + Room(p, a) = MaxParallel
  BY <1>1, RoomBound
<1>3. In(p) \subseteq QuoteCalls
  BY <1>1 DEF In
<1>4. CASE LET n == Room(p, a)
           IN /\ pending' = Rest(p, n)
              /\ active' = a \cup First(p, n)
              /\ Enqueue(First(p, n), st, jb)
  <2> DEFINE n == Room(p, a)
             new == First(p, n)
  <2>1. n \in 0..Room(p, a) /\ n \in 0..Len(p)
    BY <1>2
  <2>2. /\ new \subseteq In(p) /\ new \subseteq QuoteCalls
        /\ IsFiniteSet(active') /\ Cardinality(active') <= MaxParallel
        /\ n = Len(p) \/ Cardinality(active') = MaxParallel
        /\ pending' \in Seq(QuoteCalls) /\ Once(pending') /\ Len(pending') = Len(p) - n
        /\ In(pending') \subseteq In(p) /\ In(pending') \cap new = {}
        /\ In(p) = In(pending') \cup new
    <3> HIDE DEF n
    <3>1. /\ First(p, n) \subseteq In(p) /\ First(p, n) \subseteq QuoteCalls
          /\ IsFiniteSet(a \cup First(p, n))
          /\ Cardinality(a \cup First(p, n)) <= MaxParallel
      BY <2>1, Added
    <3>2. n = Len(p) \/ Cardinality(a \cup First(p, n)) = MaxParallel
      BY <2>1, Added DEF n
    <3>3. /\ Rest(p, n) \in Seq(QuoteCalls) /\ Once(Rest(p, n))
          /\ In(Rest(p, n)) \subseteq In(p)
          /\ In(Rest(p, n)) \cap First(p, n) = {}
      BY <2>1, Added
    <3>4. Len(Rest(p, n)) = Len(p) - n
      BY <2>1, Added
    <3>5. active' = a \cup First(p, n) /\ pending' = Rest(p, n)
      BY <1>4 DEF n
    <3>6. In(p) = First(p, n) \cup In(Rest(p, n))
      BY <1>1, <2>1, Split DEF Callable
    <3> QED
      BY <3>1, <3>2, <3>3, <3>4, <3>5, <3>6
  <2>3. /\ status' = [c \in Calls |-> IF c \in new THEN "QUEUED" ELSE st[c]]
        /\ job' = [c \in Calls |-> IF c \in new THEN "queued" ELSE jb[c]]
        /\ active' = a \cup new
    BY <1>4 DEF Enqueue
  <2>4. pending' # <<>> => Cardinality(active') = MaxParallel
    <3>1. Len(p) = n => pending' = <<>>
      BY <1>2, <2>2
    <3> QED
      BY <1>2, <2>2, <3>1
  <2> HIDE DEF new, n
  <2>5. \A c \in In(pending') : status'[c] = "ABSENT"
    BY <1>1, <1>3, <2>2, <2>3 DEF Calls
  <2>6. active' \subseteq QuoteCalls /\ In(pending') \cap active' = {}
    BY <1>1, <2>2, <2>3
  <2>7. Pumped(p, a, st, jb, new, {})
    BY <2>2, <2>3, <2>4, <2>5, <2>6 DEF Pumped, Callable
  <2> QED
    BY <2>2, <2>7
<1>5. ASSUME "storage" \in Faults, NEW n \in 1..Room(p, a), NEW row \in {"ABSENT", "QUEUED"},
             /\ pending' = Rest(p, n)
             /\ active' = a \cup First(p, n - 1)
             /\ Enqueue(First(p, n - 1), [st EXCEPT ![p[n]] = row], jb)
      PROVE  \E N, R \in SUBSET QuoteCalls : Pumped(p, a, st, jb, N, R)
  <2> DEFINE new == First(p, n - 1)
             R == IF row = "QUEUED" THEN {p[n]} ELSE {}
             st2 == [st EXCEPT ![p[n]] = row]
  <2>1. n - 1 \in 0..Room(p, a) /\ n = (n - 1) + 1 /\ n \in 0..Len(p) /\ n \in 1..Len(p)
    BY <1>2
  <2>2. /\ new \subseteq In(p) /\ new \subseteq QuoteCalls
        /\ IsFiniteSet(active') /\ Cardinality(active') <= MaxParallel
        /\ pending' \in Seq(QuoteCalls) /\ Once(pending')
        /\ In(pending') \subseteq In(p) /\ In(pending') \cap First(p, n) = {}
        /\ new \subseteq First(p, n)
    <3> DEFINE k == n - 1
    <3> HIDE DEF k
    <3>1. k \in 0..Room(p, a) /\ n = k + 1 /\ n \in 0..Len(p)
      BY <2>1 DEF k
    <3>2. /\ First(p, k) \subseteq In(p) /\ First(p, k) \subseteq QuoteCalls
          /\ IsFiniteSet(a \cup First(p, k))
          /\ Cardinality(a \cup First(p, k)) <= MaxParallel
          /\ Rest(p, n) \in Seq(QuoteCalls) /\ Once(Rest(p, n))
          /\ In(Rest(p, n)) \subseteq In(p)
          /\ In(Rest(p, n)) \cap First(p, n) = {}
          /\ First(p, k) \subseteq First(p, n)
      BY <3>1, Added
    <3>3. active' = a \cup First(p, k) /\ pending' = Rest(p, n) /\ new = First(p, k)
      BY <1>5 DEF k
    <3> QED
      BY <3>2, <3>3
  <2>3. p[n] \in In(p) /\ p[n] \notin In(pending') /\ In(pending') \cap new = {}
    <3>1. p[n] \in In(p)
      BY <2>1 DEF In
    <3>2. p[n] \in First(p, n)
      BY <2>1 DEF First
    <3> HIDE DEF new
    <3> QED
      BY <2>2, <3>1, <3>2
  <2>4. /\ status' = [c \in Calls |-> IF c \in new THEN "QUEUED" ELSE st2[c]]
        /\ job' = [c \in Calls |-> IF c \in new THEN "queued" ELSE jb[c]]
        /\ active' = a \cup new
    BY <1>5 DEF Enqueue
  <2>5. \A c \in Calls : st2[c] = IF c \in R THEN "QUEUED" ELSE st[c]
    BY <1>1, <1>3, <2>3 DEF Calls
  <2>6. R \subseteq In(p) /\ R \cap In(pending') = {} /\ R \subseteq QuoteCalls
    BY <1>3, <2>3
  <2> HIDE DEF new, R, st2
  <2>7. status' = [c \in Calls |-> IF c \in new \cup R THEN "QUEUED" ELSE st[c]]
    BY <2>4, <2>5
  <2>8. \A c \in In(pending') : status'[c] = "ABSENT"
    BY <1>1, <1>3, <2>2, <2>3, <2>6, <2>7 DEF Calls
  <2>9. active' \subseteq QuoteCalls /\ In(pending') \cap active' = {}
    BY <1>1, <2>2, <2>3, <2>4
  <2>10. Pumped(p, a, st, jb, new, R)
    BY <1>5, <2>2, <2>4, <2>6, <2>7, <2>8, <2>9 DEF Pumped, Callable
  <2> QED
    BY <2>2, <2>6, <2>10
<1> QED
  BY <1>4, <1>5 DEF Pump, First, Rest

-----------------------------------------------------------------------------
\* What the row, the job and the provider's calls of one call keep.
StartedAt(c) ==
  /\ status[c] = "ABSENT" =>
       /\ job[c] = "none" /\ attempts[c] = 0 /\ known[c] = 0
       /\ \A k \in Attempts : reports[c][k] = {}
  /\ job[c] = "queued" => attempts[c] <= MaxRetries
  /\ job[c] = "requesting" => attempts[c] \in Attempts /\ known[c] = 0
  /\ status[c] = "FAILED" =>
       \/ \E k \in Attempts : "FAILED" \in reports[c][k]
       \/ known[c] = 0 /\ job[c] \notin {"queued", "requesting"}

Started == \A c \in Calls : StartedAt(c)

\* The rows, the jobs and the provider, whatever fails.
DispatchInv ==
  /\ TypeOK
  /\ Callable(pending, active, status)
  /\ \A c \in active : status[c] # "ABSENT"
  /\ Started

\* Call c has status s now, and jb are the jobs; its slot is freed or not; the
\* calls in N are made, those in R only have a row.
Settled(c, s, jb, freed, N, R) ==
  /\ N \cup R \subseteq In(pending)
  /\ R # {} => "storage" \in Faults
  /\ active' = (active \ (IF freed THEN {c} ELSE {})) \cup N
  /\ status' = [d \in Calls |-> IF d \in N \cup R THEN "QUEUED"
                                ELSE IF d = c THEN s ELSE status[d]]
  /\ job' = [d \in Calls |-> IF d \in N THEN "queued" ELSE jb[d]]
  /\ Callable(pending', active', status')
  /\ In(pending') \subseteq In(pending)
  /\ "storage" \notin Faults => In(pending) = In(pending') \cup N
  /\ "storage" \notin Faults /\ (pending # <<>> => Cardinality(active) = MaxParallel)
       => (pending' # <<>> => Cardinality(active') = MaxParallel)

\* A row, a job and no slot have changed.
LEMMA SettledInPlace ==
  ASSUME DispatchInv, NEW c \in Calls, status[c] # "ABSENT", NEW s \in Statuses \ {"ABSENT"},
         NEW jb \in [Calls -> {"none", "queued", "requesting", "ended"}],
         status' = [status EXCEPT ![c] = s], job' = jb, UNCHANGED <<pending, active>>
  PROVE  Settled(c, s, jb, FALSE, {}, {})
<1>1. status \in [Calls -> Statuses]
  BY DEF DispatchInv, TypeOK, Statuses
<1>2. status' = [d \in Calls |-> IF d = c THEN s ELSE status[d]]
  BY <1>1
<1>3. \A d \in In(pending) : d \in Calls /\ d # c /\ status[d] = "ABSENT"
  BY DEF DispatchInv, Callable, In, Calls
<1>4. Callable(pending', active', status')
  BY <1>2, <1>3 DEF DispatchInv, Callable
<1> QED
  BY <1>2, <1>4 DEF Settled

LEMMA SettledFreed ==
  ASSUME DispatchInv, NEW c \in Calls, status[c] # "ABSENT", NEW s \in Statuses \ {"ABSENT"},
         NEW jb \in [Calls -> {"none", "queued", "requesting", "ended"}],
         Release(c, [status EXCEPT ![c] = s], jb)
  PROVE  \E N, R \in SUBSET QuoteCalls : Settled(c, s, jb, TRUE, N, R)
<1> DEFINE st == [status EXCEPT ![c] = s]
           a == active \ {c}
<1>1. status \in [Calls -> Statuses]
  BY DEF DispatchInv, TypeOK, Statuses
<1>2. st \in [Calls -> Statuses] /\ \A d \in Calls : st[d] = IF d = c THEN s ELSE status[d]
  BY <1>1
<1>3. \A d \in In(pending) : d \in Calls /\ d # c /\ status[d] = "ABSENT"
  BY DEF DispatchInv, Callable, In, Calls
<1>4. CASE c \in active
  <2>1. Pump(pending, a, st, jb)
    BY <1>4 DEF Release
  <2>2. IsFiniteSet(a) /\ Cardinality(a) <= MaxParallel
    <3>1. IsFiniteSet(active) /\ Cardinality(active) \in Nat /\ Cardinality(active) <= MaxParallel
      BY FS_CardinalityType DEF DispatchInv, Callable
    <3>2. IsFiniteSet(a) /\ Cardinality(a) = Cardinality(active) - 1
      BY <1>4, <3>1, FS_RemoveElement
    <3> QED
      BY <3>1, <3>2, LimitsAssumption
  <2> HIDE DEF st
  <2>3. Callable(pending, a, st)
    BY <1>2, <1>3, <2>2 DEF DispatchInv, Callable
  <2>4. PICK N \in SUBSET QuoteCalls, R \in SUBSET QuoteCalls : Pumped(pending, a, st, jb, N, R)
    BY <1>2, <2>1, <2>3, PumpEffect
  <2>5. status' = [d \in Calls |-> IF d \in N \cup R THEN "QUEUED"
                                   ELSE IF d = c THEN s ELSE status[d]]
    BY <1>2, <2>4 DEF Pumped
  <2>6. Settled(c, s, jb, TRUE, N, R)
    BY <2>4, <2>5 DEF Pumped, Settled
  <2> QED
    BY <2>6
<1>5. CASE c \notin active
  <2>1. status' = st /\ job' = jb /\ UNCHANGED <<pending, active>>
    BY <1>5 DEF Release
  <2>2. Settled(c, s, jb, FALSE, {}, {})
    BY <2>1, SettledInPlace
  <2>3. Settled(c, s, jb, TRUE, {}, {})
    BY <1>5, <2>2 DEF Settled
  <2> QED
    BY <2>3
<1> QED
  BY <1>4, <1>5

\* A status the row takes over, as far as the dispatcher goes.
LEMMA FollowEffect ==
  ASSUME DispatchInv, NEW c \in Calls, status[c] # "ABSENT",
         NEW s \in Progress \cup Terminal, Follow(c, s)
  PROVE  \E N, R \in SUBSET QuoteCalls, freed \in BOOLEAN :
           /\ Settled(c, s, job, freed, N, R)
           /\ freed => s \in Terminal
           /\ "storage" \notin Faults /\ s \in Terminal => freed
<1>1. s \in Statuses \ {"ABSENT"}
  BY DEF Statuses, Progress, Terminal
<1>2. job \in [Calls -> {"none", "queued", "requesting", "ended"}]
  BY DEF DispatchInv, TypeOK
<1>3. CASE s \in Terminal /\ Release(c, [status EXCEPT ![c] = s], job)
  BY <1>1, <1>2, <1>3, SettledFreed
<1>4. CASE /\ status' = [status EXCEPT ![c] = s] /\ UNCHANGED <<job, pending, active>>
           /\ "storage" \in Faults \/ s \notin Terminal
  <2>1. Settled(c, s, job, FALSE, {}, {})
    BY <1>1, <1>2, <1>4, SettledInPlace
  <2> QED
    BY <1>4, <2>1
<1> QED
  BY <1>3, <1>4 DEF Follow

\* A call that is given up.
LEMMA GivesUpEffect ==
  ASSUME DispatchInv, NEW c \in Calls, status[c] # "ABSENT", GivesUp(c)
  PROVE  \E N, R \in SUBSET QuoteCalls, freed \in BOOLEAN, s \in Statuses \ {"ABSENT"} :
           /\ Settled(c, s, [job EXCEPT ![c] = "ended"], freed, N, R)
           /\ (s = status[c] /\ ~ freed) \/ (s = "FAILED" /\ ~ Ended(c) /\ freed)
           /\ "storage" \notin Faults => s \in Terminal
<1> DEFINE jb == [job EXCEPT ![c] = "ended"]
<1>1. jb \in [Calls -> {"none", "queued", "requesting", "ended"}]
  BY DEF DispatchInv, TypeOK
<1>2. status[c] \in Statuses \ {"ABSENT"} /\ "FAILED" \in Terminal /\ "FAILED" \in Statuses \ {"ABSENT"}
  BY DEF DispatchInv, TypeOK, Statuses, Terminal
<1> HIDE DEF jb
<1> SUFFICES \E N, R \in SUBSET QuoteCalls, freed \in BOOLEAN, s \in Statuses \ {"ABSENT"} :
               /\ Settled(c, s, jb, freed, N, R)
               /\ (s = status[c] /\ ~ freed) \/ (s = "FAILED" /\ ~ Ended(c) /\ freed)
               /\ "storage" \notin Faults => s \in Terminal
  BY DEF jb
<1>3. CASE ~ Ended(c) /\ Release(c, [status EXCEPT ![c] = "FAILED"], jb)
  <2>1. \E N, R \in SUBSET QuoteCalls : Settled(c, "FAILED", jb, TRUE, N, R)
    BY <1>1, <1>2, <1>3, SettledFreed
  <2> QED
    BY <1>2, <1>3, <2>1
<1>4. CASE /\ job' = jb /\ UNCHANGED <<status, pending, active>>
           /\ Ended(c) \/ "storage" \in Faults
  <2>1. status' = [status EXCEPT ![c] = status[c]]
    BY <1>4 DEF DispatchInv, TypeOK
  <2>2. Settled(c, status[c], jb, FALSE, {}, {})
    BY <1>1, <1>2, <1>4, <2>1, SettledInPlace
  <2>3. "storage" \notin Faults => status[c] \in Terminal
    BY <1>4 DEF Ended
  <2> QED
    BY <1>2, <2>2, <2>3
<1> QED
  BY <1>3, <1>4 DEF GivesUp, jb

-----------------------------------------------------------------------------
\* A row may take over status t.
Takes(c, t) == status[c] = t \/ Allowed(status[c], t)

\* Call d has just been made, or only its row was stored.
Fresh(d) ==
  /\ status[d] = "ABSENT" /\ status'[d] = "QUEUED"
  /\ job'[d] \in {"none", "queued"}

JobStates == {"none", "queued", "requesting", "ended"}

\* What a step of the dispatcher does to the rows and the jobs: call c has the
\* status s and the job j now.
Kept(c, s, j) ==
  /\ status' \in [Calls -> Statuses]
  /\ job' \in [Calls -> JobStates]
  /\ pending' \in Seq(QuoteCalls) /\ active' \subseteq QuoteCalls
  /\ Callable(pending', active', status')
  /\ \A d \in active' : status'[d] # "ABSENT"
  /\ status'[c] = s /\ job'[c] = j
  /\ \A d \in Calls \ {c} : (status'[d] = status[d] /\ job'[d] = job[d])
                            \/ (Fresh(d) /\ d \in QuoteCalls)

LEMMA SettledKeeps ==
  ASSUME DispatchInv, NEW c \in Calls, status[c] # "ABSENT", NEW s \in Statuses \ {"ABSENT"},
         NEW j \in JobStates, NEW freed \in BOOLEAN,
         NEW N \in SUBSET QuoteCalls, NEW R \in SUBSET QuoteCalls,
         Settled(c, s, [job EXCEPT ![c] = j], freed, N, R)
  PROVE  Kept(c, s, j)
<1>1. status \in [Calls -> Statuses] /\ job \in [Calls -> JobStates] /\ Started
  BY DEF DispatchInv, TypeOK, Statuses, JobStates
<1>2. \A d \in N \cup R : d \in Calls /\ d # c /\ status[d] = "ABSENT" /\ job[d] = "none"
  <2>1. \A d \in In(pending) : status[d] = "ABSENT"
    BY DEF DispatchInv, Callable
  <2> QED
    BY <1>1, <2>1 DEF Settled, Calls, Started, StartedAt
<1>3. /\ status' = [d \in Calls |-> IF d \in N \cup R THEN "QUEUED"
                                    ELSE IF d = c THEN s ELSE status[d]]
      /\ \A d \in Calls : job'[d] = IF d \in N THEN "queued" ELSE IF d = c THEN j ELSE job[d]
      /\ job' \in [Calls -> JobStates]
      /\ Callable(pending', active', status')
      /\ active' \subseteq active \cup N
  <2>1. job' = [d \in Calls |-> IF d \in N THEN "queued" ELSE [job EXCEPT ![c] = j][d]]
    BY DEF Settled
  <2>2. \A d \in Calls : [job EXCEPT ![c] = j][d] = IF d = c THEN j ELSE job[d]
    BY <1>1
  <2>3. \A d \in Calls : job'[d] = IF d \in N THEN "queued" ELSE IF d = c THEN j ELSE job[d]
    BY <2>1, <2>2
  <2>4. job' \in [Calls -> JobStates]
    BY <1>1, <2>1, <2>2 DEF JobStates
  <2> QED
    BY <2>3, <2>4 DEF Settled
<1>4. status' \in [Calls -> Statuses]
  BY <1>1, <1>3 DEF Statuses, Progress
<1>5. \A d \in active' : status'[d] # "ABSENT"
  <2> SUFFICES ASSUME NEW d \in active' PROVE status'[d] # "ABSENT"
    OBVIOUS
  <2>1. d \in Calls
    BY <1>3 DEF Callable, Calls
  <2>2. d \in N \/ status[d] # "ABSENT"
    BY <1>3 DEF DispatchInv
  <2> QED
    BY <1>3, <2>1, <2>2
<1>6. status'[c] = s /\ job'[c] = j
  BY <1>2, <1>3
<1>7. \A d \in Calls \ {c} : (status'[d] = status[d] /\ job'[d] = job[d])
                             \/ (Fresh(d) /\ d \in QuoteCalls)
  BY <1>2, <1>3 DEF Fresh
<1> QED
  BY <1>3, <1>4, <1>5, <1>6, <1>7 DEF Callable, Kept

-----------------------------------------------------------------------------
\* Every step, whatever fails.

\* What the row of call d may become.
Forward(d) ==
  \/ status'[d] = status[d]
  \/ status[d] = "ABSENT" /\ status'[d] = "QUEUED"
  \/ status[d] # "ABSENT" /\ status'[d] # "ABSENT" /\ Allowed(status[d], status'[d])

LEMMA Frame ==
  ASSUME DispatchInv, UNCHANGED <<status, pending, active>>
  PROVE  Callable(pending', active', status') /\ \A c \in active' : status'[c] # "ABSENT"
BY DEF DispatchInv, Callable

LEMMA StartedFrame ==
  ASSUME NEW d \in Calls, StartedAt(d),
         status'[d] = status[d] /\ job'[d] = job[d],
         UNCHANGED <<attempts, known, reports>>
  PROVE  StartedAt(d)'
BY DEF StartedAt

LEMMA StartedFresh ==
  ASSUME NEW d \in Calls, StartedAt(d), Fresh(d), UNCHANGED <<attempts, known, reports>>
  PROVE  StartedAt(d)'
BY LimitsAssumption DEF StartedAt, Fresh

\* A report that the row takes over or not.
LEMMA ReportStep ==
  ASSUME DispatchInv, NEW c \in Calls, NEW k \in Attempts, NEW s \in Progress \cup Terminal,
         Report(c, k, s), agents' \subseteq QuoteCalls \X Attempts
  PROVE  /\ DispatchInv' /\ \A d \in Calls : Forward(d)
         /\ \A d \in CommitCalls : status[d] = "ABSENT" => status'[d] = "ABSENT"
<1>1. TypeOK /\ Started /\ s \in reports[c][k] /\ k \in 1..(MaxRetries + 1)
  BY DEF DispatchInv, Report, Attempts
<1>2. status[c] # "ABSENT"
  BY <1>1 DEF Started, StartedAt
<1>3. sid' \in [Calls -> 0..(MaxRetries + 1)] /\ UNCHANGED <<campaignOpen, scheduled, attempts, known, reports, otherVars>>
  BY <1>1, LimitsAssumption DEF Report, Binds, TypeOK
<1>4. neg' \in [QuoteCalls -> {"PENDING", "CALLING", "NEGOTIATING", "NO_ANSWER", "CONCLUDED"}]
      /\ timers' \subseteq CommitCalls
  <2>1. Told(c, s) \in [QuoteCalls -> {"PENDING", "CALLING", "NEGOTIATING", "NO_ANSWER", "CONCLUDED"}]
    BY <1>1 DEF TypeOK, Told, Target, MovesFrom
  <2>2. WithRetry(c, s) \subseteq CommitCalls
    BY <1>1 DEF TypeOK, WithRetry
  <2> HIDE DEF Told
  <2> QED
    BY <1>1, <2>1, <2>2 DEF Report, Follow, TypeOK
<1>5. CASE UNCHANGED <<status, job, pending, active>>
  <2>1. Started'
    BY <1>1, <1>3, <1>5, StartedFrame DEF Started
  <2>2. TypeOK'
    BY <1>1, <1>3, <1>4, <1>5 DEF TypeOK, otherVars
  <2> QED
    BY <1>5, <2>1, <2>2, Frame DEF DispatchInv, Forward
<1>6. CASE Takes(c, s) /\ Follow(c, s)
  <2>1. PICK N \in SUBSET QuoteCalls, R \in SUBSET QuoteCalls, freed \in BOOLEAN :
          Settled(c, s, job, freed, N, R)
    BY <1>2, <1>6, FollowEffect
  <2>2. job = [job EXCEPT ![c] = job[c]] /\ job[c] \in JobStates /\ s \in Statuses \ {"ABSENT"}
    BY <1>1 DEF TypeOK, JobStates, Statuses, Progress, Terminal
  <2>3. Kept(c, s, job[c])
    <3> DEFINE j == job[c]
    <3>1. j \in JobStates /\ Settled(c, s, [job EXCEPT ![c] = j], freed, N, R)
      BY <2>1, <2>2
    <3> HIDE DEF j
    <3>2. Kept(c, s, j)
      BY <1>2, <2>2, <3>1, SettledKeeps
    <3> QED
      BY <3>2 DEF j
  <2>4. \A d \in Calls : StartedAt(d)'
    <3>1. ASSUME NEW d \in Calls \ {c} PROVE StartedAt(d)'
      BY <1>1, <1>3, <2>3, StartedFrame, StartedFresh DEF Started, Kept
    <3>2. StartedAt(c)'
      BY <1>1, <1>2, <1>3, <2>2, <2>3 DEF Started, StartedAt, Kept
    <3> QED
      BY <3>1, <3>2
  <2>5. TypeOK'
    BY <1>1, <1>3, <1>4, <2>3 DEF TypeOK, Statuses, JobStates, Kept, otherVars
  <2>6. \A d \in Calls : Forward(d)
    BY <1>2, <1>6, <2>2, <2>3 DEF Forward, Takes, Fresh, Kept
  <2>7. \A d \in CommitCalls : status[d] = "ABSENT" => status'[d] = "ABSENT"
    BY <1>2, <2>3, CallsAssumption DEF Calls, Kept
  <2> QED
    BY <2>3, <2>4, <2>5, <2>6, <2>7 DEF DispatchInv, Started, Kept
<1> QED
  BY <1>5, <1>6 DEF Report, Takes

\* A call that is given up: its row is FAILED now, or was left as it was.
LEMMA GivesUpKept ==
  ASSUME DispatchInv, NEW c \in Calls, status[c] # "ABSENT", GivesUp(c)
  PROVE  \E s \in Statuses \ {"ABSENT"} :
           /\ Kept(c, s, "ended")
           /\ s = status[c] \/ (s = "FAILED" /\ ~ Ended(c))
<1>1. PICK N \in SUBSET QuoteCalls, R \in SUBSET QuoteCalls, freed \in BOOLEAN,
           s \in Statuses \ {"ABSENT"} :
        /\ Settled(c, s, [job EXCEPT ![c] = "ended"], freed, N, R)
        /\ (s = status[c] /\ ~ freed) \/ (s = "FAILED" /\ ~ Ended(c) /\ freed)
  BY GivesUpEffect
<1>2. "ended" \in JobStates
  BY DEF JobStates
<1>3. Kept(c, s, "ended")
  BY <1>1, <1>2, SettledKeeps
<1> QED
  BY <1>1, <1>3

LEMMA RequestFailsStep ==
  ASSUME DispatchInv, NEW c \in Calls, RequestFails(c)
  PROVE  /\ DispatchInv' /\ \A d \in Calls : Forward(d)
         /\ \A d \in CommitCalls : status[d] = "ABSENT" => status'[d] = "ABSENT"
<1>1. TypeOK /\ Started
      /\ UNCHANGED <<sid, campaignOpen, scheduled, timers, attempts, known, agents, reports, otherVars>>
  BY DEF DispatchInv, RequestFails
<1>2. status[c] # "ABSENT" /\ job[c] = "requesting" /\ known[c] = 0
  BY <1>1 DEF Started, StartedAt, RequestFails
<1>3. neg' \in [QuoteCalls -> {"PENDING", "CALLING", "NEGOTIATING", "NO_ANSWER", "CONCLUDED"}]
  <2>1. Told(c, "FAILED") \in [QuoteCalls -> {"PENDING", "CALLING", "NEGOTIATING", "NO_ANSWER", "CONCLUDED"}]
    BY <1>1 DEF TypeOK, Told, Target, MovesFrom
  <2> HIDE DEF Told
  <2> QED
    BY <1>1, <2>1 DEF RequestFails, GivesUp, TypeOK
<1>4. CASE /\ attempts[c] <= MaxRetries
           /\ job' = [job EXCEPT ![c] = "queued"]
           /\ UNCHANGED <<status, neg, pending, active>>
  <2>1. TypeOK'
    BY <1>1, <1>3, <1>4 DEF TypeOK, otherVars
  <2>2. Started'
    <3>1. \A d \in Calls \ {c} : job'[d] = job[d] /\ status'[d] = status[d]
      BY <1>1, <1>4 DEF TypeOK
    <3>2. \A d \in Calls \ {c} : StartedAt(d)'
      BY <1>1, <3>1, StartedFrame DEF Started
    <3>3. StartedAt(c)'
      BY <1>1, <1>2, <1>4 DEF Started, StartedAt, TypeOK
    <3> QED
      BY <3>2, <3>3 DEF Started
  <2> QED
    BY <1>4, <2>1, <2>2, Frame DEF DispatchInv, Forward
<1>5. CASE GivesUp(c)
  <2>1. PICK s \in Statuses \ {"ABSENT"} : /\ Kept(c, s, "ended")
                                           /\ s = status[c] \/ (s = "FAILED" /\ ~ Ended(c))
    BY <1>2, <1>5, GivesUpKept
  <2>2. \A d \in Calls : StartedAt(d)'
    <3>1. ASSUME NEW d \in Calls \ {c} PROVE StartedAt(d)'
      BY <1>1, <2>1, StartedFrame, StartedFresh DEF Started, Kept
    <3>2. StartedAt(c)'
      BY <1>1, <1>2, <2>1 DEF Started, StartedAt, Kept
    <3> QED
      BY <3>1, <3>2
  <2>3. TypeOK'
    BY <1>1, <1>3, <2>1 DEF TypeOK, Statuses, JobStates, Kept, otherVars
  <2>4. \A d \in Calls : Forward(d)
    BY <1>2, <2>1 DEF Forward, Fresh, Kept, Allowed, Ended, Terminal
  <2>5. \A d \in CommitCalls : status[d] = "ABSENT" => status'[d] = "ABSENT"
    BY <1>2, <2>1, CallsAssumption DEF Calls, Kept
  <2> QED
    BY <2>1, <2>2, <2>3, <2>4, <2>5 DEF DispatchInv, Started, Kept
<1> QED
  BY <1>4, <1>5 DEF RequestFails

\* A row and its job, stored for one call of the commitment.
LEMMA EnqueueCommitStep ==
  ASSUME DispatchInv, NEW c \in CommitCalls, EnqueueCommit(c),
         UNCHANGED <<sid, neg, campaignOpen, scheduled, pending, active, attempts, known, agents, reports, received>>,
         timers' \subseteq CommitCalls, asked' \subseteq CommitCalls
  PROVE  /\ DispatchInv' /\ \A d \in Calls : Forward(d)
         /\ \A d \in CommitCalls : d # c => status'[d] = status[d]
         /\ status'[c] = "QUEUED"
<1>1. TypeOK /\ Started /\ c \in Calls /\ status[c] = "ABSENT"
  BY DEF DispatchInv, EnqueueCommit, Calls
<1>2. /\ job' \in [Calls -> JobStates] /\ job'[c] \in {"none", "queued"}
      /\ status' = [status EXCEPT ![c] = "QUEUED"]
      /\ \A d \in Calls \ {c} : job'[d] = job[d]
  <2>1. job \in [Calls -> JobStates] /\ job[c] = "none" /\ status \in [Calls -> Statuses]
    BY <1>1 DEF TypeOK, Started, StartedAt, JobStates, Statuses
  <2>2. CASE Enqueue({c}, status, job)
    BY <1>1, <2>1, <2>2 DEF Enqueue, JobStates
  <2>3. CASE Enqueue({}, [status EXCEPT ![c] = "QUEUED"], job)
    BY <1>1, <2>1, <2>3 DEF Enqueue
  <2> QED
    BY <2>2, <2>3 DEF EnqueueCommit
<1>3. \A d \in Calls \ {c} : status'[d] = status[d]
  BY <1>1, <1>2 DEF TypeOK
<1>4. status'[c] = "QUEUED" /\ TypeOK'
  BY <1>1, <1>2 DEF TypeOK, JobStates, Progress
<1>5. \A d \in Calls : StartedAt(d)'
  <2>1. \A d \in Calls \ {c} : StartedAt(d)'
    BY <1>1, <1>2, <1>3, StartedFrame DEF Started
  <2>2. StartedAt(c)'
    BY <1>1, <1>2, <1>4, StartedFresh DEF Started, Fresh
  <2> QED
    BY <2>1, <2>2
<1>6. c \notin QuoteCalls
  BY CallsAssumption
<1>7. Callable(pending', active', status') /\ \A d \in active' : status'[d] # "ABSENT"
  BY <1>1, <1>3, <1>6 DEF DispatchInv, Callable, Calls, In
<1> QED
  BY <1>1, <1>3, <1>4, <1>5, <1>7 DEF DispatchInv, Started, Forward, Calls

\* The calls of the campaign are made in some order, as many as are allowed.
LEMMA FirstCalls ==
  ASSUME DispatchInv, EnqueueQuoteCalls
  PROVE  \E p, N, R : /\ N \in SUBSET QuoteCalls /\ R \in SUBSET QuoteCalls
                      /\ Callable(p, {}, status) /\ In(p) = QuoteCalls
                      /\ Pumped(p, {}, status, job, N, R)
<1>1. PICK p \in SetToSeqs(QuoteCalls) : Pump(p, {}, status, job)
  BY DEF EnqueueQuoteCalls
<1>2. p \in Seq(QuoteCalls) /\ Once(p) /\ In(p) = QuoteCalls
  <2>1. Cardinality(QuoteCalls) \in Nat
    BY CallsAssumption, FS_CardinalityType
  <2>2. /\ p \in [1..Cardinality(QuoteCalls) -> QuoteCalls]
        /\ \A i, j \in 1..Cardinality(QuoteCalls) : i # j => p[i] # p[j]
    BY DEF SetToSeqs
  <2>3. p \in Seq(QuoteCalls) /\ Len(p) = Cardinality(QuoteCalls)
    BY <2>1, <2>2
  <2>4. Once(p)
    BY <2>2, <2>3 DEF Once
  <2>5. First(p, Len(p)) = In(p) /\ Cardinality(First(p, Len(p))) = Len(p)
    <3>1. Len(p) \in 0..Len(p)
      BY <2>1, <2>3
    <3>2. Cardinality(First(p, Len(p))) = Len(p)
      BY <2>3, <2>4, <3>1, Split
    <3> QED
      BY <3>2 DEF In, First
  <2>6. In(p) \subseteq QuoteCalls
    BY <2>3 DEF In
  <2> QED
    BY <2>3, <2>4, <2>5, <2>6, CallsAssumption, FS_Subset
<1>3. IsFiniteSet({}) /\ Cardinality({}) = 0
  BY FS_EmptySet
<1>4. Callable(p, {}, status)
  <2>1. In(p) \subseteq QuoteCalls
    BY <1>2 DEF In
  <2>2. \A c \in QuoteCalls : status[c] = "ABSENT"
    BY DEF EnqueueQuoteCalls
  <2>3. Cardinality({}) <= MaxParallel
    BY <1>3, LimitsAssumption
  <2> QED
    BY <1>2, <1>3, <2>1, <2>2, <2>3 DEF Callable
<1>5. status \in [Calls -> Statuses]
  BY DEF DispatchInv, TypeOK, Statuses
<1>6. PICK N \in SUBSET QuoteCalls, R \in SUBSET QuoteCalls : Pumped(p, {}, status, job, N, R)
  BY <1>1, <1>4, <1>5, PumpEffect
<1> QED
  BY <1>2, <1>4, <1>6

LEMMA FirstCallsStep ==
  ASSUME DispatchInv, EnqueueQuoteCalls
  PROVE  /\ DispatchInv' /\ \A d \in Calls : Forward(d)
         /\ \A d \in CommitCalls : status[d] = "ABSENT" => status'[d] = "ABSENT"
<1>1. TypeOK /\ Started /\ UNCHANGED <<sid, neg, timers, attempts, known, agents, reports, otherVars>>
      /\ scheduled' \in BOOLEAN /\ campaignOpen' \in BOOLEAN
  BY DEF DispatchInv, EnqueueQuoteCalls
<1>2. PICK p, N, R : /\ N \in SUBSET QuoteCalls /\ R \in SUBSET QuoteCalls
                     /\ Callable(p, {}, status)
                     /\ Pumped(p, {}, status, job, N, R)
  BY FirstCalls
<1>3. \A d \in N \cup R : d \in Calls /\ status[d] = "ABSENT" /\ job[d] = "none"
  BY <1>1, <1>2 DEF Callable, Pumped, Calls, Started, StartedAt
<1>4. /\ active' = N /\ Callable(pending', active', status')
      /\ status' = [c \in Calls |-> IF c \in N \cup R THEN "QUEUED" ELSE status[c]]
      /\ job' = [c \in Calls |-> IF c \in N THEN "queued" ELSE job[c]]
  BY <1>2 DEF Pumped
<1>5. \A d \in Calls : (status'[d] = status[d] /\ job'[d] = job[d])
                       \/ (Fresh(d) /\ d \in QuoteCalls)
  BY <1>2, <1>3, <1>4 DEF Fresh
<1>6. \A d \in Calls : StartedAt(d)'
  BY <1>1, <1>5, StartedFrame, StartedFresh DEF Started
<1>7. TypeOK'
  <2>1. status' \in [Calls -> {"ABSENT"} \cup Progress \cup Terminal]
    BY <1>1, <1>4 DEF TypeOK, Progress
  <2>2. job' \in [Calls -> {"none", "queued", "requesting", "ended"}]
    BY <1>1, <1>4 DEF TypeOK
  <2> QED
    BY <1>1, <1>4, <2>1, <2>2 DEF TypeOK, Callable, otherVars
<1>8. \A d \in active' : status'[d] # "ABSENT"
  BY <1>3, <1>4
<1>9. \A d \in CommitCalls : status[d] = "ABSENT" => status'[d] = "ABSENT"
  BY <1>5, CallsAssumption DEF Calls
<1> QED
  BY <1>4, <1>5, <1>6, <1>7, <1>8, <1>9 DEF DispatchInv, Started, Forward, Fresh

LEMMA RestartStep ==
  ASSUME DispatchInv, Restart
  PROVE  DispatchInv' /\ status' = status
<1>1. TypeOK /\ Started
  BY DEF DispatchInv
<1>2. TypeOK'
  <2>1. <<>> \in Seq(QuoteCalls) /\ 0 \in 0..(MaxRetries + 1)
    BY LimitsAssumption
  <2> QED
    BY <1>1, <2>1 DEF TypeOK, Restart, storedVars, otherVars
<1>3. \A d \in Calls : StartedAt(d)'
  BY <1>1 DEF Started, StartedAt, Restart, storedVars
<1>4. Callable(<<>>, {}, status')
  <2>1. IsFiniteSet({}) /\ Cardinality({}) <= MaxParallel
    BY FS_EmptySet, LimitsAssumption
  <2>2. <<>> \in Seq(QuoteCalls) /\ Once(<<>>) /\ In(<<>>) = {}
    BY DEF Once, In
  <2> QED
    BY <2>1, <2>2 DEF Callable
<1> QED
  BY <1>2, <1>3, <1>4 DEF DispatchInv, Started, Restart, storedVars

\* The other steps of the job and the provider leave the rows alone.
LEMMA JobStep ==
  ASSUME DispatchInv, NEW c \in Calls,
         StartJob(c) \/ Answer(c) \/ SaveAgain(c) \/ ProviderAccepts(c)
  PROVE  DispatchInv' /\ status' = status
<1>1. TypeOK /\ Started
      /\ UNCHANGED <<status, pending, active, neg, campaignOpen, scheduled, timers, agents, received, asked>>
  BY DEF DispatchInv, StartJob, Answer, SaveAgain, ProviderAccepts, storedVars, jobVars, otherVars
<1>2. status[c] # "ABSENT"
  BY <1>1 DEF Started, StartedAt, StartJob, Answer, SaveAgain, ProviderAccepts
<1>3. CASE StartJob(c)
  <2>1. attempts[c] <= MaxRetries /\ attempts[c] \in Nat /\ MaxRetries \in Nat
    BY <1>1, <1>3, LimitsAssumption DEF Started, StartedAt, StartJob, TypeOK
  <2>2. attempts[c] + 1 \in Attempts /\ attempts[c] + 1 \in 0..(MaxRetries + 1)
    BY <2>1 DEF Attempts
  <2>3. TypeOK'
    BY <1>1, <1>3, <2>2 DEF TypeOK, StartJob, storedVars
  <2>4. \A d \in Calls : StartedAt(d)'
    BY <1>1, <1>2, <1>3, <2>2 DEF TypeOK, Started, StartedAt, StartJob, storedVars
  <2> QED
    BY <1>1, <2>3, <2>4, Frame DEF DispatchInv, Started
<1>4. CASE Answer(c)
  <2>1. attempts[c] \in Attempts /\ attempts[c] \in 0..(MaxRetries + 1) /\ attempts'[c] = attempts[c]
    BY <1>1, <1>4 DEF Started, StartedAt, Answer, TypeOK
  <2>2. job' \in [Calls -> JobStates] /\ (job'[c] = "queued" => attempts'[c] <= MaxRetries)
        /\ job'[c] # "requesting" /\ \A d \in Calls \ {c} : job'[d] = job[d]
    BY <1>1, <1>4 DEF TypeOK, JobStates, Answer, Save, TryAgain
  <2>3. sid' \in [Calls -> 0..(MaxRetries + 1)]
    BY <1>1, <1>4, <2>1 DEF TypeOK, Answer, Save
  <2>4. TypeOK'
    BY <1>1, <1>4, <2>1, <2>2, <2>3 DEF TypeOK, Answer, JobStates
  <2>5. status[c] = "FAILED" => \E k \in Attempts : "FAILED" \in reports[c][k]
    BY <1>1, <1>4 DEF Started, StartedAt, Answer
  <2>6. \A d \in Calls : StartedAt(d)'
    BY <1>1, <1>2, <1>4, <2>2, <2>5 DEF TypeOK, Started, StartedAt, Answer
  <2> QED
    BY <1>1, <2>4, <2>6, Frame DEF DispatchInv, Started
<1>5. CASE SaveAgain(c)
  <2>1. attempts[c] <= MaxRetries /\ attempts[c] \in Nat /\ MaxRetries \in Nat
    BY <1>1, <1>5, LimitsAssumption DEF Started, StartedAt, SaveAgain, TypeOK
  <2>2. attempts' \in [Calls -> 0..(MaxRetries + 1)] /\ \A d \in Calls \ {c} : attempts'[d] = attempts[d]
    BY <1>1, <1>5, <2>1 DEF TypeOK, SaveAgain
  <2>3. job' \in [Calls -> JobStates] /\ (job'[c] = "queued" => attempts'[c] <= MaxRetries)
        /\ job'[c] # "requesting" /\ \A d \in Calls \ {c} : job'[d] = job[d]
    BY <1>1, <1>5 DEF TypeOK, JobStates, SaveAgain, Save, TryAgain
  <2>4. sid' \in [Calls -> 0..(MaxRetries + 1)]
    BY <1>1, <1>5 DEF TypeOK, SaveAgain, Save
  <2>5. TypeOK'
    BY <1>1, <1>5, <2>2, <2>3, <2>4 DEF TypeOK, SaveAgain, JobStates
  <2>6. status[c] = "FAILED" => \E k \in Attempts : "FAILED" \in reports[c][k]
    BY <1>1, <1>5 DEF Started, StartedAt, SaveAgain
  <2>7. \A d \in Calls : StartedAt(d)'
    BY <1>1, <1>2, <1>5, <2>2, <2>3, <2>6 DEF TypeOK, Started, StartedAt, SaveAgain
  <2> QED
    BY <1>1, <2>5, <2>7, Frame DEF DispatchInv, Started
<1>6. CASE ProviderAccepts(c)
  <2>1. attempts[c] \in Attempts
    BY <1>1, <1>6 DEF Started, StartedAt, ProviderAccepts
  <2>2. /\ reports' \in [Calls -> [Attempts -> SUBSET (Progress \cup Terminal)]]
        /\ \A d \in Calls \ {c} : reports'[d] = reports[d]
        /\ \A k \in Attempts : reports[c][k] \subseteq reports'[c][k]
    BY <1>1, <1>6, <2>1 DEF TypeOK, ProviderAccepts, Progress
  <2>3. TypeOK'
    BY <1>1, <1>6, <2>2 DEF TypeOK, ProviderAccepts, storedVars, jobVars
  <2>4. \A d \in Calls : StartedAt(d)'
    BY <1>1, <1>2, <1>6, <2>2 DEF Started, StartedAt, ProviderAccepts, storedVars, jobVars
  <2> QED
    BY <1>1, <2>3, <2>4, Frame DEF DispatchInv, Started
<1> QED
  BY <1>1, <1>3, <1>4, <1>5, <1>6

\* The provider goes on with one of its calls.
LEMMA ProviderStep ==
  ASSUME DispatchInv, NEW c \in Calls, NEW k \in Attempts,
         ProviderAdvances(c, k) \/ ProviderEnds(c, k)
  PROVE  /\ DispatchInv' /\ status' = status
         /\ UNCHANGED <<storedVars, scheduled, pending, active, timers, jobVars, agents, otherVars>>
         /\ \A d \in Calls, n \in Attempts :
              /\ reports[d][n] \subseteq reports'[d][n]
              /\ reports[d][n] = {} \/ reports[d][n] \cap Terminal # {} => reports'[d][n] = reports[d][n]
<1>1. TypeOK /\ Started /\ Live(c, k)
      /\ UNCHANGED <<storedVars, scheduled, pending, active, timers, jobVars, agents, otherVars>>
  BY DEF DispatchInv, ProviderAdvances, ProviderEnds
<1>2. PICK s \in Progress \cup Terminal : reports' = [reports EXCEPT ![c][k] = @ \cup {s}]
  BY EndingsAssumption DEF ProviderAdvances, ProviderEnds, Progress
<1>3. /\ reports' \in [Calls -> [Attempts -> SUBSET (Progress \cup Terminal)]]
      /\ \A d \in Calls, n \in Attempts :
           /\ reports[d][n] \subseteq reports'[d][n]
           /\ (d # c \/ n # k) => reports'[d][n] = reports[d][n]
  BY <1>1, <1>2 DEF TypeOK
<1>4. status[c] # "ABSENT"
  BY <1>1 DEF Started, StartedAt, Live
<1>5. TypeOK'
  BY <1>1, <1>3 DEF TypeOK, storedVars, jobVars, otherVars
<1>6. \A d \in Calls : StartedAt(d)'
  BY <1>1, <1>3, <1>4 DEF Started, StartedAt, storedVars, jobVars
<1> QED
  BY <1>1, <1>3, <1>5, <1>6, Frame DEF DispatchInv, Started, storedVars, Live

\* The whole of a step, as far as the rows go.
Stepped ==
  /\ DispatchInv'
  /\ \A d \in Calls : Forward(d)

LEMMA BusyRetryStep ==
  ASSUME DispatchInv, NEW c \in CommitCalls, BusyRetryFires(c)
  PROVE  Stepped
<1>1. TypeOK /\ timers' \subseteq CommitCalls /\ asked' \subseteq CommitCalls
      /\ UNCHANGED <<sid, neg, campaignOpen, scheduled, pending, active, attempts, known, agents, reports,
                     received, asked>>
  BY DEF DispatchInv, BusyRetryFires, TypeOK, otherVars
<1>2. CASE \E d \in CommitCalls : EnqueueCommit(d)
  BY <1>1, <1>2, EnqueueCommitStep DEF Stepped
<1>3. CASE UNCHANGED <<status, job>>
  <2>1. TypeOK' /\ Started'
    BY <1>1, <1>3, StartedFrame DEF DispatchInv, TypeOK, Started
  <2> QED
    BY <1>1, <1>3, <2>1, Frame DEF DispatchInv, Stepped, Forward
<1> QED
  BY <1>2, <1>3 DEF BusyRetryFires

LEMMA AgentStep ==
  ASSUME DispatchInv, NEW c \in QuoteCalls, NEW k \in Attempts, AgentActs(c, k)
  PROVE  Stepped
<1>1. UNCHANGED <<status, sid, campaignOpen, scheduled, pending, active, timers, jobVars, agents, reports, otherVars>>
      /\ TypeOK /\ \E n \in {"NEGOTIATING", "CONCLUDED"} : neg' = [neg EXCEPT ![c] = n]
  BY DEF DispatchInv, AgentActs
<1>2. TypeOK' /\ Started'
  BY <1>1, StartedFrame DEF DispatchInv, TypeOK, Started, jobVars, otherVars
<1> QED
  BY <1>1, <1>2, Frame DEF DispatchInv, Stepped, Forward

\* A call for the commitment that the flow makes, or that an operator asks for.
LEMMA CommitCallStep ==
  ASSUME DispatchInv, NEW c \in CommitCalls, EnqueueCommitCall(c) \/ OperatorCalls(c)
  PROVE  Stepped
<1>1. /\ EnqueueCommit(c)
      /\ UNCHANGED <<sid, neg, campaignOpen, scheduled, pending, active, attempts, known, agents, reports, received>>
      /\ timers' \subseteq CommitCalls /\ asked' \subseteq CommitCalls
  BY DEF EnqueueCommitCall, OperatorCalls, otherVars, DispatchInv, TypeOK
<1> QED
  BY <1>1, EnqueueCommitStep DEF Stepped

\* The carrier phones in, or nothing happens.
LEMMA InboundStep ==
  ASSUME DispatchInv, (\E b \in InboundCalls : CarrierPhonesIn(b)) \/ UNCHANGED vars
  PROVE  Stepped
<1>1. UNCHANGED <<status, sid, neg, campaignOpen, scheduled, pending, active, timers, job, attempts, known,
                  agents, reports, asked>>
  BY DEF CarrierPhonesIn, vars, storedVars, jobVars, otherVars
<1>2. received' \subseteq InboundCalls
  BY DEF CarrierPhonesIn, vars, otherVars, DispatchInv, TypeOK
<1>3. TypeOK' /\ Started'
  BY <1>1, <1>2, StartedFrame DEF DispatchInv, TypeOK, Started
<1> QED
  BY <1>1, <1>3, Frame DEF DispatchInv, Stepped, Forward

LEMMA Step ==
  ASSUME DispatchInv, [Next]_vars
  PROVE  Stepped
<1>1. CASE EnqueueQuoteCalls
  BY <1>1, FirstCallsStep DEF Stepped
<1>2. CASE Restart
  BY <1>2, RestartStep DEF Stepped, Forward
<1>3. ASSUME NEW c \in Calls, StartJob(c) \/ Answer(c) \/ SaveAgain(c) \/ ProviderAccepts(c)
      PROVE  Stepped
  BY <1>3, JobStep DEF Stepped, Forward
<1>4. ASSUME NEW c \in Calls, RequestFails(c) PROVE Stepped
  BY <1>4, RequestFailsStep DEF Stepped
<1>5. ASSUME NEW c \in Calls, NEW k \in Attempts, ProviderAdvances(c, k) \/ ProviderEnds(c, k)
      PROVE  Stepped
  BY <1>5, ProviderStep DEF Stepped, Forward
<1>6. ASSUME NEW c \in Calls, NEW k \in Attempts, StreamStarts(c, k) PROVE Stepped
  <2>1. agents' \subseteq QuoteCalls \X Attempts
    BY <1>6 DEF StreamStarts, DispatchInv, TypeOK
  <2>2. Report(c, k, "IN_PROGRESS") /\ "IN_PROGRESS" \in Progress \cup Terminal
    BY <1>6 DEF StreamStarts, Progress
  <2> QED
    BY <2>1, <2>2, ReportStep DEF Stepped
<1>7. ASSUME NEW c \in Calls, NEW k \in Attempts, NEW s \in Progress \cup Terminal, Callback(c, k, s)
      PROVE  Stepped
  <2>1. agents' \subseteq QuoteCalls \X Attempts
    BY <1>7 DEF Callback, DispatchInv, TypeOK
  <2> QED
    BY <1>7, <2>1, ReportStep DEF Stepped, Callback
<1>8. ASSUME NEW c \in CommitCalls, EnqueueCommitCall(c) \/ OperatorCalls(c) PROVE Stepped
  BY <1>8, CommitCallStep
<1>9. ASSUME NEW c \in CommitCalls, BusyRetryFires(c) PROVE Stepped
  BY <1>9, BusyRetryStep
<1>10. ASSUME NEW c \in QuoteCalls, NEW k \in Attempts, AgentActs(c, k) PROVE Stepped
  BY <1>10, AgentStep
<1>11. CASE (\E b \in InboundCalls : CarrierPhonesIn(b)) \/ UNCHANGED vars
  BY <1>11, InboundStep
<1> QED
  BY <1>1, <1>2, <1>3, <1>4, <1>5, <1>6, <1>7, <1>8, <1>9, <1>10, <1>11 DEF Next

LEMMA InitStep ==
  ASSUME Init PROVE DispatchInv
<1>1. TypeOK
  <2>1. <<>> \in Seq(QuoteCalls) /\ 0 \in 0..(MaxRetries + 1)
    BY LimitsAssumption
  <2> QED
    BY <2>1 DEF Init, TypeOK
<1>2. Callable(<<>>, {}, status)
  <2>1. IsFiniteSet({}) /\ Cardinality({}) <= MaxParallel
    BY FS_EmptySet, LimitsAssumption
  <2>2. <<>> \in Seq(QuoteCalls) /\ Once(<<>>) /\ In(<<>>) = {}
    BY DEF Once, In
  <2> QED
    BY <2>1, <2>2 DEF Callable
<1>3. Started
  BY DEF Init, Started, StartedAt
<1> QED
  BY <1>1, <1>2, <1>3 DEF DispatchInv, Init

\* The dispatcher, the rows and the jobs keep their types, whatever fails.
THEOREM DispatchTypeCorrect == Spec => []TypeOK
<1>1. Init => DispatchInv
  BY InitStep
<1>2. DispatchInv /\ [Next]_vars => DispatchInv'
  BY Step DEF Stepped
<1>3. DispatchInv => TypeOK
  BY DEF DispatchInv
<1> QED
  BY <1>1, <1>2, <1>3, PTL DEF Spec

LEMMA Dispatched == Spec => []DispatchInv
<1>1. Init => DispatchInv
  BY InitStep
<1>2. DispatchInv /\ [Next]_vars => DispatchInv'
  BY Step DEF Stepped
<1> QED
  BY <1>1, <1>2, PTL DEF Spec

\* A row only goes forward, whatever fails and however late a report is.
THEOREM RowsOnlyAdvance == Spec => StatusOnlyAdvances
<1>1. DispatchInv /\ [Next]_vars =>
        [\A c \in Calls :
           /\ status[c] \in Terminal => status'[c] = status[c]
           /\ status[c] = "IN_PROGRESS" => status'[c] \notin {"ABSENT", "QUEUED", "RINGING"}
           /\ status[c] = "RINGING" => status'[c] \notin {"ABSENT", "QUEUED"}]_vars
  BY Step DEF Stepped, Forward, Allowed, Terminal
<1> QED
  BY <1>1, Dispatched, PTL DEF Spec, StatusOnlyAdvances

\* A call the provider accepted is only ever FAILED on the provider's word,
\* whatever fails.
THEOREM FailureIsReported == Spec => []FailureReported
<1>1. DispatchInv => FailureReported
  BY DEF DispatchInv, Started, StartedAt, FailureReported
<1> QED
  BY <1>1, Dispatched, PTL

-----------------------------------------------------------------------------
\* The calls of the commitment.
RetryInv == DispatchInv /\ IsFiniteSet(Commits) /\ IsFiniteSet(received) /\ RetriedOnce

LEMMA SameCommits ==
  ASSUME RetryInv, Stepped, \A d \in CommitCalls : status[d] = "ABSENT" => status'[d] = "ABSENT",
         asked' = asked, IsFiniteSet(received')
  PROVE  RetryInv'
<1>1. Commits' = Commits
  BY DEF Commits, Stepped, Forward, Calls
<1>2. \A c \in Commits : status[c] = "BUSY" => status'[c] = "BUSY"
  BY DEF Stepped, Forward, Allowed, Terminal, Commits, Calls
<1> QED
  BY <1>1, <1>2 DEF RetryInv, RetriedOnce, Stepped

\* One more row, of call d.
LEMMA OneMoreRow ==
  ASSUME RetryInv, NEW d \in CommitCalls, EnqueueCommit(d),
         UNCHANGED <<sid, neg, campaignOpen, scheduled, pending, active, attempts, known, agents, reports, received>>,
         timers' \subseteq CommitCalls, asked' \subseteq CommitCalls
  PROVE  /\ DispatchInv' /\ IsFiniteSet(Commits') /\ IsFiniteSet(received')
         /\ Commits' = Commits \cup {d} /\ d \notin Commits
         /\ \A c \in Commits : status'[c] = status[c]
<1>1. /\ DispatchInv' /\ status'[d] = "QUEUED" /\ status[d] = "ABSENT"
      /\ \A c \in CommitCalls : c # d => status'[c] = status[c]
  BY EnqueueCommitStep DEF RetryInv, EnqueueCommit
<1>2. /\ Commits' = Commits \cup {d} /\ d \notin Commits
      /\ \A c \in Commits : status'[c] = status[c]
  BY <1>1 DEF Commits
<1>3. IsFiniteSet(Commits')
  BY <1>2, FS_AddElement DEF RetryInv
<1> QED
  BY <1>1, <1>2, <1>3 DEF RetryInv

\* One more call that the program makes of its own accord: none of those there
\* are is its own, or there is one call in all and its line was busy.
LEMMA OneMoreCommit ==
  ASSUME RetryInv, NEW d \in CommitCalls, EnqueueCommit(d),
         UNCHANGED <<sid, neg, campaignOpen, scheduled, pending, active, attempts, known, agents, reports, otherVars>>,
         timers' \subseteq CommitCalls,
         Commits = {} \/ \E c \in CommitCalls : Commits = {c} /\ status[c] = "BUSY"
  PROVE  RetryInv'
<1> DEFINE own == Commits \ asked
<1>1. UNCHANGED <<received, asked>> /\ asked' \subseteq CommitCalls
  BY DEF otherVars, RetryInv, DispatchInv, TypeOK
<1>2. /\ DispatchInv' /\ IsFiniteSet(Commits') /\ IsFiniteSet(received')
      /\ Commits' = Commits \cup {d} /\ \A c \in Commits : status'[c] = status[c]
  BY <1>1, OneMoreRow
<1>3. ASSUME own' \subseteq {d} PROVE RetryInv'
  <2>1. Cardinality({d}) = 1 /\ IsFiniteSet({d})
    BY FS_Singleton
  <2>2. Cardinality(own') <= 1 /\ Cardinality(own') \in Nat
    BY <1>3, <2>1, FS_Subset, FS_CardinalityType
  <2> QED
    BY <1>2, <2>2 DEF RetryInv, RetriedOnce
<1>4. CASE Commits = {}
  BY <1>2, <1>3, <1>4
<1>5. ASSUME NEW c \in CommitCalls, Commits = {c}, status[c] = "BUSY" PROVE RetryInv'
  <2>1. own' \subseteq {c, d} /\ status'[c] = "BUSY"
    BY <1>2, <1>5
  <2>2. CASE c \in own'
    <3>1. /\ Cardinality({c}) = 1 /\ IsFiniteSet({c}) /\ {c} \cup {d} = {c, d}
      BY FS_Singleton
    <3>2. IsFiniteSet({c, d}) /\ Cardinality({c, d}) <= 2
      <4>1. CASE c = d
        BY <3>1, <4>1
      <4>2. CASE c # d
        BY <3>1, <4>2, FS_AddElement
      <4> QED
        BY <4>1, <4>2
    <3>3. Cardinality(own') <= 2
      BY <2>1, <3>2, FS_Subset, FS_CardinalityType
    <3> QED
      BY <1>2, <2>1, <2>2, <3>3 DEF RetryInv, RetriedOnce
  <2>3. CASE c \notin own'
    BY <1>3, <2>1, <2>3
  <2> QED
    BY <2>2, <2>3
<1> QED
  BY <1>4, <1>5

\* The program calls to close of its own accord a second time only after the
\* first was busy, and never a third, whatever fails, whatever an operator asks
\* for and however often the winner phones in.
THEOREM RetryHappensOnce == Spec => []RetriedOnce
<1>1. Init => RetryInv
  <2>1. Init => Commits = {} /\ received = {}
    BY DEF Init, Commits, Calls
  <2>2. {} \ asked = {} /\ Cardinality({}) = 0 /\ IsFiniteSet({})
    BY FS_EmptySet
  <2> QED
    BY <2>1, <2>2, InitStep DEF RetryInv, RetriedOnce
<1>2. RetryInv /\ [Next]_vars => RetryInv'
  <2> SUFFICES ASSUME RetryInv, [Next]_vars PROVE RetryInv'
    OBVIOUS
  <2>1. Stepped /\ DispatchInv
    BY Step DEF RetryInv
  <2>2. ASSUME UNCHANGED otherVars,
               \A d \in CommitCalls : status[d] = "ABSENT" => status'[d] = "ABSENT"
        PROVE  RetryInv'
    BY <2>1, <2>2, SameCommits DEF otherVars, RetryInv
  <2>3. ASSUME NEW c \in CommitCalls, EnqueueCommitCall(c) PROVE RetryInv'
    <3>1. timers' \subseteq CommitCalls /\ Commits = {}
      BY <2>1, <2>3 DEF EnqueueCommitCall, DispatchInv, TypeOK, CommitRows
    <3> QED
      BY <2>3, <3>1, OneMoreCommit DEF EnqueueCommitCall
  <2>4. ASSUME NEW c \in CommitCalls, OperatorCalls(c) PROVE RetryInv'
    <3>1. timers' \subseteq CommitCalls /\ asked' = asked \cup {c} /\ asked' \subseteq CommitCalls
      BY <2>1, <2>4 DEF OperatorCalls, DispatchInv, TypeOK
    <3>2. /\ DispatchInv' /\ IsFiniteSet(Commits') /\ IsFiniteSet(received')
          /\ Commits' = Commits \cup {c} /\ c \notin Commits
          /\ \A d \in Commits : status'[d] = status[d]
      BY <2>4, <3>1, OneMoreRow DEF OperatorCalls
    <3>3. (Commits \ asked)' = Commits \ asked
      BY <3>1, <3>2
    <3> QED
      BY <3>2, <3>3 DEF RetryInv, RetriedOnce
  <2>5. ASSUME NEW c \in CommitCalls, BusyRetryFires(c) PROVE RetryInv'
    <3>1. timers' \subseteq CommitCalls
          /\ UNCHANGED <<sid, neg, campaignOpen, scheduled, pending, active, attempts, known, agents, reports, otherVars>>
      BY <2>1, <2>5 DEF BusyRetryFires, DispatchInv, TypeOK
    <3>2. CASE /\ status[c] = "BUSY" /\ Cardinality(CommitRows) = 1
               /\ \E d \in CommitCalls : EnqueueCommit(d)
      <4>1. c \in Commits
        BY <3>2 DEF Commits
      <4>2. IsFiniteSet(CommitRows)
        BY FS_Union DEF RetryInv, CommitRows
      <4>3. PICK m : CommitRows = {m}
        BY <3>2, <4>2, FS_Singleton
      <4>4. Commits = {c}
        BY <4>1, <4>3 DEF CommitRows
      <4> QED
        BY <3>1, <3>2, <4>4, OneMoreCommit
    <3>3. CASE UNCHANGED <<status, job>>
      BY <2>2, <3>1, <3>3
    <3> QED
      BY <2>5, <3>2, <3>3 DEF BusyRetryFires
  <2>6. CASE EnqueueQuoteCalls
    BY <2>1, <2>2, <2>6, FirstCallsStep DEF EnqueueQuoteCalls
  <2>7. CASE Restart \/ UNCHANGED vars
    BY <2>1, <2>2, <2>7, RestartStep DEF Restart, vars, storedVars
  <2>8. ASSUME NEW c \in Calls, StartJob(c) \/ Answer(c) \/ SaveAgain(c) \/ ProviderAccepts(c)
        PROVE  RetryInv'
    BY <2>1, <2>2, <2>8, JobStep DEF StartJob, Answer, SaveAgain, ProviderAccepts
  <2>9. ASSUME NEW c \in Calls, RequestFails(c) PROVE RetryInv'
    BY <2>1, <2>2, <2>9, RequestFailsStep DEF RequestFails
  <2>10. ASSUME NEW c \in Calls, NEW k \in Attempts, ProviderAdvances(c, k) \/ ProviderEnds(c, k)
         PROVE  RetryInv'
    BY <2>1, <2>2, <2>10, ProviderStep
  <2>11. ASSUME NEW c \in Calls, NEW k \in Attempts, NEW s \in Progress \cup Terminal, Report(c, k, s)
         PROVE  RetryInv'
    <3>1. \A d \in CommitCalls : status[d] = "ABSENT" => status'[d] = "ABSENT"
      <4>1. (UNCHANGED status) \/ (Follow(c, s) /\ Takes(c, s))
        BY <2>11 DEF Report, Takes
      <4>2. status[c] # "ABSENT"
        BY <2>1, <2>11 DEF DispatchInv, Started, StartedAt, Report
      <4>3. ASSUME Follow(c, s)
            PROVE  \A d \in CommitCalls : status[d] = "ABSENT" => status'[d] = "ABSENT"
        <5>1. PICK N \in SUBSET QuoteCalls, R \in SUBSET QuoteCalls, freed \in BOOLEAN :
                Settled(c, s, job, freed, N, R)
          BY <2>1, <4>2, <4>3, FollowEffect
        <5> QED
          BY <4>2, <5>1, CallsAssumption DEF Settled, Calls
      <4> QED
        BY <4>1, <4>3
    <3> QED
      BY <2>2, <2>11, <3>1 DEF Report
  <2>12. ASSUME NEW c \in QuoteCalls, NEW k \in Attempts, AgentActs(c, k) PROVE RetryInv'
    BY <2>2, <2>12 DEF AgentActs
  <2>13. ASSUME NEW b \in InboundCalls, CarrierPhonesIn(b) PROVE RetryInv'
    <3>1. IsFiniteSet(received') /\ UNCHANGED <<asked, status>>
      BY <2>13, FS_AddElement DEF CarrierPhonesIn, RetryInv, storedVars
    <3> QED
      BY <2>1, <3>1, SameCommits
  <2>14. "IN_PROGRESS" \in Progress \cup Terminal
    BY DEF Progress
  <2> QED
    BY <2>3, <2>4, <2>5, <2>6, <2>7, <2>8, <2>9, <2>10, <2>11, <2>12, <2>13, <2>14
       DEF Next, StreamStarts, Callback
<1>3. RetryInv => RetriedOnce
  BY DEF RetryInv
<1> QED
  BY <1>1, <1>2, <1>3, PTL DEF Spec

-----------------------------------------------------------------------------
\* The negotiations, as long as statements do not fail: the campaign stays open.
OpenInv == DispatchInv /\ campaignOpen

\* What the campaign is told of call c leaves the negotiation of a call that was
\* not answered, or failed, over.
LEMMA ToldOver ==
  ASSUME OpenInv, NEW c \in QuoteCalls, NEW s \in Unanswered
  PROVE  Told(c, s)[c] \in {"NO_ANSWER", "CONCLUDED"}
<1>1. neg[c] \in {"PENDING", "CALLING", "NEGOTIATING", "NO_ANSWER", "CONCLUDED"}
  BY DEF OpenInv, DispatchInv, TypeOK
<1>2. Target(s) = "NO_ANSWER"
  BY DEF Target, Unanswered
<1>3. MovesFrom("NO_ANSWER") = {"PENDING", "CALLING", "NEGOTIATING"}
  BY DEF MovesFrom
<1> QED
  BY <1>1, <1>2, <1>3 DEF OpenInv, Told

\* When a call ends without having reached anybody its negotiation is over, as
\* long as statements do not fail.
THEOREM NegotiationsAreTold ==
  ASSUME "storage" \notin Faults
  PROVE  Spec => NegotiationTold
<1> DEFINE ToldStep == \A c \in QuoteCalls :
                         ~ Ended(c) /\ status'[c] \in Unanswered => neg'[c] \in {"NO_ANSWER", "CONCLUDED"}
<1>1. Init => OpenInv
  BY InitStep DEF OpenInv, Init
<1>2. ASSUME OpenInv, [Next]_vars PROVE OpenInv' /\ ToldStep
  <2>1. Stepped /\ DispatchInv /\ TypeOK
    BY <1>2, Step DEF OpenInv, DispatchInv
  <2>2. OpenInv'
    BY ZenonT(60), <1>2, <2>1 DEF OpenInv, Stepped, Next, vars, EnqueueQuoteCalls, Restart, StartJob, Answer,
       SaveAgain, RequestFails, ProviderAccepts, ProviderAdvances, ProviderEnds, StreamStarts,
       Callback, Report, EnqueueCommitCall, OperatorCalls, CarrierPhonesIn, BusyRetryFires, AgentActs, storedVars
  <2>3. ASSUME NEW c \in Calls, NEW s \in Statuses, NEW jb, NEW freed,
               NEW N \in SUBSET QuoteCalls, NEW R \in SUBSET QuoteCalls,
               Settled(c, s, jb, freed, N, R), s = status[c] \/ neg' = Told(c, s)
        PROVE  ToldStep
    <3> SUFFICES ASSUME NEW d \in QuoteCalls, ~ Ended(d), status'[d] \in Unanswered
                 PROVE  neg'[d] \in {"NO_ANSWER", "CONCLUDED"}
      OBVIOUS
    <3>1. status'[d] \notin {"QUEUED"} /\ status'[d] # status[d] /\ d \in Calls
      BY DEF Unanswered, Ended, Terminal, Calls
    <3>2. d = c /\ status'[d] = s /\ s # status[c]
      BY <2>3, <3>1 DEF Settled
    <3>3. Told(d, s)[d] \in {"NO_ANSWER", "CONCLUDED"}
      BY <1>2, <3>2, ToldOver
    <3> QED
      BY <2>3, <3>2, <3>3
  <2>4. ASSUME NEW c \in Calls, NEW k \in Attempts, NEW s \in Progress \cup Terminal, Report(c, k, s)
        PROVE  ToldStep
    <3>1. status[c] # "ABSENT"
      BY <2>1, <2>4 DEF DispatchInv, Started, StartedAt, Report
    <3>2. CASE Follow(c, s)
      <4>1. PICK N \in SUBSET QuoteCalls, R \in SUBSET QuoteCalls, freed \in BOOLEAN :
              Settled(c, s, job, freed, N, R)
        BY <2>1, <3>1, <3>2, FollowEffect
      <4>2. neg' = Told(c, s) /\ s \in Statuses
        BY <3>2 DEF Follow, Statuses
      <4> QED
        BY <2>3, <4>1, <4>2
    <3>3. CASE UNCHANGED status
      BY <3>3 DEF Ended, Unanswered, Terminal
    <3> QED
      BY <2>4, <3>2, <3>3 DEF Report
  <2>5. ASSUME NEW c \in Calls, RequestFails(c) PROVE ToldStep
    <3>1. status[c] # "ABSENT"
      BY <2>1, <2>5 DEF DispatchInv, Started, StartedAt, RequestFails
    <3>2. CASE GivesUp(c)
      <4>1. PICK N \in SUBSET QuoteCalls, R \in SUBSET QuoteCalls, freed \in BOOLEAN,
                 s \in Statuses \ {"ABSENT"} :
              /\ Settled(c, s, [job EXCEPT ![c] = "ended"], freed, N, R)
              /\ (s = status[c] /\ ~ freed) \/ (s = "FAILED" /\ ~ Ended(c) /\ freed)
        BY <2>1, <3>1, <3>2, GivesUpEffect
      <4>2. ~ Ended(c) => neg' = Told(c, "FAILED")
        BY <3>2 DEF GivesUp
      <4> QED
        BY <2>3, <4>1, <4>2
    <3>3. CASE UNCHANGED status
      BY <3>3 DEF Ended, Unanswered, Terminal
    <3> QED
      BY <2>5, <3>2, <3>3 DEF RequestFails
  <2>6. ASSUME \A d \in QuoteCalls : status'[d] = status[d] \/ status'[d] = "QUEUED"
        PROVE  ToldStep
    BY <2>6 DEF Ended, Unanswered, Terminal
  <2>7. ASSUME EnqueueQuoteCalls PROVE ToldStep
    BY <2>1, <2>6, <2>7, FirstCalls DEF Pumped, Calls
  <2>8. ASSUME Restart \/ (\E b \in InboundCalls : CarrierPhonesIn(b)) \/ UNCHANGED vars PROVE ToldStep
    BY <2>6, <2>8 DEF Restart, CarrierPhonesIn, vars, storedVars
  <2>9. ASSUME NEW c \in Calls, NEW k \in Attempts,
               \/ StartJob(c) \/ Answer(c) \/ SaveAgain(c) \/ ProviderAccepts(c)
               \/ ProviderAdvances(c, k) \/ ProviderEnds(c, k)
        PROVE  ToldStep
    BY <2>1, <2>6, <2>9, JobStep, ProviderStep
  <2>10. ASSUME NEW c \in CommitCalls, EnqueueCommitCall(c) \/ OperatorCalls(c) \/ BusyRetryFires(c)
        PROVE  ToldStep
    <3>1. ASSUME NEW d \in CommitCalls, EnqueueCommit(d)
          PROVE  \A q \in QuoteCalls : status'[q] = status[q]
      BY <2>1, <3>1, CallsAssumption DEF EnqueueCommit, Enqueue, TypeOK, Calls
    <3> QED
      BY <2>6, <2>10, <3>1 DEF EnqueueCommitCall, OperatorCalls, BusyRetryFires
  <2>11. ASSUME NEW c \in QuoteCalls, NEW k \in Attempts, AgentActs(c, k) PROVE ToldStep
    BY <2>6, <2>11 DEF AgentActs
  <2>12. "IN_PROGRESS" \in Progress \cup Terminal /\ Attempts # {}
    BY LimitsAssumption DEF Progress, Attempts
  <2> HIDE DEF ToldStep
  <2> QED
    BY <1>2, <2>2, <2>4, <2>5, <2>7, <2>8, <2>9, <2>10, <2>11, <2>12 DEF Next, StreamStarts, Callback
<1>3. OpenInv /\ [Next]_vars => [ToldStep]_vars
  BY <1>2
<1>4. OpenInv /\ [Next]_vars => OpenInv'
  BY <1>2
<1> QED
  BY <1>1, <1>3, <1>4, PTL DEF Spec, NegotiationTold

-----------------------------------------------------------------------------
\* The slots, as long as statements do not fail and the process runs.
SlotInv == DispatchInv /\ SlotsFollowCalls

LEMMA SettledSlots ==
  ASSUME SlotInv, "storage" \notin Faults, DispatchInv',
         NEW c \in Calls, NEW s \in Statuses \ {"ABSENT"}, NEW jb, NEW freed \in BOOLEAN,
         NEW N \in SUBSET QuoteCalls, NEW R \in SUBSET QuoteCalls,
         Settled(c, s, jb, freed, N, R), status[c] # "ABSENT",
         freed => s \in Terminal, s \in Terminal => freed \/ s = status[c],
         status[c] \in Terminal => s = status[c]
  PROVE  SlotInv'
<1>1. R = {} /\ status \in [Calls -> Statuses] /\ Progress \cap Terminal = {}
  BY DEF Settled, SlotInv, DispatchInv, TypeOK, Statuses, Progress, Terminal
<1>2. \A d \in N : d \in QuoteCalls /\ status[d] = "ABSENT" /\ d # c
  BY DEF Settled, SlotInv, DispatchInv, Callable
<1>3. \A d \in Calls : status'[d] = IF d \in N THEN "QUEUED" ELSE IF d = c THEN s ELSE status[d]
  BY <1>1 DEF Settled
<1>4. active = {d \in QuoteCalls : status[d] \in Progress}
  BY DEF SlotInv, SlotsFollowCalls
<1>5. active' = (active \ (IF freed THEN {c} ELSE {})) \cup N
  BY DEF Settled
<1>6. \A d \in QuoteCalls : d \in active' <=> status'[d] \in Progress
  <2> SUFFICES ASSUME NEW d \in QuoteCalls PROVE d \in active' <=> status'[d] \in Progress
    OBVIOUS
  <2>1. d \in Calls
    BY DEF Calls
  <2>2. CASE d \in N
    BY <1>3, <1>5, <2>1, <2>2 DEF Progress
  <2>3. CASE d # c /\ d \notin N
    BY <1>3, <1>4, <1>5, <2>1, <2>3
  <2>4. CASE d = c
    <3>1. status'[d] = s /\ d \notin N /\ (s \in Terminal <=> s \notin Progress)
      BY <1>1, <1>2, <1>3, <2>1, <2>4 DEF Statuses
    <3>2. CASE s \in Terminal
      BY <1>1, <1>4, <1>5, <2>4, <3>1, <3>2
    <3>3. CASE s \in Progress
      <4>1. status[c] \notin Terminal => status[c] \in Progress
        BY <1>1 DEF Statuses
      <4>2. status[c] \notin Terminal
        BY <1>1, <3>3
      <4> QED
        BY <1>1, <1>4, <1>5, <2>4, <3>1, <3>3, <4>1, <4>2
    <3> QED
      BY <3>1, <3>2, <3>3
  <2> QED
    BY <2>2, <2>3, <2>4
<1>7. active' \subseteq QuoteCalls
  BY DEF DispatchInv, TypeOK
<1>8. pending' # <<>> => Cardinality(active') = MaxParallel
  BY DEF Settled, SlotInv, SlotsFollowCalls
<1> QED
  BY <1>6, <1>7, <1>8 DEF SlotInv, SlotsFollowCalls

\* Rows of the campaign, list and slots are as they were.
LEMMA SameSlots ==
  ASSUME SlotInv, DispatchInv', UNCHANGED <<pending, active>>,
         \A d \in QuoteCalls : status'[d] = status[d]
  PROVE  SlotInv'
BY DEF SlotInv, SlotsFollowCalls

\* The slots of a campaign are those of its calls that have not ended, and no
\* negotiation waits while one is free.
THEOREM SlotsAreKept ==
  ASSUME "storage" \notin Faults, "restart" \notin Faults
  PROVE  Spec => []SlotsFollowCalls
<1>1. Init => SlotInv
  <2>1. Init => DispatchInv
    BY InitStep
  <2>2. Init => active = {} /\ pending = <<>> /\ \A d \in QuoteCalls : status[d] = "ABSENT"
    BY DEF Init, Calls
  <2> QED
    BY <2>1, <2>2 DEF SlotInv, SlotsFollowCalls, Progress
<1>2. SlotInv /\ [Next]_vars => SlotInv'
  <2> SUFFICES ASSUME SlotInv, [Next]_vars PROVE SlotInv'
    OBVIOUS
  <2>1. DispatchInv' /\ DispatchInv
    BY Step DEF SlotInv, Stepped
  <2>2. ASSUME NEW c \in Calls, NEW k \in Attempts, NEW s \in Progress \cup Terminal, Report(c, k, s)
        PROVE  SlotInv'
    <3>1. status[c] # "ABSENT"
      BY <2>1, <2>2 DEF DispatchInv, Started, StartedAt, Report
    <3>2. CASE Follow(c, s) /\ Takes(c, s)
      <4>1. PICK N \in SUBSET QuoteCalls, R \in SUBSET QuoteCalls, freed \in BOOLEAN :
              /\ Settled(c, s, job, freed, N, R)
              /\ freed => s \in Terminal
              /\ "storage" \notin Faults /\ s \in Terminal => freed
        BY <2>1, <3>1, <3>2, FollowEffect
      <4>2. s \in Statuses \ {"ABSENT"} /\ (status[c] \in Terminal => s = status[c])
        BY <3>2 DEF Takes, Allowed, Statuses, Progress, Terminal
      <4> QED
        BY <2>1, <3>1, <4>1, <4>2, SettledSlots
    <3>3. CASE UNCHANGED <<status, pending, active>>
      BY <2>1, <3>3, SameSlots
    <3> QED
      BY <2>2, <3>2, <3>3 DEF Report, Takes
  <2>3. ASSUME NEW c \in Calls, RequestFails(c) PROVE SlotInv'
    <3>1. status[c] # "ABSENT"
      BY <2>1, <2>3 DEF DispatchInv, Started, StartedAt, RequestFails
    <3>2. CASE GivesUp(c)
      <4>1. PICK N \in SUBSET QuoteCalls, R \in SUBSET QuoteCalls, freed \in BOOLEAN,
                 s \in Statuses \ {"ABSENT"} :
              /\ Settled(c, s, [job EXCEPT ![c] = "ended"], freed, N, R)
              /\ (s = status[c] /\ ~ freed) \/ (s = "FAILED" /\ ~ Ended(c) /\ freed)
        BY <2>1, <3>1, <3>2, GivesUpEffect
      <4>2. /\ freed => s \in Terminal
            /\ s \in Terminal => freed \/ s = status[c]
            /\ status[c] \in Terminal => s = status[c]
        BY <4>1 DEF Ended, Terminal
      <4> DEFINE jb == [job EXCEPT ![c] = "ended"]
      <4>3. Settled(c, s, jb, freed, N, R)
        BY <4>1
      <4> HIDE DEF jb
      <4> QED
        BY <2>1, <3>1, <4>2, <4>3, SettledSlots
    <3>3. CASE UNCHANGED <<status, pending, active>>
      BY <2>1, <3>3, SameSlots
    <3> QED
      BY <2>3, <3>2, <3>3 DEF RequestFails
  <2>4. CASE EnqueueQuoteCalls
    <3>1. PICK p, N, R : /\ N \in SUBSET QuoteCalls /\ R \in SUBSET QuoteCalls
                         /\ Pumped(p, {}, status, job, N, R)
      BY <2>1, <2>4, FirstCalls
    <3>2. R = {} /\ active' = N /\ (pending' # <<>> => Cardinality(active') = MaxParallel)
          /\ \A d \in Calls : status'[d] = IF d \in N THEN "QUEUED" ELSE status[d]
      BY <3>1 DEF Pumped
    <3>3. \A d \in QuoteCalls : status[d] = "ABSENT" /\ d \in Calls
      BY <2>4 DEF EnqueueQuoteCalls, Calls
    <3>4. active' = {d \in QuoteCalls : status'[d] \in Progress}
      BY <3>1, <3>2, <3>3 DEF Progress
    <3> QED
      BY <2>1, <3>2, <3>4 DEF SlotInv, SlotsFollowCalls
  <2>5. ASSUME NEW c \in Calls, StartJob(c) \/ Answer(c) \/ SaveAgain(c) \/ ProviderAccepts(c)
        PROVE  SlotInv'
    BY <2>1, <2>5, SameSlots DEF StartJob, Answer, SaveAgain, ProviderAccepts, storedVars
  <2>6. ASSUME NEW c \in Calls, NEW k \in Attempts, ProviderAdvances(c, k) \/ ProviderEnds(c, k)
        PROVE  SlotInv'
    BY <2>1, <2>6, SameSlots DEF ProviderAdvances, ProviderEnds, storedVars
  <2>7. ASSUME NEW c \in CommitCalls, EnqueueCommitCall(c) \/ OperatorCalls(c) \/ BusyRetryFires(c)
        PROVE  SlotInv'
    <3>1. ASSUME NEW d \in CommitCalls, EnqueueCommit(d)
          PROVE  \A q \in QuoteCalls : status'[q] = status[q]
      BY <2>1, <3>1, CallsAssumption DEF EnqueueCommit, Enqueue, DispatchInv, TypeOK, Calls
    <3> QED
      BY <2>1, <2>7, <3>1, SameSlots DEF EnqueueCommitCall, OperatorCalls, BusyRetryFires
  <2>8. ASSUME NEW c \in QuoteCalls, NEW k \in Attempts, AgentActs(c, k) PROVE SlotInv'
    BY <2>1, <2>8, SameSlots DEF AgentActs
  <2>9. CASE (\E b \in InboundCalls : CarrierPhonesIn(b)) \/ UNCHANGED vars
    BY <2>1, <2>9, SameSlots DEF CarrierPhonesIn, vars, storedVars
  <2>10. "IN_PROGRESS" \in Progress \cup Terminal /\ ~ Restart
    BY DEF Progress, Restart
  <2> QED
    BY <2>2, <2>3, <2>4, <2>5, <2>6, <2>7, <2>8, <2>9, <2>10 DEF Next, StreamStarts, Callback
<1>3. SlotInv => SlotsFollowCalls
  BY DEF SlotInv
<1> QED
  BY <1>1, <1>2, <1>3, PTL DEF Spec

-----------------------------------------------------------------------------
\* The provider's calls, as long as no answer of the provider is lost.
Unplaced(c) == \A k \in Attempts : reports[c][k] = {}
Waiting(c) == job[c] \in {"queued", "requesting"} /\ Unplaced(c)
LiveCalls  == {c \in QuoteCalls : \E k \in Attempts : Live(c, k)}

\* A call is placed once, and whoever may place it knows of it.
Single(c) ==
  \A k \in Attempts : reports[c][k] # {} =>
    /\ \A n \in Attempts : reports[c][n] # {} => n = k
    /\ \/ known[c] # 0
       \/ job[c] \notin {"queued", "requesting"}
       \/ job[c] = "requesting" /\ attempts[c] = k

\* Phones that ring or may yet be rung belong to calls that are active, until the
\* process is restarted; then nothing rings any more.
PlaceInv ==
  /\ DispatchInv
  /\ \A c \in Calls : Single(c)
  /\ IF scheduled
     THEN \A c \in QuoteCalls : c \in LiveCalls \/ Waiting(c) => c \in active
     ELSE /\ active = {} /\ pending = <<>>
          /\ \A c \in QuoteCalls : job[c] \notin {"queued", "requesting"}
  /\ IsFiniteSet(LiveCalls) /\ Cardinality(LiveCalls) <= MaxParallel

\* The limit holds while it holds of the active calls, or of the calls before.
LEMMA LimitKept ==
  ASSUME PlaceInv, DispatchInv',
         (scheduled' /\ LiveCalls' \subseteq active') \/ LiveCalls' \subseteq LiveCalls
  PROVE  IsFiniteSet(LiveCalls') /\ Cardinality(LiveCalls') <= MaxParallel
<1>1. MaxParallel \in Nat
  BY LimitsAssumption
<1>2. ASSUME NEW S, IsFiniteSet(S), Cardinality(S) <= MaxParallel, LiveCalls' \subseteq S
      PROVE  IsFiniteSet(LiveCalls') /\ Cardinality(LiveCalls') <= MaxParallel
  <2>1. IsFiniteSet(LiveCalls') /\ Cardinality(LiveCalls') <= Cardinality(S)
    BY <1>2, FS_Subset
  <2>2. Cardinality(S) \in Nat /\ Cardinality(LiveCalls') \in Nat
    BY <1>2, <2>1, FS_CardinalityType
  <2> QED
    BY <1>1, <1>2, <2>1, <2>2
<1>3. IsFiniteSet(active') /\ Cardinality(active') <= MaxParallel
  BY DEF DispatchInv, Callable
<1>4. IsFiniteSet(LiveCalls) /\ Cardinality(LiveCalls) <= MaxParallel
  BY DEF PlaceInv
<1> HIDE DEF LiveCalls
<1> QED
  BY <1>2, <1>3, <1>4

\* A step of the dispatcher that asks the provider for nothing: if it frees the
\* slot of call c, the phone of c does not ring and will not.
LEMMA SettledPlace ==
  ASSUME PlaceInv, DispatchInv', NEW c \in Calls, status[c] # "ABSENT",
         NEW s \in Statuses \ {"ABSENT"}, NEW j \in JobStates, NEW freed \in BOOLEAN,
         NEW N \in SUBSET QuoteCalls, NEW R \in SUBSET QuoteCalls,
         Settled(c, s, [job EXCEPT ![c] = j], freed, N, R),
         j \in {"queued", "requesting"} => j = job[c],
         freed => c \notin LiveCalls,
         freed /\ j \in {"queued", "requesting"} => ~ Unplaced(c),
         UNCHANGED <<scheduled, attempts, known, reports>>
  PROVE  PlaceInv'
<1>1. Kept(c, s, j) /\ DispatchInv /\ Started
  BY SettledKeeps DEF PlaceInv, DispatchInv
<1>2. \A d \in Calls : (job'[d] = job[d] \/ job'[d] \notin {"queued", "requesting"} \/ Fresh(d))
                       /\ (Fresh(d) => Unplaced(d))
  BY <1>1 DEF Kept, Fresh, Started, StartedAt, Unplaced
<1>3. \A d \in Calls : Single(d)'
  BY <1>2 DEF PlaceInv, Single, Unplaced
<1>4. LiveCalls' = LiveCalls
  BY DEF LiveCalls, Live
<1>5. CASE scheduled
  <2> SUFFICES ASSUME NEW d \in QuoteCalls, d \in LiveCalls' \/ Waiting(d)' PROVE d \in active'
    BY <1>3, <1>4, <1>5, LimitKept DEF PlaceInv
  <2>1. d \in Calls /\ Unplaced(d)' = Unplaced(d)
    BY DEF Calls, Unplaced
  <2>2. CASE d \in N
    BY <2>2 DEF Settled
  <2>3. CASE d \notin N
    <3>1. job'[d] = [job EXCEPT ![c] = j][d]
      BY <2>1, <2>3 DEF Settled
    <3>2. job'[d] = IF d = c THEN j ELSE job[d]
      BY <1>1, <2>1, <3>1 DEF DispatchInv, TypeOK
    <3>3. d \in LiveCalls \/ Waiting(d)
      BY <1>4, <2>1, <3>2 DEF Waiting
    <3>4. d \in active
      BY <1>5, <3>3 DEF PlaceInv
    <3>5. ~ (freed /\ d = c)
      BY <1>4, <2>1, <3>2 DEF Waiting
    <3> QED
      BY <3>4, <3>5 DEF Settled
  <2> QED
    BY <2>2, <2>3
<1>6. CASE ~ scheduled
  <2>1. pending = <<>> /\ active = {} /\ In(<<>>) = {}
    BY <1>6 DEF PlaceInv, In
  <2>2. N = {} /\ R = {} /\ active' = {} /\ In(pending') = {}
    BY <2>1 DEF Settled
  <2>3. pending' = <<>>
    <3>1. pending' \in Seq(QuoteCalls)
      BY <1>1 DEF Kept
    <3>2. Len(pending') = 0
      <4>1. Len(pending') \in Nat
        BY <3>1
      <4>2. Len(pending') # 0 => pending'[1] \in In(pending')
        BY <4>1 DEF In
      <4> QED
        BY <2>2, <4>2
    <3> QED
      BY <3>1, <3>2
  <2>4. \A d \in QuoteCalls : job'[d] \notin {"queued", "requesting"}
    <3>1. \A d \in Calls : job'[d] = [job EXCEPT ![c] = j][d]
      BY <2>2 DEF Settled
    <3>2. \A d \in Calls : job'[d] = IF d = c THEN j ELSE job[d]
      BY <1>1, <3>1 DEF DispatchInv, TypeOK
    <3> QED
      BY <1>6, <3>2 DEF PlaceInv, Calls
  <2> QED
    BY <1>3, <1>4, <1>6, <2>2, <2>3, <2>4, LimitKept DEF PlaceInv
<1> QED
  BY <1>5, <1>6

\* The slots, the list and the campaign's jobs at most shrink.
LEMMA SamePlace ==
  ASSUME PlaceInv, DispatchInv', UNCHANGED <<pending, active, scheduled>>,
         \A d \in Calls : Single(d)',
         LiveCalls' \subseteq LiveCalls \/ (scheduled /\ LiveCalls' \subseteq active),
         \A d \in QuoteCalls : Waiting(d)' => Waiting(d),
         \A d \in QuoteCalls : job[d] \notin {"queued", "requesting"} => job'[d] \notin {"queued", "requesting"}
  PROVE  PlaceInv'
<1>1. IsFiniteSet(LiveCalls') /\ Cardinality(LiveCalls') <= MaxParallel
  BY LimitKept
<1>2. CASE scheduled
  <2>1. \A c \in QuoteCalls : c \in LiveCalls' \/ Waiting(c)' => c \in active'
    BY <1>2 DEF PlaceInv
  <2> QED
    BY <1>1, <1>2, <2>1 DEF PlaceInv
<1>3. CASE ~ scheduled
  BY <1>1, <1>3 DEF PlaceInv
<1> QED
  BY <1>2, <1>3

LEMMA PlaceJob ==
  ASSUME PlaceInv, "lostReply" \notin Faults, NEW c \in Calls, DispatchInv',
         StartJob(c) \/ Answer(c) \/ SaveAgain(c)
  PROVE  PlaceInv'
<1>1. DispatchInv /\ TypeOK /\ StartedAt(c) /\ Single(c)
      /\ UNCHANGED <<pending, active, scheduled, reports>>
  BY DEF PlaceInv, DispatchInv, Started, StartJob, Answer, SaveAgain
<1>2. LiveCalls' = LiveCalls
  BY <1>1 DEF LiveCalls, Live
<1>3. \A d \in Calls \ {c} : job'[d] = job[d] /\ attempts'[d] = attempts[d] /\ known'[d] = known[d]
  BY <1>1 DEF TypeOK, StartJob, Answer, SaveAgain, Save
<1>4. job[c] \in {"queued", "requesting"} /\ (Unplaced(c) <=> Unplaced(c)')
  BY <1>1 DEF Unplaced, StartJob, Answer, SaveAgain
<1>5. Single(c)'
  <2>1. CASE StartJob(c)
    BY <1>1, <2>1 DEF Single, StartJob, TypeOK
  <2>2. CASE Answer(c)
    <3>1. known'[c] = attempts[c] /\ attempts[c] \in Attempts /\ attempts[c] # 0
      BY <1>1, <2>2, LimitsAssumption DEF Answer, StartedAt, TypeOK, Attempts
    <3> QED
      BY <1>1, <3>1 DEF Single
  <2>3. CASE SaveAgain(c)
    BY <1>1, <2>3 DEF Single, SaveAgain
  <2> QED
    BY <2>1, <2>2, <2>3
<1>6. \A d \in Calls : Single(d)'
  BY <1>1, <1>3, <1>5 DEF PlaceInv, Single
<1>7. \A d \in QuoteCalls : Waiting(d)' => Waiting(d)
  BY <1>1, <1>3, <1>4 DEF Waiting, Unplaced, Calls
<1>8. \A d \in QuoteCalls : job[d] \notin {"queued", "requesting"} => job'[d] \notin {"queued", "requesting"}
  BY <1>3, <1>4 DEF Calls
<1> QED
  BY <1>1, <1>2, <1>6, <1>7, <1>8, SamePlace

LEMMA PlaceProvider ==
  ASSUME PlaceInv, NEW c \in Calls, NEW k \in Attempts, DispatchInv',
         ProviderAccepts(c) \/ ProviderAdvances(c, k) \/ ProviderEnds(c, k)
  PROVE  PlaceInv'
<1>1. DispatchInv /\ TypeOK /\ StartedAt(c) /\ Single(c)
      /\ UNCHANGED <<pending, active, scheduled, job, attempts, known>>
  BY DEF PlaceInv, DispatchInv, Started, ProviderAccepts, ProviderAdvances, ProviderEnds, jobVars
<1>2. CASE ProviderAccepts(c)
  <2> DEFINE n == attempts[c]
  <2>1. n \in Attempts /\ known[c] = 0 /\ job[c] = "requesting" /\ reports[c][n] = {}
    BY <1>1, <1>2 DEF ProviderAccepts, StartedAt
  <2>2. Unplaced(c)
    BY <1>1, <2>1 DEF Single, Unplaced
  <2>3. /\ \A d \in Calls \ {c} : reports'[d] = reports[d]
        /\ \A m \in Attempts : reports'[c][m] = IF m = n THEN {"QUEUED"} ELSE {}
    BY <1>1, <1>2, <2>1, <2>2 DEF ProviderAccepts, TypeOK, Unplaced
  <2>4. \A d \in Calls : Single(d)'
    BY <1>1, <2>1, <2>3 DEF PlaceInv, Single
  <2>5. \A d \in QuoteCalls : Waiting(d)' => Waiting(d)
    BY <1>1, <2>2, <2>3 DEF Waiting, Unplaced, Calls
  <2>6. LiveCalls' \subseteq LiveCalls \cup {c}
    BY <2>3 DEF LiveCalls, Live, Calls
  <2>7. c \in QuoteCalls => scheduled /\ c \in active
    BY <2>1, <2>2 DEF PlaceInv, Waiting
  <2>8. scheduled => LiveCalls \subseteq active
    BY DEF PlaceInv, LiveCalls
  <2>9. LiveCalls' \subseteq LiveCalls \/ (scheduled /\ LiveCalls' \subseteq active)
    <3>1. LiveCalls' \subseteq QuoteCalls
      BY DEF LiveCalls
    <3> HIDE DEF n
    <3> QED
      BY <2>6, <2>7, <2>8, <3>1
  <2> QED
    BY <1>1, <2>4, <2>5, <2>9, SamePlace
<1>3. CASE ProviderAdvances(c, k) \/ ProviderEnds(c, k)
  <2>1. \A d \in Calls, n \in Attempts :
          /\ reports[d][n] \subseteq reports'[d][n]
          /\ (reports[d][n] = {} \/ reports[d][n] \cap Terminal # {}) => reports'[d][n] = reports[d][n]
    BY <1>1, <1>3, ProviderStep
  <2>2. \A d \in Calls, n \in Attempts : reports'[d][n] = {} <=> reports[d][n] = {}
    BY <2>1
  <2>3. \A d \in Calls : Single(d)'
    BY <1>1, <2>2 DEF PlaceInv, Single
  <2>4. \A d \in QuoteCalls : Waiting(d)' => Waiting(d)
    BY <1>1, <2>2 DEF Waiting, Unplaced, Calls
  <2>5. LiveCalls' \subseteq LiveCalls
    BY <2>1, <2>2 DEF LiveCalls, Live, Calls
  <2> QED
    BY <1>1, <2>3, <2>4, <2>5, SamePlace
<1> QED
  BY <1>2, <1>3

LEMMA PlaceReport ==
  ASSUME PlaceInv, NEW c \in Calls, NEW k \in Attempts, NEW s \in Progress \cup Terminal,
         Report(c, k, s), DispatchInv'
  PROVE  PlaceInv'
<1>1. /\ DispatchInv /\ TypeOK /\ Single(c) /\ s \in reports[c][k]
      /\ UNCHANGED <<scheduled, attempts, known, reports>>
  BY DEF PlaceInv, DispatchInv, Report
<1>2. status[c] # "ABSENT"
  BY <1>1 DEF DispatchInv, Started, StartedAt
<1>3. CASE Follow(c, s)
  <2>1. PICK N \in SUBSET QuoteCalls, R \in SUBSET QuoteCalls, freed \in BOOLEAN :
          /\ Settled(c, s, job, freed, N, R)
          /\ freed => s \in Terminal
    BY <1>1, <1>2, <1>3, FollowEffect
  <2>2. freed => c \notin LiveCalls
    BY <1>1, <2>1 DEF LiveCalls, Live, Single
  <2>3. ~ Unplaced(c)
    BY <1>1 DEF Unplaced
  <2> DEFINE j == job[c]
  <2>4. job = [job EXCEPT ![c] = j] /\ j \in JobStates /\ s \in Statuses \ {"ABSENT"}
    BY <1>1 DEF TypeOK, JobStates, Statuses, Progress, Terminal
  <2>5. Settled(c, s, [job EXCEPT ![c] = j], freed, N, R) /\ j = job[c]
    BY <2>1, <2>4
  <2> HIDE DEF j
  <2> QED
    BY <1>1, <1>2, <2>2, <2>3, <2>4, <2>5, SettledPlace
<1>4. CASE UNCHANGED <<status, job, pending, active>>
  <2>1. \A d \in Calls : Single(d)'
    BY <1>1, <1>4 DEF PlaceInv, Single
  <2>2. LiveCalls' \subseteq LiveCalls
    BY <1>1 DEF LiveCalls, Live
  <2>3. \A d \in QuoteCalls : Waiting(d)' => Waiting(d)
    BY <1>1, <1>4 DEF Waiting, Unplaced
  <2> QED
    BY <1>1, <1>4, <2>1, <2>2, <2>3, SamePlace
<1> QED
  BY <1>3, <1>4 DEF Report

LEMMA PlaceRequestFails ==
  ASSUME PlaceInv, "lostReply" \notin Faults, NEW c \in Calls, RequestFails(c), DispatchInv'
  PROVE  PlaceInv'
<1>1. /\ DispatchInv /\ TypeOK /\ StartedAt(c) /\ Single(c)
      /\ UNCHANGED <<scheduled, attempts, known, reports>>
      /\ job[c] = "requesting" /\ reports[c][attempts[c]] = {}
  BY DEF PlaceInv, DispatchInv, Started, RequestFails
<1>2. status[c] # "ABSENT" /\ Unplaced(c) /\ c \notin LiveCalls
  BY <1>1 DEF StartedAt, Single, Unplaced, LiveCalls, Live
<1>3. CASE GivesUp(c)
  <2>1. PICK N \in SUBSET QuoteCalls, R \in SUBSET QuoteCalls, freed \in BOOLEAN,
             s \in Statuses \ {"ABSENT"} : Settled(c, s, [job EXCEPT ![c] = "ended"], freed, N, R)
    BY <1>1, <1>2, <1>3, GivesUpEffect
  <2>2. "ended" \in JobStates /\ "ended" \notin {"queued", "requesting"}
    BY DEF JobStates
  <2> QED
    BY <1>1, <1>2, <2>1, <2>2, SettledPlace
<1>4. CASE job' = [job EXCEPT ![c] = "queued"] /\ UNCHANGED <<pending, active>>
  <2>1. \A d \in Calls : job'[d] = IF d = c THEN "queued" ELSE job[d]
    BY <1>1, <1>4 DEF TypeOK
  <2>2. \A d \in Calls : Single(d)'
    BY <1>1, <1>2, <2>1 DEF PlaceInv, Single, Unplaced
  <2>3. LiveCalls' \subseteq LiveCalls
    BY <1>1 DEF LiveCalls, Live
  <2>4. \A d \in QuoteCalls : Waiting(d)' => Waiting(d)
    BY <1>1, <1>2, <2>1 DEF Waiting, Unplaced, Calls
  <2>5. \A d \in QuoteCalls : job[d] \notin {"queued", "requesting"} => job'[d] \notin {"queued", "requesting"}
    BY <1>1, <2>1 DEF Calls
  <2> QED
    BY <1>1, <1>4, <2>2, <2>3, <2>4, <2>5, SamePlace
<1> QED
  BY <1>3, <1>4 DEF RequestFails

LEMMA PlaceFirst ==
  ASSUME PlaceInv, EnqueueQuoteCalls, DispatchInv'
  PROVE  PlaceInv'
<1>1. /\ DispatchInv /\ TypeOK /\ Started /\ scheduled'
      /\ UNCHANGED <<attempts, known, reports>>
  BY DEF PlaceInv, DispatchInv, EnqueueQuoteCalls
<1>2. PICK p, N, R : /\ N \in SUBSET QuoteCalls
                     /\ Pumped(p, {}, status, job, N, R)
  BY <1>1, FirstCalls
<1>3. active' = N /\ \A d \in Calls : job'[d] = IF d \in N THEN "queued" ELSE job[d]
  BY <1>2 DEF Pumped
<1>4. \A d \in QuoteCalls : d \in Calls /\ Unplaced(d) /\ job[d] = "none"
  BY <1>1 DEF EnqueueQuoteCalls, Started, StartedAt, Unplaced, Calls
<1>5. \A d \in Calls : Single(d)'
  BY <1>1, <1>2, <1>3, <1>4 DEF PlaceInv, Single, Unplaced
<1>6. LiveCalls' = {}
  BY <1>1, <1>4 DEF LiveCalls, Live, Unplaced
<1>7. \A d \in QuoteCalls : Waiting(d)' => d \in active'
  BY <1>3, <1>4 DEF Waiting
<1>8. IsFiniteSet(LiveCalls') /\ Cardinality(LiveCalls') <= MaxParallel
  BY <1>6, LimitKept
<1> QED
  BY <1>1, <1>5, <1>6, <1>7, <1>8 DEF PlaceInv

LEMMA PlaceRestart ==
  ASSUME PlaceInv, Restart, DispatchInv'
  PROVE  PlaceInv'
<1>1. /\ ~ scheduled' /\ active' = {} /\ pending' = <<>> /\ reports' = reports
      /\ \A d \in Calls : job'[d] = "none"
  BY DEF Restart
<1>2. \A d \in Calls : Single(d)'
  BY <1>1 DEF PlaceInv, Single
<1>3. LiveCalls' \subseteq LiveCalls
  BY <1>1 DEF LiveCalls, Live
<1>4. IsFiniteSet(LiveCalls') /\ Cardinality(LiveCalls') <= MaxParallel
  BY <1>3, LimitKept
<1> QED
  BY <1>1, <1>2, <1>4 DEF PlaceInv, Calls

\* One more call for the commitment, or nothing of a call.
LEMMA PlaceOther ==
  ASSUME PlaceInv, DispatchInv',
         UNCHANGED <<scheduled, pending, active, attempts, known, reports>>,
         \A d \in Calls : \/ job'[d] = job[d]
                          \/ status[d] = "ABSENT" /\ d \in CommitCalls
  PROVE  PlaceInv'
<1>1. Started
  BY DEF PlaceInv, DispatchInv
<1>2. \A d \in Calls : Single(d)'
  BY <1>1 DEF PlaceInv, Single, Started, StartedAt
<1>3. LiveCalls' \subseteq LiveCalls
  BY DEF LiveCalls, Live
<1>4. \A d \in QuoteCalls : job'[d] = job[d]
  BY CallsAssumption DEF Calls
<1>5. \A d \in QuoteCalls : Waiting(d)' => Waiting(d)
  BY <1>4 DEF Waiting, Unplaced
<1> QED
  BY <1>2, <1>3, <1>4, <1>5, SamePlace

LEMMA Placed ==
  ASSUME "lostReply" \notin Faults
  PROVE  Spec => []PlaceInv
<1>1. Init => PlaceInv
  <2> SUFFICES ASSUME Init PROVE PlaceInv
    OBVIOUS
  <2>1. DispatchInv /\ \A c \in Calls : Single(c)
    BY InitStep DEF Init, Single
  <2>2. LiveCalls = {}
    BY DEF Init, LiveCalls, Live, Calls
  <2>3. IsFiniteSet(LiveCalls) /\ Cardinality(LiveCalls) <= MaxParallel
    BY <2>2, FS_EmptySet, LimitsAssumption
  <2> QED
    BY <2>1, <2>3 DEF PlaceInv, Init, Calls
<1>2. PlaceInv /\ [Next]_vars => PlaceInv'
  <2> SUFFICES ASSUME PlaceInv, [Next]_vars PROVE PlaceInv'
    OBVIOUS
  <2>1. DispatchInv' /\ DispatchInv
    BY Step DEF PlaceInv, Stepped
  <2>2. ASSUME NEW d \in CommitCalls, EnqueueCommit(d)
        PROVE  \A c \in Calls : job'[c] = job[c] \/ (status[c] = "ABSENT" /\ c \in CommitCalls)
    BY <2>1, <2>2 DEF EnqueueCommit, Enqueue, DispatchInv, TypeOK
  <2>3. ASSUME NEW c \in CommitCalls, EnqueueCommitCall(c) \/ OperatorCalls(c) \/ BusyRetryFires(c)
        PROVE  PlaceInv'
    BY <2>1, <2>2, <2>3, PlaceOther DEF EnqueueCommitCall, OperatorCalls, BusyRetryFires
  <2>4. ASSUME NEW c \in QuoteCalls, NEW k \in Attempts, AgentActs(c, k) PROVE PlaceInv'
    BY <2>1, <2>4, PlaceOther DEF AgentActs, jobVars
  <2>5. CASE (\E b \in InboundCalls : CarrierPhonesIn(b)) \/ UNCHANGED vars
    BY <2>1, <2>5, PlaceOther DEF CarrierPhonesIn, vars, jobVars
  <2>6. "IN_PROGRESS" \in Progress \cup Terminal /\ Attempts # {}
    BY LimitsAssumption DEF Progress, Attempts
  <2> QED
    BY <2>1, <2>3, <2>4, <2>5, <2>6, PlaceFirst, PlaceRestart, PlaceJob, PlaceProvider, PlaceReport,
       PlaceRequestFails DEF Next, StreamStarts, Callback
<1> QED
  BY <1>1, <1>2, PTL DEF Spec

\* No more phones ring or are talked on at once than the campaign allows, as long
\* as no answer of the provider is lost: across failed statements and restarts.
THEOREM LimitHolds ==
  ASSUME "lostReply" \notin Faults
  PROVE  Spec => []LiveWithinLimit
<1>1. PlaceInv => LiveWithinLimit
  BY DEF PlaceInv, LiveWithinLimit, LiveCalls
<1> QED
  BY <1>1, Placed, PTL

\* A call is placed once, as long as no answer of the provider is lost.
THEOREM PlacedOnce ==
  ASSUME "lostReply" \notin Faults
  PROVE  Spec => []CalledOnce
<1>1. PlaceInv => CalledOnce
  <2> SUFFICES ASSUME PlaceInv, NEW c \in Calls
               PROVE  Cardinality({k \in Attempts : reports[c][k] # {}}) <= 1
    BY DEF CalledOnce
  <2> DEFINE S == {k \in Attempts : reports[c][k] # {}}
  <2>1. Single(c)
    BY DEF PlaceInv
  <2>2. S = {} \/ \E k \in Attempts : S = {k}
    BY <2>1 DEF Single
  <2> HIDE DEF S
  <2>3. Cardinality(S) <= 1
    <3>1. Cardinality(S) \in {0, 1}
      BY <2>2, FS_EmptySet, FS_Singleton
    <3> QED
      BY <3>1
  <2> QED
    BY <2>3 DEF S
<1> QED
  BY <1>1, Placed, PTL
=============================================================================
