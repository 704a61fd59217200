-------------------------- MODULE MainLoop_proofs --------------------------
(***************************************************************************)
(* MainLoop's invariants hold for every set of timers, every delay, every  *)
(* resolution of timeval_diff and every rate limit; and the loop with its  *)
(* two lists implements the safety part of Timers.                         *)
(***************************************************************************)
EXTENDS MainLoop, SequenceTheorems, NaturalsInduction, WellFoundedInduction, TLAPS

-----------------------------------------------------------------------------
(***************************************************************************)
(* Arithmetic.                                                             *)
(***************************************************************************)
\* a quotient of times is positive when a whole millisecond fits
LEMMA DivPositive ==
  ASSUME NEW a \in Nat, NEW m \in Nat \ {0}
  PROVE  a \div m \in Nat /\ (a \div m > 0 <=> a >= m)
OBVIOUS

\* a quotient bounds its dividend
LEMMA DivBound ==
  ASSUME NEW a \in Nat, NEW m \in Nat \ {0}, NEW s \in Nat, a \div m >= s
  PROVE  a >= s * m
<1>1. a >= (a \div m) * m
  OBVIOUS
<1>2. (a \div m) \in Nat /\ (a \div m) * m >= s * m
  OBVIOUS
<1> QED BY <1>1, <1>2

LEMMA TimesNat ==
  ASSUME NEW a \in Nat, NEW m \in Nat
  PROVE  a * m \in Nat
OBVIOUS

\* timeval_diff is negative when the first time is earlier by a millisecond or more
LEMMA DiffNegative ==
  ASSUME NEW a \in Nat, NEW b \in Nat
  PROVE  timeval_diff(a, b) < 0 <=> a + MSEC <= b
<1>1. CASE a >= b
  <2>1. (a - b) \div MSEC \in Nat
    BY <1>1, DivPositive, LoopAssumption
  <2> QED BY <1>1, <2>1, LoopAssumption DEF timeval_diff
<1>2. CASE a < b
  <2>1. (b - a) \div MSEC \in Nat /\ ((b - a) \div MSEC > 0 <=> b - a >= MSEC)
    BY <1>2, DivPositive, LoopAssumption
  <2> QED BY <1>2, <2>1, LoopAssumption DEF timeval_diff
<1> QED BY <1>1, <1>2

\* and positive when it is later by a millisecond or more
LEMMA DiffPositive ==
  ASSUME NEW a \in Nat, NEW b \in Nat
  PROVE  timeval_diff(a, b) > 0 <=> b + MSEC <= a
<1>1. CASE a >= b
  <2>1. (a - b) \div MSEC \in Nat /\ ((a - b) \div MSEC > 0 <=> a - b >= MSEC)
    BY <1>1, DivPositive, LoopAssumption
  <2> QED BY <1>1, <2>1, LoopAssumption DEF timeval_diff
<1>2. CASE a < b
  <2>1. (b - a) \div MSEC \in Nat
    BY <1>2, DivPositive, LoopAssumption
  <2> QED BY <1>2, <2>1, LoopAssumption DEF timeval_diff
<1> QED BY <1>1, <1>2

-----------------------------------------------------------------------------
(***************************************************************************)
(* The lists of the timer queue, and what their operations do to them.     *)
(***************************************************************************)
Elements(s) == {s[i] : i \in 1 .. Len(s)}

Distinct(s) == \A i, j \in 1 .. Len(s) : s[i] = s[j] => i = j

SortedBy(s, at) == \A i, j \in 1 .. Len(s) : i < j => at[s[i]] < at[s[j]] + MSEC

\* SelectInSeq takes the least of a set of positions
LEMMA MinIsLeast ==
  ASSUME NEW S \in SUBSET Nat, S # {}
  PROVE  Min(S) \in S /\ \A y \in S : Min(S) <= y
<1> DEFINE R == {ss \in Nat \X Nat : ss[1] < ss[2]}
<1>1. R = OpToRel(<, Nat)
  BY DEF OpToRel
<1>2. IsWellFoundedOn(R, Nat)
  BY <1>1, NatLessThanWellFounded
<1>3. PICK x \in S : \A y \in S : <<y, x>> \notin R
  <2> HIDE DEF R
  <2> QED BY <1>2, WFMin
<1>4. ASSUME NEW y \in S PROVE x <= y
  <2>1. <<y, x>> \in Nat \X Nat /\ <<y, x>>[1] = y /\ <<y, x>>[2] = x
    OBVIOUS
  <2> QED BY <1>3, <2>1
<1> QED BY <1>4 DEF Min

\* what RemoveAt leaves, place by place
LEMMA RemoveAtIs ==
  ASSUME NEW S, NEW s \in Seq(S), NEW k \in 1 .. Len(s)
  PROVE  /\ RemoveAt(s, k) \in Seq(S)
         /\ Len(RemoveAt(s, k)) = Len(s) - 1
         /\ \A i \in 1 .. Len(s) - 1 :
              RemoveAt(s, k)[i] = IF i < k THEN s[i] ELSE s[i + 1]
<1> DEFINE a == SubSeq(s, 1, k - 1)
           b == SubSeq(s, k + 1, Len(s))
           r == a \o b
<1>1. PICK n \in Nat : Len(s) = n
  OBVIOUS
<1>2. a \in Seq(S) /\ Len(a) = k - 1 /\ \A i \in 1 .. k - 1 : a[i] = s[i]
  BY SubSeqProperties
<1>3. b \in Seq(S) /\ Len(b) = Len(s) - k /\ \A i \in 1 .. Len(s) - k : b[i] = s[k + i]
  BY SubSeqProperties
<1> HIDE DEF a, b
<1>4. /\ r \in Seq(S) /\ Len(r) = Len(a) + Len(b)
      /\ \A i \in 1 .. Len(a) + Len(b) : r[i] = IF i <= Len(a) THEN a[i] ELSE b[i - Len(a)]
  BY <1>2, <1>3, ConcatProperties
<1> HIDE DEF r
<1>5. ASSUME NEW i \in 1 .. Len(s) - 1
      PROVE  r[i] = IF i < k THEN s[i] ELSE s[i + 1]
  <2>1. CASE i < k
    BY <1>1, <1>2, <1>3, <1>4, <2>1
  <2>2. CASE i >= k
    BY <1>1, <1>2, <1>3, <1>4, <2>2
  <2> QED BY <2>1, <2>2
<1> QED BY <1>1, <1>2, <1>3, <1>4, <1>5 DEF RemoveAt, r, a, b

\* what InsertAt makes, place by place
LEMMA InsertAtIs ==
  ASSUME NEW S, NEW s \in Seq(S), NEW e \in S, NEW k \in 1 .. Len(s) + 1
  PROVE  /\ InsertAt(s, k, e) \in Seq(S)
         /\ Len(InsertAt(s, k, e)) = Len(s) + 1
         /\ \A i \in 1 .. Len(s) + 1 : InsertAt(s, k, e)[i] =
              IF i < k THEN s[i] ELSE IF i = k THEN e ELSE s[i - 1]
<1> DEFINE a == SubSeq(s, 1, k - 1)
           b == SubSeq(s, k, Len(s))
           o == <<e>>
           ao == a \o o
           r == ao \o b
<1>1. PICK n \in Nat : Len(s) = n
  OBVIOUS
<1>2. a \in Seq(S) /\ Len(a) = k - 1 /\ \A i \in 1 .. k - 1 : a[i] = s[i]
  BY SubSeqProperties
<1>3. /\ b \in Seq(S) /\ Len(b) = Len(s) - k + 1
      /\ \A i \in 1 .. Len(s) - k + 1 : b[i] = s[k + i - 1]
  BY SubSeqProperties
<1>4. o \in Seq(S) /\ Len(o) = 1 /\ o[1] = e
  OBVIOUS
<1> HIDE DEF a, b, o
<1>5. /\ ao \in Seq(S) /\ Len(ao) = Len(a) + Len(o)
      /\ \A i \in 1 .. Len(a) + Len(o) : ao[i] = IF i <= Len(a) THEN a[i] ELSE o[i - Len(a)]
  BY <1>2, <1>4, ConcatProperties
<1> HIDE DEF ao
<1>6. /\ r \in Seq(S) /\ Len(r) = Len(ao) + Len(b)
      /\ \A i \in 1 .. Len(ao) + Len(b) : r[i] = IF i <= Len(ao) THEN ao[i] ELSE b[i - Len(ao)]
  <2>1. ao \in Seq(S) /\ b \in Seq(S)
    BY <1>3, <1>5
  <2> QED BY <2>1, ConcatProperties
<1> HIDE DEF r
<1>7. Len(ao) = k /\ ao[k] = e /\ \A i \in 1 .. k - 1 : ao[i] = s[i]
  <2>1. ASSUME NEW i \in 1 .. k - 1 PROVE ao[i] = s[i]
    BY <1>1, <1>2, <1>4, <1>5
  <2>2. k - Len(a) = 1 /\ k \in 1 .. Len(a) + Len(o) /\ ~ k <= Len(a)
    BY <1>1, <1>2, <1>4
  <2>3. ao[k] = o[1]
    BY <1>5, <2>2
  <2> QED BY <1>1, <1>2, <1>4, <1>5, <2>1, <2>3
<1>8. ASSUME NEW i \in 1 .. Len(s) + 1
      PROVE  r[i] = IF i < k THEN s[i] ELSE IF i = k THEN e ELSE s[i - 1]
  <2>1. CASE i <= k
    BY <1>1, <1>3, <1>6, <1>7, <2>1
  <2>2. CASE i > k
    BY <1>1, <1>3, <1>6, <1>7, <2>2
  <2> QED BY <2>1, <2>2
<1> QED BY <1>1, <1>3, <1>6, <1>7, <1>8 DEF InsertAt, r, ao, o, a, b

\* RemoveFirst leaves a list without the timer as it is, and removes one place of it
\* from a list that has it
LEMMA RemoveFirstIs ==
  ASSUME NEW S, NEW s \in Seq(S), NEW e \in S
  PROVE  \/ e \notin Elements(s) /\ RemoveFirst(s, e) = s
         \/ \E k \in 1 .. Len(s) : s[k] = e /\ RemoveFirst(s, e) = RemoveAt(s, k)
<1>1. CASE e \notin Elements(s)
  BY <1>1 DEF Elements, RemoveFirst
<1>2. CASE e \in Elements(s)
  <2> DEFINE I == {i \in 1 .. Len(s) : s[i] = e}
  <2>1. I # {} /\ I \in SUBSET Nat
    BY <1>2 DEF Elements
  <2>2. Min(I) \in I
    <3> HIDE DEF I
    <3> QED BY <2>1, MinIsLeast
  <2>3. RemoveFirst(s, e) = RemoveAt(s, Min(I))
    BY <1>2, <2>1 DEF Elements, RemoveFirst, SelectInSeq
  <2> QED BY <2>2, <2>3
<1> QED BY <1>1, <1>2

\* timer_remove and timer_set_timeout take a timer out of a list: the others stay,
\* in their order
LEMMA RemoveFirstKeeps ==
  ASSUME NEW s \in Seq(Timer), NEW t \in Timer, Distinct(s)
  PROVE  /\ RemoveFirst(s, t) \in Seq(Timer)
         /\ Distinct(RemoveFirst(s, t))
         /\ Elements(RemoveFirst(s, t)) = Elements(s) \ {t}
         /\ \A at \in [Timer -> Nat] : SortedBy(s, at) => SortedBy(RemoveFirst(s, t), at)
<1>1. CASE t \notin Elements(s) /\ RemoveFirst(s, t) = s
  BY <1>1
<1>2. ASSUME NEW k \in 1 .. Len(s), s[k] = t, RemoveFirst(s, t) = RemoveAt(s, k)
      PROVE  /\ RemoveFirst(s, t) \in Seq(Timer)
             /\ Distinct(RemoveFirst(s, t))
             /\ Elements(RemoveFirst(s, t)) = Elements(s) \ {t}
             /\ \A at \in [Timer -> Nat] : SortedBy(s, at) => SortedBy(RemoveFirst(s, t), at)
  <2> DEFINE r == RemoveAt(s, k)
             old(i) == IF i < k THEN i ELSE i + 1
  <2>1. PICK n \in Nat : Len(s) = n
    OBVIOUS
  <2>2. /\ r \in Seq(Timer) /\ Len(r) = Len(s) - 1
        /\ \A i \in 1 .. Len(s) - 1 : r[i] = IF i < k THEN s[i] ELSE s[i + 1]
    BY RemoveAtIs
  <2> HIDE DEF r
  <2>3. ASSUME NEW i \in 1 .. Len(r)
        PROVE  old(i) \in 1 .. Len(s) /\ old(i) # k /\ r[i] = s[old(i)]
    BY <2>1, <2>2
  <2>4. Distinct(r)
    <3> SUFFICES ASSUME NEW i \in 1 .. Len(r), NEW j \in 1 .. Len(r), r[i] = r[j] PROVE i = j
      BY DEF Distinct
    <3>1. old(i) = old(j)
      BY <2>3 DEF Distinct
    <3> QED BY <2>1, <2>2, <3>1
  <2>5. ASSUME NEW at \in [Timer -> Nat], SortedBy(s, at) PROVE SortedBy(r, at)
    <3> SUFFICES ASSUME NEW i \in 1 .. Len(r), NEW j \in 1 .. Len(r), i < j
                 PROVE  at[r[i]] < at[r[j]] + MSEC
      BY DEF SortedBy
    <3>1. old(i) < old(j)
      BY <2>1, <2>2
    <3> QED BY <2>3, <2>5, <3>1 DEF SortedBy
  <2>6. ASSUME NEW i \in 1 .. Len(r) PROVE r[i] \in Elements(s) \ {t}
    <3> HIDE DEF old
    <3>1. s[old(i)] # s[k]
      BY <2>3 DEF Distinct
    <3> QED BY <2>3, <3>1, <1>2 DEF Elements
  <2>7. ASSUME NEW i \in 1 .. Len(s), s[i] # t PROVE s[i] \in Elements(r)
    <3>1. CASE i < k
      BY <2>1, <2>2, <3>1 DEF Elements
    <3>2. CASE i > k
      <4>1. i - 1 \in 1 .. Len(r) /\ r[i - 1] = s[i]
        BY <2>1, <2>2, <3>2
      <4> QED BY <4>1 DEF Elements
    <3> QED BY <1>2, <2>1, <2>7, <3>1, <3>2
  <2>8. Elements(r) = Elements(s) \ {t}
    BY <2>6, <2>7 DEF Elements
  <2> QED BY <1>2, <2>2, <2>4, <2>5, <2>8 DEF r
<1> QED BY <1>1, <1>2, RemoveFirstIs

\* timer_add sorts a timer in before the first that runs out later
LEMMA timer_addIs ==
  ASSUME NEW s \in Seq(Timer), NEW t \in Timer, NEW at \in [Timer -> Nat]
  PROVE  \E k \in 1 .. Len(s) + 1 :
           /\ timer_add(s, t, at) = InsertAt(s, k, t)
           /\ \A j \in 1 .. k - 1 : at[s[j]] < at[t] + MSEC
           /\ k <= Len(s) => at[t] + MSEC <= at[s[k]]
<1> DEFINE I == {i \in 1 .. Len(s) : timeval_diff(at[t], at[s[i]]) < 0}
           first == IF I # {} THEN Min(I) ELSE 0
<1>1. timer_add(s, t, at) = InsertAt(s, IF first = 0 THEN Len(s) + 1 ELSE first, t)
  BY DEF timer_add, SelectInSeq
<1>2. PICK n \in Nat : Len(s) = n
  OBVIOUS
<1>3. \A i \in 1 .. Len(s) : i \in I <=> at[t] + MSEC <= at[s[i]]
  BY DiffNegative
<1>4. I \in SUBSET (1 .. Len(s))
  OBVIOUS
<1> HIDE DEF I
<1>5. \A i \in 1 .. Len(s) : at[s[i]] \in Nat
  OBVIOUS
<1>6. CASE I = {}
  <2>1. timer_add(s, t, at) = InsertAt(s, Len(s) + 1, t)
    BY <1>1, <1>6
  <2> QED BY <1>2, <1>3, <1>5, <1>6, <2>1, LoopAssumption
<1>7. CASE I # {}
  <2>1. Min(I) \in I /\ \A y \in I : Min(I) <= y
    BY <1>2, <1>4, <1>7, MinIsLeast
  <2>2. Min(I) \in 1 .. Len(s)
    BY <1>4, <2>1
  <2>3. timer_add(s, t, at) = InsertAt(s, Min(I), t)
    BY <1>1, <1>7, <2>2
  <2>4. ASSUME NEW j \in 1 .. Min(I) - 1 PROVE at[s[j]] < at[t] + MSEC
    <3>1. j \in 1 .. Len(s) /\ j \notin I
      BY <1>2, <2>1, <2>2
    <3> QED BY <1>3, <1>5, <3>1, LoopAssumption
  <2> QED BY <1>2, <1>3, <2>1, <2>2, <2>3, <2>4
<1> QED BY <1>6, <1>7

\* so the list stays sorted up to a millisecond
LEMMA timer_addKeeps ==
  ASSUME NEW s \in Seq(Timer), NEW t \in Timer \ Elements(s), Distinct(s),
         NEW at \in [Timer -> Nat], SortedBy(s, at)
  PROVE  /\ timer_add(s, t, at) \in Seq(Timer)
         /\ Distinct(timer_add(s, t, at))
         /\ Elements(timer_add(s, t, at)) = Elements(s) \cup {t}
         /\ SortedBy(timer_add(s, t, at), at)
<1>1. PICK n \in Nat : Len(s) = n
  OBVIOUS
<1>2. PICK k \in 1 .. Len(s) + 1 :
        /\ timer_add(s, t, at) = InsertAt(s, k, t)
        /\ \A j \in 1 .. k - 1 : at[s[j]] < at[t] + MSEC
        /\ k <= Len(s) => at[t] + MSEC <= at[s[k]]
  BY timer_addIs
<1> DEFINE r == InsertAt(s, k, t)
           old(i) == IF i < k THEN i ELSE i - 1
<1>3. /\ r \in Seq(Timer) /\ Len(r) = Len(s) + 1
      /\ \A i \in 1 .. Len(s) + 1 :
           r[i] = IF i < k THEN s[i] ELSE IF i = k THEN t ELSE s[i - 1]
  BY InsertAtIs
<1> HIDE DEF r
<1>4. r[k] = t
  BY <1>1, <1>3
<1>5. ASSUME NEW i \in 1 .. Len(r), i # k
      PROVE  old(i) \in 1 .. Len(s) /\ r[i] = s[old(i)]
  BY <1>1, <1>3, <1>5
<1>6. ASSUME NEW i \in 1 .. Len(s) PROVE s[i] # t /\ at[s[i]] \in Nat
  BY DEF Elements
<1>7. ASSUME NEW j \in 1 .. Len(s), j >= k PROVE at[t] < at[s[j]] + MSEC
  <2>1. k \in 1 .. Len(s) /\ at[t] + MSEC <= at[s[k]]
    BY <1>1, <1>2, <1>7
  <2>2. CASE j = k
    BY <1>6, <2>1, <2>2, LoopAssumption
  <2>3. CASE j > k
    <3>1. at[s[k]] < at[s[j]] + MSEC
      BY <2>1, <2>3 DEF SortedBy
    <3>2. at[s[k]] \in Nat /\ at[s[j]] \in Nat /\ at[t] \in Nat /\ MSEC \in Nat
      BY <1>6, <2>1, LoopAssumption
    <3> QED BY <2>1, <3>1, <3>2
  <2> QED BY <1>1, <1>7, <2>2, <2>3
<1>8. Distinct(r)
  <2> SUFFICES ASSUME NEW i \in 1 .. Len(r), NEW j \in 1 .. Len(r), r[i] = r[j] PROVE i = j
    BY DEF Distinct
  <2>1. CASE i = k \/ j = k
    BY <1>4, <1>5, <1>6, <2>1
  <2>2. CASE i # k /\ j # k
    <3>1. old(i) = old(j)
      <4> HIDE DEF old
      <4> QED BY <1>5, <2>2 DEF Distinct
    <3>2. i \in Int /\ j \in Int /\ k \in Int
      BY <1>1, <1>3
    <3> QED BY <2>2, <3>1, <3>2
  <2> QED BY <2>1, <2>2
<1>9. SortedBy(r, at)
  <2> SUFFICES ASSUME NEW i \in 1 .. Len(r), NEW j \in 1 .. Len(r), i < j
               PROVE  at[r[i]] < at[r[j]] + MSEC
    BY DEF SortedBy
  <2>1. CASE i = k
    <3>1. j # k /\ old(j) >= k
      BY <1>1, <1>3, <2>1
    <3> QED BY <1>4, <1>5, <1>7, <2>1, <3>1
  <2>2. CASE j = k
    <3>1. i # k /\ i \in 1 .. k - 1 /\ r[i] = s[i]
      BY <1>1, <1>3, <2>2
    <3> QED BY <1>2, <1>4, <2>2, <3>1
  <2>3. CASE i # k /\ j # k
    <3>1. old(i) < old(j)
      BY <1>1, <1>3, <2>3
    <3> QED BY <1>5, <2>3, <3>1 DEF SortedBy
  <2> QED BY <2>1, <2>2, <2>3
<1>10. ASSUME NEW i \in 1 .. Len(s) PROVE s[i] \in Elements(r)
  <2>1. CASE i < k
    BY <1>1, <1>3, <2>1 DEF Elements
  <2>2. CASE i >= k
    <3>1. i + 1 \in 1 .. Len(r) /\ r[i + 1] = s[i]
      BY <1>1, <1>3, <2>2
    <3> QED BY <3>1 DEF Elements
  <2> QED BY <1>1, <2>1, <2>2
<1>11. t \in Elements(r)
  BY <1>1, <1>3, <1>4 DEF Elements
<1>12. ASSUME NEW i \in 1 .. Len(r) PROVE r[i] \in Elements(s) \cup {t}
  <2> HIDE DEF old
  <2> QED BY <1>4, <1>5 DEF Elements
<1>13. Elements(r) = Elements(s) \cup {t}
  BY <1>10, <1>11, <1>12 DEF Elements
<1> QED BY <1>2, <1>3, <1>8, <1>9, <1>13 DEF r

-----------------------------------------------------------------------------
(***************************************************************************)
(* The inductive invariant.                                                *)
(***************************************************************************)
\* Linked, list by list
Lists ==
  /\ Distinct(tq) /\ Distinct(exptq)
  /\ Elements(tq) \cap Elements(exptq) = {}
  /\ \A t \in Timer : used[t] <=> t \in Elements(tq) \cup Elements(exptq)

\* Only timer_timeout has a private list, and only its handlers run for a timer.
Places ==
  /\ pc \in {"age", "select", "callback"} => exptq = <<>>
  /\ pc # "handler" => running = NULL

\* What timer_timeout took out was due when the pass began; what it left, and what
\* the handlers of the pass set, is not over then.
Passes ==
  /\ aged <= now
  /\ \A t \in Elements(exptq) : timeout[t] < aged + MSEC
  /\ pc \in {"expire", "handler", "select"} => \A t \in Elements(tq) : aged <= timeout[t]
  /\ pc = "select" => remaining = time_left

\* The limiter has the times of the last messages that were sent.
Remembers(r, s) ==
  /\ Len(r) <= Len(s) /\ Len(r) <= RATELIMIT
  /\ Len(r) < RATELIMIT => Len(r) = Len(s)
  /\ \A i \in 1 .. Len(r) : r[i] = s[Len(s) - Len(r) + i]

Limits ==
  \A k \in Kind : Remembers(ratelimit[k], sent[k]) /\ \A i \in 1 .. Len(sent[k]) : sent[k][i] <= now

LoopInv ==
  /\ TypeOK /\ Lists /\ SortedBy(tq, timeout) /\ Places /\ Passes
  /\ Limits /\ RateLimited

\* the two lists of a state of the invariant have each timer that is set once
LEMMA ListsLinked ==
  ASSUME TypeOK, Lists
  PROVE  Linked
<1> DEFINE all == tq \o exptq
<1>1. PICK m \in Nat, n \in Nat : Len(tq) = m /\ Len(exptq) = n
  BY DEF TypeOK
<1>2. /\ all \in Seq(Timer) /\ Len(all) = Len(tq) + Len(exptq)
      /\ \A i \in 1 .. Len(tq) + Len(exptq) :
           all[i] = IF i <= Len(tq) THEN tq[i] ELSE exptq[i - Len(tq)]
  BY ConcatProperties DEF TypeOK
<1> HIDE DEF all
<1>3. ASSUME NEW i \in 1 .. Len(all)
      PROVE  \/ i \in 1 .. Len(tq) /\ all[i] = tq[i] /\ all[i] \in Elements(tq)
             \/ i - m \in 1 .. Len(exptq) /\ all[i] = exptq[i - m] /\ all[i] \in Elements(exptq)
  <2>1. CASE i <= m
    BY <1>1, <1>2, <2>1 DEF Elements
  <2>2. CASE i > m
    BY <1>1, <1>2, <2>2 DEF Elements
  <2> QED BY <1>1, <1>2, <2>1, <2>2
<1>4. ASSUME NEW i \in 1 .. Len(all), NEW j \in 1 .. Len(all), all[i] = all[j]
      PROVE  i = j
  <2>1. CASE i \in 1 .. Len(tq) /\ all[i] = tq[i] /\ all[i] \in Elements(tq)
    <3>1. j \in 1 .. Len(tq) /\ all[j] = tq[j]
      BY <1>3, <1>4, <2>1 DEF Lists
    <3> QED BY <1>4, <2>1, <3>1 DEF Lists, Distinct
  <2>2. CASE i - m \in 1 .. Len(exptq) /\ all[i] = exptq[i - m] /\ all[i] \in Elements(exptq)
    <3>1. j - m \in 1 .. Len(exptq) /\ all[j] = exptq[j - m]
      BY <1>3, <1>4, <2>2 DEF Lists
    <3>2. i - m = j - m
      BY <1>4, <2>2, <3>1 DEF Lists, Distinct
    <3> QED BY <1>1, <1>2, <3>2
  <2> QED BY <1>3, <2>1, <2>2
<1>5. ASSUME NEW t \in Elements(tq) PROVE \E i \in 1 .. Len(all) : all[i] = t
  BY <1>1, <1>2 DEF Elements
<1>6. ASSUME NEW t \in Elements(exptq) PROVE \E i \in 1 .. Len(all) : all[i] = t
  <2>1. PICK j \in 1 .. Len(exptq) : exptq[j] = t
    BY DEF Elements
  <2>2. m + j \in 1 .. Len(all) /\ all[m + j] = exptq[(m + j) - m] /\ (m + j) - m = j
    BY <1>1, <1>2
  <2> QED BY <2>1, <2>2
<1>7. ASSUME NEW t \in Timer PROVE used[t] <=> \E i \in 1 .. Len(all) : all[i] = t
  BY <1>3, <1>5, <1>6 DEF Lists
<1> QED BY <1>4, <1>7 DEF Linked, Contains, all

\* timer_remove takes the timer out of whichever list it is in
LEMMA timer_removeKeeps ==
  ASSUME LoopInv, NEW t \in Timer, timer_remove(t)
  PROVE  /\ tq' \in Seq(Timer) /\ exptq' \in Seq(Timer) /\ used' \in [Timer -> BOOLEAN]
         /\ timeout' = timeout
         /\ Lists' /\ SortedBy(tq, timeout)'
         /\ Elements(tq)' \subseteq Elements(tq) /\ Elements(exptq)' \subseteq Elements(exptq)
         /\ exptq = <<>> => exptq' = <<>>
<1>1. tq' = RemoveFirst(tq, t) /\ exptq' = RemoveFirst(exptq, t) /\ timeout' = timeout
  BY DEF timer_remove
<1>2. /\ tq' \in Seq(Timer) /\ Distinct(tq') /\ Elements(tq') = Elements(tq) \ {t}
      /\ SortedBy(tq', timeout)
  BY <1>1, RemoveFirstKeeps DEF LoopInv, TypeOK, Lists
<1>3. exptq' \in Seq(Timer) /\ Distinct(exptq') /\ Elements(exptq') = Elements(exptq) \ {t}
  BY <1>1, RemoveFirstKeeps DEF LoopInv, TypeOK, Lists
<1>4. used' \in [Timer -> BOOLEAN] /\ \A u \in Timer : used'[u] = IF u = t THEN FALSE ELSE used[u]
  BY DEF timer_remove, LoopInv, TypeOK
<1>5. exptq = <<>> => exptq' = <<>>
  BY <1>1 DEF RemoveFirst
<1> QED BY <1>1, <1>2, <1>3, <1>4, <1>5 DEF Lists, LoopInv

\* timer_set_timeout leaves the other timers as they are and the queue sorted
LEMMA timer_set_timeoutKeeps ==
  ASSUME LoopInv, NEW t \in Timer, NEW msec \in Msecs, timer_set_timeout(t, msec)
  PROVE  /\ tq' \in Seq(Timer) /\ exptq' \in Seq(Timer) /\ used' \in [Timer -> BOOLEAN]
         /\ timeout' \in [Timer -> Nat]
         /\ \A u \in Timer : u # t => timeout'[u] = timeout[u] /\ used'[u] = used[u]
         /\ timeout'[t] >= now /\ (used'[t] <=> msec >= 0)
         /\ msec >= 0 => timeout'[t] = now + msec * MSEC
         /\ Lists' /\ SortedBy(tq, timeout)'
         /\ Elements(tq)' \subseteq Elements(tq) \cup {t}
         /\ Elements(exptq)' \subseteq Elements(exptq) \ {t}
         /\ exptq = <<>> => exptq' = <<>>
<1> DEFINE rest == RemoveFirst(tq, t)
<1>1. msec \in Int /\ now \in Nat /\ (msec >= 0 => msec * MSEC \in Nat)
  <2>1. msec \in Int /\ now \in Nat /\ MSEC \in Nat
    BY LoopAssumption DEF LoopInv, TypeOK
  <2>2. msec >= 0 => msec * MSEC \in Nat
    BY <2>1, TimesNat
  <2> QED BY <2>1, <2>2
<1>2. /\ timeout' \in [Timer -> Nat]
      /\ \A u \in Timer : u # t => timeout'[u] = timeout[u]
      /\ timeout'[t] >= now
      /\ msec >= 0 => timeout'[t] = now + msec * MSEC
  <2> DEFINE at == IF msec < 0 THEN now ELSE now + msec * MSEC
  <2>1. at \in Nat /\ at >= now /\ (msec >= 0 => at = now + msec * MSEC)
    BY <1>1
  <2> HIDE DEF at
  <2>2. timeout' = [timeout EXCEPT ![t] = at]
    BY DEF timer_set_timeout, at
  <2> QED BY <2>1, <2>2 DEF LoopInv, TypeOK
<1>3. /\ used' \in [Timer -> BOOLEAN] /\ (used'[t] <=> msec >= 0)
      /\ \A u \in Timer : u # t => used'[u] = used[u]
  <2> DEFINE on == msec >= 0
  <2>1. on \in BOOLEAN /\ used' = [used EXCEPT ![t] = on]
    BY DEF timer_set_timeout
  <2>2. used \in [Timer -> BOOLEAN]
    BY DEF LoopInv, TypeOK
  <2>3. used'[t] = on
    BY <2>1, <2>2, Zenon
  <2> HIDE DEF on
  <2>4. used' \in [Timer -> BOOLEAN] /\ \A u \in Timer : u # t => used'[u] = used[u]
    BY <2>1, <2>2, Zenon
  <2> QED BY <2>3, <2>4 DEF on
<1>4. /\ rest \in Seq(Timer) /\ Distinct(rest) /\ Elements(rest) = Elements(tq) \ {t}
      /\ SortedBy(rest, timeout)
  BY RemoveFirstKeeps DEF LoopInv, TypeOK, Lists
<1>5. exptq' \in Seq(Timer) /\ Distinct(exptq') /\ Elements(exptq') = Elements(exptq) \ {t}
  BY RemoveFirstKeeps DEF timer_set_timeout, LoopInv, TypeOK, Lists
<1>6. exptq = <<>> => exptq' = <<>>
  BY DEF timer_set_timeout, RemoveFirst
<1>7. tq' = IF msec < 0 THEN rest ELSE timer_add(rest, t, timeout')
  BY DEF timer_set_timeout
<1> HIDE DEF rest
<1>8. SortedBy(rest, timeout')
  <2>1. \A i \in 1 .. Len(rest) : rest[i] \in Timer /\ rest[i] # t
    BY <1>4 DEF Elements
  <2> QED BY <1>2, <1>4, <2>1 DEF SortedBy
<1>9. CASE msec < 0
  <2>1. tq' = rest /\ ~ used'[t]
    BY <1>1, <1>3, <1>7, <1>9
  <2>2. Lists'
    BY <1>3, <1>4, <1>5, <2>1 DEF Lists, LoopInv
  <2> QED BY <1>1, <1>2, <1>3, <1>4, <1>5, <1>6, <1>8, <1>9, <2>1, <2>2
<1>10. CASE msec >= 0
  <2>1. /\ tq' \in Seq(Timer) /\ Distinct(tq') /\ Elements(tq') = Elements(rest) \cup {t}
        /\ SortedBy(tq', timeout')
    BY <1>1, <1>2, <1>4, <1>7, <1>8, <1>10, timer_addKeeps
  <2> QED BY <1>1, <1>2, <1>3, <1>4, <1>5, <1>6, <1>10, <2>1 DEF Lists, LoopInv
<1> QED BY <1>1, <1>9, <1>10

\* timer_timeout divides the queue: what it takes out is due, what it leaves is not
\* over
LEMMA AgeQueueKeeps ==
  ASSUME LoopInv, AgeQueue
  PROVE  /\ tq' \in Seq(Timer) /\ exptq' \in Seq(Timer)
         /\ Lists' /\ SortedBy(tq, timeout)'
         /\ \A t \in Elements(exptq)' : timeout[t] < now + MSEC
         /\ \A t \in Elements(tq)' : now <= timeout[t]
<1> DEFINE I == {i \in 1 .. Len(tq) : timeval_diff(timeout[tq[i]], now) > 0}
           first == IF I # {} THEN Min(I) ELSE 0
           n == IF first = 0 THEN Len(tq) ELSE first - 1
<1>1. PICK m \in Nat : Len(tq) = m
  BY DEF LoopInv, TypeOK
<1>2. exptq' = SubSeq(tq, 1, n) /\ tq' = SubSeq(tq, n + 1, Len(tq))
  BY DEF AgeQueue, SelectInSeq
<1>3. /\ now \in Nat /\ MSEC \in Nat \ {0} /\ tq \in Seq(Timer)
      /\ \A i \in 1 .. Len(tq) : tq[i] \in Timer /\ timeout[tq[i]] \in Nat
  BY LoopAssumption DEF LoopInv, TypeOK
<1>4. \A i \in 1 .. Len(tq) : i \in I <=> now + MSEC <= timeout[tq[i]]
  BY <1>3, DiffPositive
<1>5. I \in SUBSET (1 .. Len(tq))
  OBVIOUS
<1> HIDE DEF I
<1>6. /\ n \in 0 .. m
      /\ \A i \in 1 .. n : timeout[tq[i]] < now + MSEC
      /\ n < m => now + MSEC <= timeout[tq[n + 1]]
  <2>1. CASE I = {}
    BY <1>1, <1>3, <1>4, <2>1
  <2>2. CASE I # {}
    <3>1. Min(I) \in I /\ \A y \in I : Min(I) <= y
      BY <1>1, <1>5, <2>2, MinIsLeast
    <3>2. Min(I) \in 1 .. Len(tq)
      BY <1>5, <3>1
    <3>4. Min(I) \in 1 .. m /\ Min(I) # 0
      BY <1>1, <3>2
    <3>5. n = Min(I) - 1
      BY <2>2, <3>4
    <3> HIDE DEF n
    <3>3. ASSUME NEW i \in 1 .. n PROVE timeout[tq[i]] < now + MSEC
      <4>1. i \in 1 .. Len(tq) /\ i \notin I
        BY <1>1, <3>1, <3>4, <3>5
      <4> QED BY <1>3, <1>4, <4>1
    <3>6. n \in 0 .. m /\ n + 1 = Min(I)
      BY <3>4, <3>5
    <3> QED BY <1>4, <3>1, <3>2, <3>3, <3>6
  <2> QED BY <2>1, <2>2
<1> HIDE DEF n
<1> DEFINE a == SubSeq(tq, 1, n)
           b == SubSeq(tq, n + 1, Len(tq))
<1>7. a \in Seq(Timer) /\ Len(a) = n /\ \A i \in 1 .. n : a[i] = tq[i]
  BY <1>1, <1>3, <1>6, SubSeqProperties
<1>8. b \in Seq(Timer) /\ Len(b) = m - n /\ \A i \in 1 .. m - n : b[i] = tq[n + i]
  BY <1>1, <1>3, <1>6, SubSeqProperties
<1>9. exptq' = a /\ tq' = b
  BY <1>2
<1> HIDE DEF a, b
<1>10. ASSUME NEW i \in 1 .. Len(b) PROVE n + i \in 1 .. Len(tq) /\ b[i] = tq[n + i]
  BY <1>1, <1>6, <1>8
<1>11. ASSUME NEW i \in 1 .. Len(a) PROVE i \in 1 .. Len(tq) /\ i <= n /\ a[i] = tq[i]
  BY <1>1, <1>6, <1>7
<1>12. Distinct(a) /\ Distinct(b)
  <2>1. Distinct(a)
    BY <1>11 DEF Distinct, LoopInv, Lists
  <2>2. ASSUME NEW i \in 1 .. Len(b), NEW j \in 1 .. Len(b), b[i] = b[j] PROVE i = j
    <3>1. n + i = n + j
      BY <1>10, <2>2 DEF Distinct, LoopInv, Lists
    <3> QED BY <1>1, <1>6, <1>8, <3>1
  <2> QED BY <2>1, <2>2 DEF Distinct
<1>13. Elements(a) \cap Elements(b) = {}
  <2> SUFFICES ASSUME NEW i \in 1 .. Len(a), NEW j \in 1 .. Len(b), a[i] = b[j] PROVE FALSE
    BY DEF Elements
  <2>1. i = n + j
    BY <1>10, <1>11 DEF Distinct, LoopInv, Lists
  <2> QED BY <1>1, <1>6, <1>7, <1>8, <1>11, <2>1
<1>14. Elements(a) \cup Elements(b) = Elements(tq)
  <2>1. ASSUME NEW i \in 1 .. Len(tq) PROVE tq[i] \in Elements(a) \cup Elements(b)
    <3>1. CASE i <= n
      BY <1>1, <1>6, <1>7, <3>1 DEF Elements
    <3>2. CASE i > n
      <4>1. i - n \in 1 .. Len(b) /\ n + (i - n) = i
        BY <1>1, <1>6, <1>8, <3>2
      <4>2. b[i - n] = tq[i]
        BY <1>10, <4>1
      <4> QED BY <4>1, <4>2 DEF Elements
    <3> QED BY <1>1, <1>6, <3>1, <3>2
  <2>2. Elements(a) \subseteq Elements(tq)
    BY <1>11 DEF Elements
  <2>3. Elements(b) \subseteq Elements(tq)
    <3> SUFFICES ASSUME NEW i \in 1 .. Len(b) PROVE b[i] \in Elements(tq)
      BY DEF Elements
    <3> QED BY <1>10 DEF Elements
  <2>4. Elements(tq) \subseteq Elements(a) \cup Elements(b)
    BY <2>1 DEF Elements
  <2> QED BY <2>2, <2>3, <2>4
<1>15. SortedBy(b, timeout)
  <2> SUFFICES ASSUME NEW i \in 1 .. Len(b), NEW j \in 1 .. Len(b), i < j
               PROVE  timeout[b[i]] < timeout[b[j]] + MSEC
    BY DEF SortedBy
  <2>1. n + i < n + j
    BY <1>1, <1>6, <1>8
  <2> QED BY <1>10, <2>1 DEF SortedBy, LoopInv
<1>16. ASSUME NEW t \in Elements(a) PROVE timeout[t] < now + MSEC
  BY <1>6, <1>7 DEF Elements
<1>17. ASSUME NEW t \in Elements(b) PROVE now <= timeout[t]
  <2>1. PICK j \in 1 .. Len(b) : t = b[j]
    BY DEF Elements
  <2>2. /\ n < m /\ n + 1 \in 1 .. Len(tq) /\ n + j \in 1 .. Len(tq) /\ t = tq[n + j]
        /\ (j = 1 \/ n + 1 < n + j)
    BY <1>1, <1>6, <1>8, <2>1
  <2>3. now + MSEC <= timeout[tq[n + 1]]
    BY <1>6, <2>2
  <2>4. j = 1 \/ timeout[tq[n + 1]] < timeout[t] + MSEC
    BY <2>2 DEF SortedBy, LoopInv
  <2>5. timeout[t] \in Nat /\ timeout[tq[n + 1]] \in Nat
    BY <1>3, <2>2
  <2> QED BY <1>3, <2>2, <2>3, <2>4, <2>5
<1>18. exptq = <<>> /\ used' = used /\ timeout' = timeout
  BY DEF AgeQueue, LoopInv, Places
<1>19. Elements(exptq) = {}
  BY <1>18 DEF Elements
<1>20. Lists'
  BY <1>9, <1>12, <1>13, <1>14, <1>18, <1>19 DEF Lists, LoopInv
<1> QED BY <1>7, <1>8, <1>9, <1>15, <1>16, <1>17, <1>18, <1>20

\* the times that the limiter keeps are moved down only when it is full
LEMMA stampIs ==
  ASSUME NEW r \in Seq(Nat), NEW s \in Seq(Nat), Remembers(r, s), now \in Nat
  PROVE  /\ stamp(r) \in Seq(Nat) /\ Append(s, now) \in Seq(Nat)
         /\ Remembers(stamp(r), Append(s, now))
<1>1. PICK m \in Nat, n \in Nat : Len(r) = m /\ Len(s) = n
  OBVIOUS
<1>2. RATELIMIT \in Nat \ {0} /\ m <= n /\ m <= RATELIMIT /\ (m < RATELIMIT => m = n)
  BY <1>1, LoopAssumption DEF Remembers
<1> DEFINE b == Append(s, now)
<1>3. b \in Seq(Nat) /\ Len(b) = n + 1 /\ b[n + 1] = now /\ \A i \in 1 .. n : b[i] = s[i]
  BY <1>1, AppendProperties
<1> HIDE DEF b
<1>4. CASE m < RATELIMIT
  <2> DEFINE a == Append(r, now)
  <2>1. a \in Seq(Nat) /\ Len(a) = m + 1 /\ a[m + 1] = now /\ \A i \in 1 .. m : a[i] = r[i]
    BY <1>1, AppendProperties
  <2>2. stamp(r) = a
    BY <1>1, <1>4 DEF stamp
  <2> HIDE DEF a
  <2>3. m = n /\ \A i \in 1 .. m : r[i] = s[i]
    <3>1. m = n
      BY <1>2, <1>4
    <3> QED BY <1>1, <3>1 DEF Remembers
  <2>4. \A i \in 1 .. m + 1 : a[i] = b[i]
    BY <1>1, <1>3, <2>1, <2>3
  <2>5. \A i \in 1 .. m + 1 : (n + 1) - (m + 1) + i = i
    BY <2>3
  <2>6. Remembers(a, b)
    BY <1>2, <1>3, <1>4, <2>1, <2>3, <2>4, <2>5 DEF Remembers
  <2> QED BY <1>3, <2>1, <2>2, <2>6 DEF b
<1>5. CASE m = RATELIMIT
  <2> DEFINE c == Tail(r)
             a == Append(c, now)
  <2>1. r # <<>>
    BY <1>1, <1>2, <1>5
  <2>2. c \in Seq(Nat) /\ Len(c) = m - 1 /\ \A i \in 1 .. m - 1 : c[i] = r[i + 1]
    BY <1>1, <2>1, HeadTailProperties
  <2>3. stamp(r) = a
    BY <1>1, <1>2, <1>5 DEF stamp
  <2> HIDE DEF c
  <2>4. a \in Seq(Nat) /\ Len(a) = m /\ a[m] = now /\ \A i \in 1 .. m - 1 : a[i] = c[i]
    <3>1. /\ a \in Seq(Nat) /\ Len(a) = Len(c) + 1 /\ a[Len(c) + 1] = now
          /\ \A i \in 1 .. Len(c) : a[i] = c[i]
      BY <2>2, AppendProperties
    <3>2. Len(c) = m - 1 /\ Len(c) + 1 = m
      BY <1>1, <2>2
    <3> QED BY <3>1, <3>2
  <2> HIDE DEF a
  <2>5. ASSUME NEW i \in 1 .. m PROVE a[i] = b[(n + 1) - m + i]
    <3>1. CASE i = m
      <4>1. (n + 1) - m + i = n + 1
        BY <1>1, <3>1
      <4> QED BY <1>3, <2>4, <3>1, <4>1
    <3>2. CASE i < m
      <4>1. i \in 1 .. m - 1 /\ i + 1 \in 1 .. m /\ n - m + (i + 1) \in 1 .. n
        BY <1>1, <1>2, <3>2
      <4>2. r[i + 1] = s[n - m + (i + 1)]
        BY <1>1, <4>1 DEF Remembers
      <4>3. n - m + (i + 1) = (n + 1) - m + i
        BY <1>1, <3>2
      <4> QED BY <1>3, <2>2, <2>4, <4>1, <4>2, <4>3
    <3> QED BY <1>1, <3>1, <3>2
  <2>6. Remembers(a, b)
    BY <1>1, <1>2, <1>3, <1>5, <2>4, <2>5 DEF Remembers
  <2> QED BY <1>3, <2>3, <2>4, <2>6 DEF b
<1> QED BY <1>1, <1>2, <1>4, <1>5

\* a message that is sent is a second after the one that many messages before it
LEMMA SendKeeps ==
  ASSUME LoopInv, NEW k \in Kind, Send(k)
  PROVE  /\ ratelimit' \in [Kind -> Seq(Nat)] /\ sent' \in [Kind -> Seq(Nat)]
         /\ Limits' /\ RateLimited'
<1>1. /\ now' = now /\ now \in Nat
      /\ ratelimit \in [Kind -> Seq(Nat)] /\ sent \in [Kind -> Seq(Nat)]
  BY DEF Send, Operation, LoopInv, TypeOK
<1>2. CASE UNCHANGED limit
  BY <1>1, <1>2 DEF limit, LoopInv, Limits, RateLimited
<1>3. CASE /\ ~(Len(ratelimit[k]) = RATELIMIT /\ timeval_diff(now, ratelimit[k][1]) < SECOND)
           /\ ratelimit' = [ratelimit EXCEPT ![k] = stamp(@)]
           /\ sent' = [sent EXCEPT ![k] = Append(@, now)]
  <2> DEFINE r == ratelimit[k]
             s == sent[k]
             b == Append(s, now)
  <2>1. PICK m \in Nat, n \in Nat : Len(r) = m /\ Len(s) = n
    BY <1>1
  <2>2. r \in Seq(Nat) /\ s \in Seq(Nat) /\ Remembers(r, s) /\ \A i \in 1 .. Len(s) : s[i] <= now
    BY <1>1 DEF LoopInv, Limits
  <2>3. stamp(r) \in Seq(Nat) /\ b \in Seq(Nat) /\ Remembers(stamp(r), b)
    BY <1>1, <2>2, stampIs
  <2>4. Len(b) = n + 1 /\ b[n + 1] = now /\ \A i \in 1 .. n : b[i] = s[i]
    BY <1>1, <2>1, <2>2, AppendProperties
  <2>5. /\ ratelimit' \in [Kind -> Seq(Nat)] /\ sent' \in [Kind -> Seq(Nat)]
        /\ ratelimit'[k] = stamp(r) /\ sent'[k] = b
        /\ \A j \in Kind : j # k => ratelimit'[j] = ratelimit[j] /\ sent'[j] = sent[j]
    <3> HIDE DEF b
    <3>1. sent' = [sent EXCEPT ![k] = b] /\ ratelimit' = [ratelimit EXCEPT ![k] = stamp(r)]
      BY <1>3 DEF b
    <3> QED BY <1>1, <2>3, <3>1
  <2> HIDE DEF b
  <2>6. \A i \in 1 .. Len(b) : b[i] <= now
    BY <1>1, <2>1, <2>2, <2>4
  <2>7. Limits'
    BY <1>1, <2>3, <2>5, <2>6 DEF LoopInv, Limits
  <2>8. ASSUME NEW i \in 1 .. Len(b) - RATELIMIT
        PROVE  b[i + RATELIMIT] - b[i] >= SECOND * MSEC
    <3>1. RATELIMIT \in Nat \ {0} /\ MSEC \in Nat \ {0} /\ SECOND \in Nat
      BY LoopAssumption
    <3>2. CASE i + RATELIMIT <= n
      <4>1. i \in 1 .. Len(s) - RATELIMIT /\ i \in 1 .. n /\ i + RATELIMIT \in 1 .. n
        BY <2>1, <2>4, <3>1, <3>2
      <4>2. s[i + RATELIMIT] - s[i] >= SECOND * MSEC
        BY <4>1 DEF LoopInv, RateLimited
      <4> QED BY <2>4, <4>1, <4>2
    <3>3. CASE i + RATELIMIT = n + 1
      <4>1. m = RATELIMIT /\ i = n - m + 1 /\ i \in 1 .. n /\ 1 \in 1 .. m
        <5>1. m <= RATELIMIT /\ (m < RATELIMIT => m = n)
          BY <2>1, <2>2 DEF Remembers
        <5>2. i \in Int /\ i >= 1
          BY <2>4, <3>1
        <5> QED BY <3>1, <3>3, <5>1, <5>2
      <4>2. r[1] = s[i]
        BY <2>1, <2>2, <4>1 DEF Remembers
      <4>3. s[i] \in Nat /\ s[i] <= now
        BY <2>1, <2>2, <4>1
      <4>4. ~(timeval_diff(now, s[i]) < SECOND)
        BY <1>3, <2>1, <4>1, <4>2
      <4>5. now - s[i] \in Nat /\ timeval_diff(now, s[i]) = (now - s[i]) \div MSEC
        BY <1>1, <4>3 DEF timeval_diff
      <4>6. (now - s[i]) \div MSEC \in Nat
        BY <3>1, <4>5, DivPositive
      <4>7. now - s[i] >= SECOND * MSEC
        BY <3>1, <4>4, <4>5, <4>6, DivBound
      <4>8. b[i + RATELIMIT] = now /\ b[i] = s[i]
        BY <2>4, <3>3, <4>1
      <4> QED BY <4>7, <4>8
    <3> QED BY <2>1, <2>4, <3>1, <3>2, <3>3
  <2>9. RateLimited'
    BY <2>5, <2>8 DEF LoopInv, RateLimited
  <2> QED BY <2>5, <2>7, <2>9
<1> QED BY <1>2, <1>3 DEF Send

-----------------------------------------------------------------------------
(***************************************************************************)
(* Every step keeps the invariant.                                         *)
(***************************************************************************)
LEMMA InitInv ==
  ASSUME Init
  PROVE  LoopInv
<1>1. TypeOK
  BY LoopAssumption DEF Init, TypeOK
<1>2. Elements(tq) = {} /\ Elements(exptq) = {}
  BY DEF Init, Elements
<1>3. Lists /\ SortedBy(tq, timeout)
  BY <1>2 DEF Init, Lists, Distinct, SortedBy
<1>4. Places /\ Passes
  BY <1>2, LoopAssumption DEF Init, Places, Passes
<1>5. ASSUME NEW k \in Kind
      PROVE  Len(ratelimit[k]) = 0 /\ Len(sent[k]) = 0
  BY DEF Init
<1>6. Limits
  <2>1. 0 <= 0 /\ 0 <= RATELIMIT /\ \A i \in 1 .. 0 : FALSE
    BY LoopAssumption
  <2>2. \A k \in Kind : Remembers(ratelimit[k], sent[k])
    BY <1>5, <2>1, Zenon DEF Remembers
  <2> QED BY <1>5, <2>2 DEF Limits
<1>7. RateLimited
  BY <1>5, LoopAssumption DEF RateLimited
<1> QED BY <1>1, <1>3, <1>4, <1>6, <1>7 DEF LoopInv

LEMMA AgeQueueInv ==
  ASSUME LoopInv, AgeQueue
  PROVE  LoopInv'
<1>1. TypeOK'
  BY AgeQueueKeeps DEF AgeQueue, limit, LoopInv, TypeOK
<1>2. Places'
  BY DEF AgeQueue, LoopInv, Places
<1>3. Passes'
  <2>1. now \in Nat /\ now' = now /\ aged' = now /\ timeout' = timeout /\ pc' = "expire"
    BY DEF AgeQueue, LoopInv, TypeOK
  <2> QED BY <2>1, AgeQueueKeeps DEF Passes
<1>4. Limits' /\ RateLimited'
  BY DEF AgeQueue, limit, LoopInv, Limits, RateLimited
<1> QED BY <1>1, <1>2, <1>3, <1>4, AgeQueueKeeps DEF LoopInv

LEMMA CallHandlerInv ==
  ASSUME LoopInv, CallHandler
  PROVE  LoopInv'
<1> DEFINE t == Head(exptq)
<1>1. exptq \in Seq(Timer) /\ exptq # <<>> /\ exptq' = Tail(exptq)
  BY DEF CallHandler, LoopInv, TypeOK
<1>2. PICK n \in Nat : Len(exptq) = n
  BY <1>1
<1>3. n > 0 /\ t = exptq[1] /\ t \in Timer
  BY <1>1, <1>2
<1>4. /\ exptq' \in Seq(Timer) /\ Len(exptq') = n - 1
      /\ \A i \in 1 .. n - 1 : exptq'[i] = exptq[i + 1]
  BY <1>1, <1>2, HeadTailProperties
<1>5. /\ used' \in [Timer -> BOOLEAN] /\ ~ used'[t]
      /\ \A u \in Timer : u # t => used'[u] = used[u]
  BY <1>3, Zenon DEF CallHandler, LoopInv, TypeOK
<1>6. Distinct(exptq')
  <2> SUFFICES ASSUME NEW i \in 1 .. n - 1, NEW j \in 1 .. n - 1, exptq'[i] = exptq'[j]
               PROVE  i = j
    BY <1>4 DEF Distinct
  <2>1. i + 1 \in 1 .. Len(exptq) /\ j + 1 \in 1 .. Len(exptq) /\ exptq[i + 1] = exptq[j + 1]
    BY <1>2, <1>4
  <2>2. i + 1 = j + 1
    BY <2>1 DEF LoopInv, Lists, Distinct
  <2> QED BY <2>2
<1>7. Elements(exptq') = Elements(exptq) \ {t}
  <2>1. ASSUME NEW i \in 1 .. n - 1 PROVE exptq'[i] \in Elements(exptq) \ {t}
    <3>1. i + 1 \in 1 .. Len(exptq) /\ 1 \in 1 .. Len(exptq) /\ i + 1 # 1
      BY <1>2
    <3>2. exptq[i + 1] # exptq[1]
      BY <3>1 DEF LoopInv, Lists, Distinct
    <3> QED BY <1>3, <1>4, <3>1, <3>2 DEF Elements
  <2>2. ASSUME NEW i \in 1 .. n, exptq[i] # t PROVE exptq[i] \in Elements(exptq')
    <3>1. i - 1 \in 1 .. n - 1 /\ (i - 1) + 1 = i
      BY <1>2, <1>3, <2>2
    <3>2. exptq'[i - 1] = exptq[i]
      BY <1>4, <3>1
    <3> QED BY <1>4, <3>1, <3>2 DEF Elements
  <2> QED BY <1>2, <1>4, <2>1, <2>2 DEF Elements
<1> HIDE DEF t
<1>8. tq' = tq /\ t \in Elements(exptq)
  BY <1>2, <1>3 DEF CallHandler, Elements
<1>9. Lists'
  BY <1>5, <1>6, <1>7, <1>8 DEF LoopInv, Lists
<1>10. TypeOK' /\ running' = t
  BY <1>3, <1>4, <1>5 DEF CallHandler, call, limit, LoopInv, TypeOK, t
<1>11. Places'
  BY DEF CallHandler, Places
<1>12. SortedBy(tq, timeout)' /\ Limits' /\ RateLimited'
  BY DEF CallHandler, limit, LoopInv, Limits, RateLimited
<1>13. Passes'
  BY <1>7, <1>8 DEF CallHandler, call, LoopInv, Passes
<1> QED BY <1>9, <1>10, <1>11, <1>12, <1>13 DEF LoopInv

LEMMA CallSelectInv ==
  ASSUME LoopInv, CallSelect
  PROVE  LoopInv'
<1>1. time_left \in Nat \cup {NULL}
  <2>1. CASE tq = <<>>
    BY <2>1 DEF time_left
  <2>2. CASE tq # <<>>
    <3>1. Head(tq) \in Timer /\ Head(tq) \in Elements(tq)
      BY <2>2 DEF Elements, LoopInv, TypeOK
    <3>2. aged \in Nat /\ timeout[Head(tq)] \in Nat /\ aged <= timeout[Head(tq)]
      BY <3>1 DEF CallSelect, LoopInv, TypeOK, Passes
    <3> QED BY <2>2, <3>2 DEF time_left
  <2> QED BY <2>1, <2>2
<1>2. TypeOK'
  BY <1>1 DEF CallSelect, queue, limit, LoopInv, TypeOK
<1>3. Lists' /\ SortedBy(tq, timeout)' /\ Limits' /\ RateLimited'
  BY DEF CallSelect, queue, limit, LoopInv, Lists, Limits, RateLimited
<1>4. Places'
  BY DEF CallSelect, queue, LoopInv, Places
<1>5. Passes'
  BY DEF CallSelect, queue, LoopInv, Passes, time_left
<1> QED BY <1>2, <1>3, <1>4, <1>5 DEF LoopInv

LEMMA SelectReturnsInv ==
  ASSUME LoopInv, SelectReturns, pc' \in {"age", "callback"}, ops' \in 0 .. OpBound
  PROVE  LoopInv'
<1>1. TypeOK'
  BY DEF SelectReturns, queue, limit, LoopInv, TypeOK
<1>2. Lists' /\ SortedBy(tq, timeout)' /\ Limits' /\ RateLimited'
  BY DEF SelectReturns, queue, limit, LoopInv, Lists, Limits, RateLimited
<1>3. Places'
  BY DEF SelectReturns, queue, LoopInv, Places
<1>4. exptq' = <<>>
  BY DEF SelectReturns, queue, LoopInv, Places
<1>5. Passes'
  BY <1>4 DEF SelectReturns, queue, LoopInv, TypeOK, Passes, Elements
<1> QED BY <1>1, <1>2, <1>3, <1>5 DEF LoopInv

\* an operation leaves the loop where it is
LEMMA OperationIs ==
  ASSUME LoopInv, Operation
  PROVE  /\ ops' \in 0 .. OpBound /\ pc \in {"handler", "callback"}
         /\ UNCHANGED <<now, pc, running, aged, entered, remaining>>
BY LoopAssumption DEF Operation, call, LoopInv, TypeOK

LEMMA SetTimeoutInv ==
  ASSUME LoopInv, NEW t \in Timer, NEW msec \in Msecs, SetTimeout(t, msec)
  PROVE  LoopInv'
<1>1. /\ ops' \in 0 .. OpBound /\ pc \in {"handler", "callback"}
      /\ UNCHANGED <<now, pc, running, aged, entered, remaining>>
  BY OperationIs DEF SetTimeout
<1>2. timer_set_timeout(t, msec) /\ UNCHANGED <<ratelimit, sent>>
  BY DEF SetTimeout, limit
<1>3. TypeOK'
  BY <1>1, <1>2, timer_set_timeoutKeeps DEF LoopInv, TypeOK
<1>4. Places'
  BY <1>1, <1>2, timer_set_timeoutKeeps DEF LoopInv, Places
<1>5. Limits' /\ RateLimited'
  BY <1>1, <1>2 DEF LoopInv, Limits, RateLimited
<1>6. Passes'
  <2>1. /\ aged' = aged /\ now' = now /\ pc' = pc /\ pc # "select"
        /\ aged \in Nat /\ now \in Nat /\ aged <= now /\ timeout \in [Timer -> Nat]
    BY <1>1 DEF LoopInv, TypeOK, Passes
  <2>2. ASSUME NEW u \in Elements(exptq)' PROVE timeout'[u] < aged' + MSEC
    <3>1. u \in Elements(exptq) /\ u # t
      BY <1>2, timer_set_timeoutKeeps
    <3>2. u \in Timer
      BY <3>1 DEF Elements, LoopInv, TypeOK
    <3> QED BY <1>2, <2>1, <3>1, <3>2, timer_set_timeoutKeeps DEF LoopInv, Passes
  <2>3. ASSUME pc \in {"expire", "handler", "select"}, NEW u \in Elements(tq)'
        PROVE  aged' <= timeout'[u]
    <3>1. CASE u = t
      <4>1. timeout'[t] \in Nat /\ timeout'[t] >= now
        BY <1>2, timer_set_timeoutKeeps
      <4> QED BY <2>1, <3>1, <4>1
    <3>2. CASE u # t
      <4>1. u \in Elements(tq)
        BY <1>2, <3>2, timer_set_timeoutKeeps
      <4>2. u \in Timer
        BY <4>1 DEF Elements, LoopInv, TypeOK
      <4>3. timeout'[u] = timeout[u]
        BY <1>2, <3>2, <4>2, timer_set_timeoutKeeps
      <4> QED BY <2>1, <2>3, <4>1, <4>3 DEF LoopInv, Passes
    <3> QED BY <3>1, <3>2
  <2> QED BY <2>1, <2>2, <2>3 DEF Passes
<1> QED BY <1>2, <1>3, <1>4, <1>5, <1>6, timer_set_timeoutKeeps DEF LoopInv

LEMMA RemoveTimerInv ==
  ASSUME LoopInv, NEW t \in Timer, RemoveTimer(t)
  PROVE  LoopInv'
<1>1. /\ ops' \in 0 .. OpBound /\ pc \in {"handler", "callback"}
      /\ UNCHANGED <<now, pc, running, aged, entered, remaining>>
  BY OperationIs DEF RemoveTimer
<1>2. timer_remove(t) /\ UNCHANGED <<ratelimit, sent>>
  BY DEF RemoveTimer, limit
<1>3. TypeOK'
  BY <1>1, <1>2, timer_removeKeeps DEF LoopInv, TypeOK
<1>4. Places'
  BY <1>1, <1>2, timer_removeKeeps DEF LoopInv, Places
<1>5. Limits' /\ RateLimited'
  BY <1>1, <1>2 DEF LoopInv, Limits, RateLimited
<1>6. Passes'
  BY <1>1, <1>2, timer_removeKeeps DEF LoopInv, Passes
<1> QED BY <1>2, <1>3, <1>4, <1>5, <1>6, timer_removeKeeps DEF LoopInv

LEMMA SendInv ==
  ASSUME LoopInv, NEW k \in Kind, Send(k)
  PROVE  LoopInv'
<1>1. /\ ops' \in 0 .. OpBound
      /\ UNCHANGED <<now, pc, running, aged, entered, remaining>>
      /\ UNCHANGED <<tq, exptq, timeout, used>>
  BY OperationIs DEF Send, queue
<1>2. TypeOK'
  BY <1>1, SendKeeps DEF LoopInv, TypeOK
<1>3. Lists' /\ SortedBy(tq, timeout)' /\ Places' /\ Passes'
  BY <1>1 DEF LoopInv, Lists, Places, Passes, time_left
<1> QED BY <1>2, <1>3, SendKeeps DEF LoopInv

LEMMA ReturnInv ==
  ASSUME LoopInv, Return
  PROVE  LoopInv'
<1>1. /\ UNCHANGED <<now, tq, exptq, timeout, used, aged, entered, remaining>>
      /\ UNCHANGED <<ratelimit, sent, ops>> /\ running' = NULL
      /\ \/ pc = "handler" /\ pc' = "expire"
         \/ pc = "callback" /\ pc' = "age"
  BY DEF Return, queue, call, limit
<1>2. TypeOK' /\ Limits' /\ RateLimited'
  BY <1>1 DEF LoopInv, TypeOK, Limits, RateLimited
<1>3. Lists' /\ SortedBy(tq, timeout)' /\ Places' /\ Passes'
  BY <1>1 DEF LoopInv, Lists, Places, Passes
<1> QED BY <1>2, <1>3 DEF LoopInv

LEMMA TickInv ==
  ASSUME LoopInv, Tick
  PROVE  LoopInv'
<1>1. /\ UNCHANGED <<tq, exptq, timeout, used, aged, entered, remaining>>
      /\ UNCHANGED <<ratelimit, sent, ops, running, pc>>
      /\ now \in Nat /\ now' = now + 1
  BY DEF Tick, queue, call, limit, LoopInv, TypeOK
<1>2. TypeOK' /\ RateLimited'
  BY <1>1 DEF LoopInv, TypeOK, RateLimited
<1>3. Limits'
  <2>1. \A k \in Kind : \A i \in 1 .. Len(sent[k]) : sent[k][i] \in Nat
    BY DEF LoopInv, TypeOK
  <2> QED BY <1>1, <2>1 DEF LoopInv, Limits
<1>4. Lists' /\ SortedBy(tq, timeout)' /\ Places'
  BY <1>1 DEF LoopInv, Lists, Places
<1>5. Passes'
  BY <1>1 DEF LoopInv, TypeOK, Passes, time_left
<1> QED BY <1>2, <1>3, <1>4, <1>5 DEF LoopInv

LEMMA NextInv ==
  ASSUME LoopInv, [Next]_vars
  PROVE  LoopInv'
<1>1. CASE AgeQueue
  BY <1>1, AgeQueueInv
<1>2. CASE CallHandler
  BY <1>2, CallHandlerInv
<1>3. CASE CallSelect
  BY <1>3, CallSelectInv
<1>4. CASE SelectTimeout
  <2>1. pc' = "age" /\ ops' \in 0 .. OpBound /\ SelectReturns
    BY <1>4 DEF SelectTimeout, LoopInv, TypeOK
  <2> QED BY <2>1, SelectReturnsInv
<1>5. CASE SelectReadable
  <2>1. pc' = "callback" /\ ops' \in 0 .. OpBound /\ SelectReturns
    BY <1>5, LoopAssumption DEF SelectReadable, LoopInv, TypeOK
  <2> QED BY <2>1, SelectReturnsInv
<1>6. CASE Return
  BY <1>6, ReturnInv
<1>7. CASE Tick
  BY <1>7, TickInv
<1>8. CASE \E t \in Timer : RemoveTimer(t) \/ \E msec \in Msecs : SetTimeout(t, msec)
  BY <1>8, RemoveTimerInv, SetTimeoutInv
<1>9. CASE \E k \in Kind : Send(k)
  BY <1>9, SendInv
<1>10. CASE UNCHANGED vars
  BY <1>10 DEF vars, queue, call, limit, LoopInv, TypeOK, Lists, Places, Passes, time_left,
               Limits, RateLimited
<1> QED BY <1>1, <1>2, <1>3, <1>4, <1>5, <1>6, <1>7, <1>8, <1>9, <1>10 DEF Next, Loop

-----------------------------------------------------------------------------
(***************************************************************************)
(* The theorems.                                                           *)
(***************************************************************************)
\* Every reachable state satisfies the inductive invariant.
THEOREM Invariance == Spec => []LoopInv
<1>1. Init => LoopInv
  BY InitInv
<1>2. LoopInv /\ [Next]_vars => LoopInv'
  BY NextInv
<1> QED BY <1>1, <1>2, PTL DEF Spec

\* Every variable keeps its type, and no timeout, nor the one that select is given,
\* is negative, for every set of timers and delays.
THEOREM TypeCorrect == Spec => []TypeOK
<1>1. LoopInv => TypeOK
  BY DEF LoopInv
<1> QED BY <1>1, Invariance, PTL

\* The used flag and the links of the two lists agree, whatever the handlers set and
\* remove while timer_timeout walks its private list.
THEOREM ListsAreLinked == Spec => []Linked
<1>1. LoopInv => Linked
  BY ListsLinked DEF LoopInv
<1> QED BY <1>1, Invariance, PTL

\* The queue is sorted up to the resolution of timeval_diff, which timer_add compares
\* with, and does not get worse with the number of timers.
THEOREM QueueIsSorted == Spec => []NearlySorted
<1>1. LoopInv => NearlySorted
  BY DEF LoopInv, NearlySorted, SortedBy
<1> QED BY <1>1, Invariance, PTL

\* In every pass of the loop, the timeout of select ends before any timer that is set
\* is late by a millisecond, counted from when timer_age_queue began.
THEOREM SelectIsPunctual == Spec => []Punctual
<1>1. ASSUME LoopInv PROVE Punctual
  <2> SUFFICES ASSUME pc = "select", NEW t \in Timer, used[t]
               PROVE  remaining # NULL /\ remaining >= 0 /\ aged + remaining < timeout[t] + MSEC
    BY DEF Punctual
  <2>1. exptq = <<>> /\ remaining = time_left
    BY <1>1 DEF LoopInv, Places, Passes
  <2>2. Elements(exptq) = {}
    BY <2>1 DEF Elements
  <2>3. t \in Elements(tq)
    BY <1>1, <2>2 DEF LoopInv, Lists
  <2>4. PICK n \in Nat : Len(tq) = n
    BY <1>1 DEF LoopInv, TypeOK
  <2>5. PICK j \in 1 .. Len(tq) : t = tq[j]
    BY <2>3 DEF Elements
  <2>6. tq # <<>> /\ 1 \in 1 .. Len(tq) /\ Head(tq) = tq[1] /\ tq[1] \in Timer
    BY <1>1, <2>4, <2>5 DEF LoopInv, TypeOK
  <2>7. aged \in Nat /\ timeout[tq[1]] \in Nat /\ timeout[t] \in Nat /\ MSEC \in Nat \ {0}
    BY <1>1, <2>6, LoopAssumption DEF LoopInv, TypeOK
  <2>8. aged <= timeout[tq[1]]
    BY <1>1, <2>6 DEF LoopInv, Passes, Elements
  <2>9. timeout[tq[1]] < timeout[t] + MSEC
    <3>1. CASE j = 1
      BY <2>5, <2>7, <3>1
    <3>2. CASE 1 < j
      BY <1>1, <2>5, <2>6, <3>2 DEF LoopInv, SortedBy
    <3> QED BY <2>4, <3>1, <3>2
  <2>10. remaining = timeout[tq[1]] - aged
    BY <2>1, <2>6 DEF time_left
  <2>11. remaining \in Nat /\ aged + remaining = timeout[tq[1]]
    BY <2>7, <2>8, <2>10
  <2> QED BY <2>9, <2>11, LoopAssumption
<1> QED BY <1>1, Invariance, PTL

\* aodv_socket_send sends no RATELIMIT + 1 messages of a kind within a second.
THEOREM SendIsLimited == Spec => []RateLimited
<1>1. LoopInv => RateLimited
  BY DEF LoopInv
<1> QED BY <1>1, Invariance, PTL

-----------------------------------------------------------------------------
(***************************************************************************)
(* The loop implements Timers.                                             *)
(***************************************************************************)
due == [t \in Timer |-> IF used[t] THEN timeout[t] ELSE NULL]

\* a step that keeps the used flags and the times of the timers is one of no timer
LEMMA SameDue ==
  ASSUME UNCHANGED <<used, timeout>>
  PROVE  due' = due
BY DEF due

\* timer_remove, or a negative delay, cancels the timer
LEMMA CancelsDue ==
  ASSUME LoopInv, NEW t \in Timer, ~ used'[t],
         \A u \in Timer : u # t => used'[u] = used[u] /\ timeout'[u] = timeout[u]
  PROVE  due' = [due EXCEPT ![t] = NULL]
BY DEF due

\* timer_set_timeout with a delay sets the timer
LEMMA SetsDue ==
  ASSUME LoopInv, NEW t \in Timer, used'[t], NEW at, timeout'[t] = at,
         \A u \in Timer : u # t => used'[u] = used[u] /\ timeout'[u] = timeout[u]
  PROVE  due' = [due EXCEPT ![t] = at]
BY DEF due

\* every step of the loop is a step of Timers, or none
LEMMA StepImplements ==
  ASSUME LoopInv, [Next]_vars
  PROVE  [Abstract!Next]_(Abstract!vars)
<1> USE DEF Abstract!vars, due
<1>1. CASE AgeQueue \/ CallSelect \/ SelectTimeout \/ SelectReadable \/ UNCHANGED vars
  <2>1. UNCHANGED <<now, used, timeout, running>>
    BY <1>1 DEF AgeQueue, CallSelect, SelectTimeout, SelectReadable, SelectReturns, vars, queue
  <2> QED BY <2>1
<1>2. CASE CallHandler
  <2> DEFINE t == Head(exptq)
  <2>1. t \in Timer /\ t \in Elements(exptq)
    BY <1>2 DEF CallHandler, LoopInv, TypeOK, Elements
  <2>2. used[t] /\ timeout[t] < aged + MSEC /\ aged <= now
    BY <2>1 DEF LoopInv, Lists, Passes
  <2>3. timeout[t] \in Nat /\ aged \in Nat /\ now \in Nat /\ MSEC \in Nat
    BY <2>1, LoopAssumption DEF LoopInv, TypeOK
  <2>4. due[t] # NULL /\ due[t] < now + MSEC
    BY <2>1, <2>2, <2>3, LoopAssumption
  <2>5. due' = [due EXCEPT ![t] = NULL]
    <3>1. ~ used'[t] /\ \A u \in Timer : u # t => used'[u] = used[u]
      BY <1>2, <2>1, Zenon DEF CallHandler, LoopInv, TypeOK
    <3>2. timeout' = timeout
      BY <1>2 DEF CallHandler
    <3> HIDE DEF due, t
    <3> QED BY <2>1, <3>1, <3>2, CancelsDue
  <2>6. running = NULL /\ running' = t /\ now' = now
    BY <1>2 DEF CallHandler, LoopInv, Places
  <2> HIDE DEF t
  <2> QED BY <2>1, <2>4, <2>5, <2>6 DEF Abstract!Fire, Abstract!Next
<1>3. CASE Return
  <2>1. UNCHANGED <<now, used, timeout>> /\ running' = NULL
    BY <1>3 DEF Return, queue
  <2> QED BY <2>1 DEF Abstract!Return, Abstract!Next
<1>4. CASE Tick
  <2>1. UNCHANGED <<running, used, timeout>> /\ now' = now + 1
    BY <1>4 DEF Tick, queue
  <2> QED BY <2>1 DEF Abstract!Tick, Abstract!Next
<1>5. ASSUME NEW t \in Timer, RemoveTimer(t)
      PROVE  Abstract!Next
  <2>1. UNCHANGED <<now, running, timeout>>
    BY <1>5 DEF RemoveTimer, Operation, timer_remove
  <2>2. ~ used'[t] /\ \A u \in Timer : u # t => used'[u] = used[u]
    BY <1>5, Zenon DEF RemoveTimer, timer_remove, LoopInv, TypeOK
  <2>3. due' = [due EXCEPT ![t] = NULL]
    <3> HIDE DEF due
    <3> QED BY <2>1, <2>2, CancelsDue
  <2> QED BY <2>1, <2>3 DEF Abstract!Cancel, Abstract!Next
<1>6. ASSUME NEW t \in Timer, NEW msec \in Msecs, SetTimeout(t, msec)
      PROVE  Abstract!Next
  <2>1. UNCHANGED <<now, running>> /\ timer_set_timeout(t, msec) /\ msec \in Int
    BY <1>6, LoopAssumption DEF SetTimeout, Operation
  <2>2. /\ \A u \in Timer : u # t => timeout'[u] = timeout[u] /\ used'[u] = used[u]
        /\ (used'[t] <=> msec >= 0)
        /\ msec >= 0 => timeout'[t] = now + msec * MSEC
    BY <2>1, timer_set_timeoutKeeps
  <2>3. CASE msec < 0
    <3>1. due' = [due EXCEPT ![t] = NULL]
      <4> HIDE DEF due
      <4> QED BY <2>1, <2>2, <2>3, CancelsDue
    <3> QED BY <2>1, <3>1 DEF Abstract!Cancel, Abstract!Next
  <2>4. CASE msec >= 0
    <3> DEFINE delay == msec * MSEC
    <3>1. delay \in {m * MSEC : m \in Msecs \cap Nat}
      BY <2>1, <2>4
    <3>2. used'[t] /\ timeout'[t] = now + delay
      BY <2>2, <2>4
    <3> HIDE DEF delay
    <3>3. due' = [due EXCEPT ![t] = now + delay]
      <4> HIDE DEF due
      <4> QED BY <2>2, <3>2, SetsDue
    <3> QED BY <2>1, <3>1, <3>3 DEF Abstract!Set, Abstract!Next
  <2> QED BY <2>1, <2>3, <2>4
<1>7. ASSUME NEW k \in Kind, Send(k)
      PROVE  UNCHANGED <<now, used, timeout, running>>
  BY <1>7 DEF Send, Operation, queue
<1> QED BY <1>1, <1>2, <1>3, <1>4, <1>5, <1>6, <1>7 DEF Next, Loop

\* The loop implements the safety part of Timers: a handler is called only for a timer
\* that is set, when it is due, and once, although timer_timeout takes several out
\* together and the handlers before it may set or remove any of them.
THEOREM Refinement == Spec => Abstract!Spec
<1>1. Init => Abstract!Init
  BY DEF Init, Abstract!Init
<1>2. LoopInv /\ [Next]_vars => [Abstract!Next]_(Abstract!vars)
  BY StepImplements
<1> QED BY <1>1, <1>2, Invariance, PTL DEF Spec, Abstract!Spec
=============================================================================
