--------------------------- MODULE TimeoutListProofs ---------------------------
(***************************************************************************)
(* Proofs about TimeoutList, for any timers and periods.  NoTimerIsLost    *)
(* does not hold of the program; what is proved is that the interruptions  *)
(* the core lock would exclude are the only reason: in every execution in  *)
(* which nobody comes to the list while another task is at work on it,     *)
(* no timer is lost or put off, the list stays in the order of its times,  *)
(* and the pool never runs out.                                            *)
(***************************************************************************)
EXTENDS TimeoutList, FiniteSetTheorems, SequenceTheorems, WellFoundedInduction, TLAPS

TimersAssumption ==
    /\ IsFiniteSet(Timers) /\ Sntp \in Timers
    /\ Period \in [Timers -> Nat]
    /\ None \notin Cells

N == Cardinality(Timers)

\* tcpip_thread and networkTask begin to work on the list only while no other task is
\* in the middle of it, as they would if each took the core lock.
CoreLocked == TcpipThread \/ NetReads => net = "idle" /\ mqtt \notin {"search", "link"}

\* The timeouts on the list are in the order of their times, on which sys_timeout_abs
\* and sys_check_timeouts rely.
InDueOrder ==
    \A k \in Nat : Walk(head, next)[k + 1] # None =>
        due[Walk(head, next)[k]] <= due[Walk(head, next)[k + 1]]

\* A timeout on the list is due within the period of its timer: it is never put off.
DueInTime ==
    \A c \in OnList(head, next) : due[c] <= now + Period[timer[c]]

\* sys_timeout_abs finds a free member in the pool (timeouts.c:188).
PoolSuffices == net = "call" \/ mqtt = "before" => free # <<>>

-----------------------------------------------------------------------------
(***************************************************************************)
(* Linked lists: h and n are the head and the links of the list s of m     *)
(* cells, no cell twice.                                                   *)
(***************************************************************************)
Chain(h, n, m, s) ==
    /\ s \in [1 .. m -> Cells]
    /\ \A i, j \in 1 .. m : s[i] = s[j] => i = j
    /\ h = IF m = 0 THEN None ELSE s[1]
    /\ \A i \in 1 .. m : n[s[i]] = IF i = m THEN None ELSE s[i + 1]

Members(m, s) == {s[i] : i \in 1 .. m}

Sorted(d, m, s) == \A i, j \in 1 .. m : i < j => d[s[i]] <= d[s[j]]

\* The list with c behind its k-th member.
Put(m, s, k, c) ==
    [i \in 1 .. m + 1 |-> IF i <= k THEN s[i] ELSE IF i = k + 1 THEN c ELSE s[i - 1]]

LEMMA Numbers ==
    ASSUME TimersAssumption
    PROVE  N \in Nat /\ N >= 1 /\ Cells = 1 .. N /\ Cardinality(Cells) = N
<1>1. N \in Nat
  BY FS_CardinalityType DEF TimersAssumption, N
<1>2. N # 0
  BY FS_EmptySet DEF TimersAssumption, N
<1>3. Cells = 1 .. N /\ Cardinality(Cells) = N
  BY <1>1, <1>2, FS_Interval DEF Cells, N
<1> QED
  BY <1>1, <1>2, <1>3

\* Walk comes to the k-th member after k - 1 steps, and then to NULL.
LEMMA WalkIs ==
    ASSUME TimersAssumption, NEW h, NEW n, NEW m \in Nat, NEW s, Chain(h, n, m, s)
    PROVE  Walk(h, n) = [k \in Nat |-> IF k < m THEN s[k + 1] ELSE None]
<1> DEFINE W == [k \in Nat |-> IF k < m THEN s[k + 1] ELSE None]
           Step(g) == [k \in Nat |-> IF k = 0 THEN h
                                     ELSE IF g[k - 1] = None THEN None ELSE n[g[k - 1]]]
           at == CHOOSE g : g = Step(g)
<1>1. W = Step(W)
  <2>1. ASSUME NEW k \in Nat
        PROVE  W[k] = IF k = 0 THEN h ELSE IF W[k - 1] = None THEN None ELSE n[W[k - 1]]
    <3>1. CASE k = 0
      BY <3>1 DEF Chain
    <3>2. CASE k # 0 /\ k - 1 < m
      <4>1. k - 1 \in Nat /\ k \in 1 .. m /\ (k - 1) + 1 = k
        BY <3>2
      <4>2. W[k - 1] = s[k] /\ s[k] # None
        BY <3>2, <4>1 DEF Chain, TimersAssumption
      <4>3. n[s[k]] = IF k = m THEN None ELSE s[k + 1]
        BY <4>1 DEF Chain
      <4> QED
        BY <3>2, <4>1, <4>2, <4>3
    <3>3. CASE k # 0 /\ ~(k - 1 < m)
      <4>1. k - 1 \in Nat
        BY <3>3
      <4> QED
        BY <3>3, <4>1
    <3> QED
      BY <3>1, <3>2, <3>3
  <2> QED
    BY <2>1
<1>2. at = Step(at)
  BY <1>1
<1>3. Walk(h, n) = at
  BY DEF Walk
<1> DEFINE Less == {ss \in Nat \X Nat : ss[1] < ss[2]}
           Bad == {k \in Nat : at[k] # W[k]}
<1> HIDE DEF at
<1>4. ASSUME Bad # {} PROVE FALSE
  <2>1. IsWellFoundedOn(Less, Nat)
    BY NatLessThanWellFounded DEF OpToRel
  <2>2. Bad \subseteq Nat
    OBVIOUS
  <2> HIDE DEF Less
  <2>3. PICK k \in Bad : \A j \in Bad : <<j, k>> \notin Less
    BY <1>4, <2>1, <2>2, WFMin
  <2>4. k \in Nat /\ at[k] # W[k]
    BY <2>3
  <2>5. at[k] = IF k = 0 THEN h ELSE IF at[k - 1] = None THEN None ELSE n[at[k - 1]]
    BY <1>2, <2>4
  <2>6. W[k] = IF k = 0 THEN h ELSE IF W[k - 1] = None THEN None ELSE n[W[k - 1]]
    BY <1>1, <2>4
  <2>7. k # 0 /\ at[k - 1] # W[k - 1]
    BY <2>4, <2>5, <2>6
  <2>8. k - 1 \in Nat /\ k - 1 < k
    BY <2>4, <2>7
  <2>9. k - 1 \in Bad /\ <<k - 1, k>> \in Less
    BY <2>4, <2>7, <2>8 DEF Less
  <2> QED
    BY <2>3, <2>9
<1>5. at = [k \in Nat |-> at[k]]
  BY <1>2
<1>6. at = W
  BY <1>4, <1>5
<1> QED
  BY <1>3, <1>6

\* What is on the list is what its chain holds.
LEMMA OnListIs ==
    ASSUME TimersAssumption, NEW h, NEW n, NEW m \in 0 .. N, NEW s, Chain(h, n, m, s)
    PROVE  OnList(h, n) = {s[i] : i \in 1 .. m}
<1>1. N \in Nat /\ Cardinality(Cells) = N /\ m \in Nat
  BY Numbers
<1>2. Walk(h, n) = [k \in Nat |-> IF k < m THEN s[k + 1] ELSE None]
  BY <1>1, WalkIs
<1>3. OnList(h, n) = {Walk(h, n)[k] : k \in 0 .. N} \ {None}
  BY <1>1 DEF OnList
<1>4. \A i \in 1 .. m : s[i] \in Cells /\ s[i] # None
  BY DEF Chain, TimersAssumption
<1>5. ASSUME NEW k \in 0 .. N, Walk(h, n)[k] # None
      PROVE  \E i \in 1 .. m : Walk(h, n)[k] = s[i]
  <2>1. k \in Nat /\ k < m /\ k + 1 \in 1 .. m /\ Walk(h, n)[k] = s[k + 1]
    BY <1>1, <1>2, <1>5
  <2> QED
    BY <2>1
<1>6. ASSUME NEW i \in 1 .. m PROVE i - 1 \in 0 .. N /\ Walk(h, n)[i - 1] = s[i]
  BY <1>1, <1>2
<1> QED
  BY <1>3, <1>4, <1>5, <1>6

LEMMA LastElement ==
    ASSUME NEW M \in Nat, NEW T \in SUBSET (0 .. M), T # {}
    PROVE  \E x \in T : \A y \in T : y <= x
<1> DEFINE Less == {ss \in Nat \X Nat : ss[1] < ss[2]}
           Back == {y \in 0 .. M : M - y \in T}
<1>1. IsWellFoundedOn(Less, Nat)
  BY NatLessThanWellFounded DEF OpToRel
<1> HIDE DEF Less
<1>2. \A y \in T : M - y \in Back /\ M - y \in Nat
  <2>1. ASSUME NEW y \in T PROVE M - y \in 0 .. M /\ M - (M - y) = y
    OBVIOUS
  <2> QED
    BY <2>1
<1>3. Back \subseteq Nat /\ Back # {}
  <2>1. PICK y \in T : TRUE
    OBVIOUS
  <2>2. M - y \in Back
    BY <1>2
  <2>3. Back \subseteq Nat
    OBVIOUS
  <2> HIDE DEF Back
  <2> QED
    BY <2>2, <2>3
<1> HIDE DEF Back
<1>4. PICK x \in Back : \A y \in Back : <<y, x>> \notin Less
  BY <1>1, <1>3, WFMin
<1>5. x \in 0 .. M /\ M - x \in T
  BY <1>4 DEF Back
<1>6. ASSUME NEW y \in T PROVE y <= M - x
  <2>1. <<M - y, x>> \in Less <=> M - y < x
    BY <1>2, <1>5 DEF Less
  <2>2. y \in 0 .. M
    OBVIOUS
  <2> QED
    BY <1>2, <1>4, <1>5, <2>1, <2>2
<1> QED
  BY <1>5, <1>6

\* b is the member of the list behind which a timeout of that time goes: the k-th, or
\* None for the head.
Fits(m, s, d, time, k, b) ==
    /\ b = IF k = 0 THEN None ELSE s[k]
    /\ \A i \in 1 .. m : IF i <= k THEN d[s[i]] <= time ELSE time < d[s[i]]

LEMMA BeforeFits ==
    ASSUME TimersAssumption, NEW h, NEW n, NEW m \in 0 .. N, NEW s, Chain(h, n, m, s),
           NEW d \in [Cells -> Int], Sorted(d, m, s), NEW time \in Int
    PROVE  \E k \in 0 .. m : Fits(m, s, d, time, k, Before(h, n, d, time))
<1> DEFINE earlier == {k \in 0 .. Cardinality(Cells) - 1 :
                          \A j \in 0 .. k :
                             Walk(h, n)[j] # None /\ d[Walk(h, n)[j]] <= time}
           last == CHOOSE k \in earlier : \A j \in earlier : j <= k
<1>1. N \in Nat /\ N >= 1 /\ Cardinality(Cells) = N /\ m \in Nat
  BY Numbers
<1>2. Walk(h, n) = [k \in Nat |-> IF k < m THEN s[k + 1] ELSE None]
  BY <1>1, WalkIs
<1>3. \A i \in 1 .. m : s[i] \in Cells /\ s[i] # None /\ d[s[i]] \in Int
  BY DEF Chain, TimersAssumption
<1>4. ASSUME NEW i \in 1 .. m
      PROVE  i - 1 \in earlier <=> d[s[i]] <= time
  <2>1. i - 1 \in 0 .. Cardinality(Cells) - 1 /\ i - 1 \in Nat /\ i - 1 < m /\ (i - 1) + 1 = i
    BY <1>1
  <2>2. ASSUME NEW j \in 0 .. i - 1
        PROVE  Walk(h, n)[j] = s[j + 1] /\ j + 1 \in 1 .. m /\ j + 1 <= i
    BY <1>1, <1>2, <2>1
  <2>3. i - 1 \in 0 .. i - 1 /\ Walk(h, n)[i - 1] = s[i]
    BY <2>1, <2>2
  <2>4. ASSUME d[s[i]] <= time, NEW j \in 0 .. i - 1
        PROVE  d[s[j + 1]] <= time
    <3>1. j + 1 = i \/ d[s[j + 1]] <= d[s[i]]
      BY <2>2 DEF Sorted
    <3>2. d[s[j + 1]] \in Int /\ d[s[i]] \in Int
      BY <1>3, <2>2
    <3> QED
      BY <2>4, <3>1, <3>2
  <2>5. d[s[i]] <= time => i - 1 \in earlier
    BY <1>3, <2>1, <2>2, <2>4
  <2>6. i - 1 \in earlier => d[s[i]] <= time
    BY <2>3
  <2> QED
    BY <2>5, <2>6
<1>5. \A k \in earlier : k \in 0 .. N - 1 /\ k + 1 \in 1 .. m /\ Walk(h, n)[k] = s[k + 1]
  BY <1>1, <1>2
<1>6. Before(h, n, d, time) = IF earlier = {} THEN None ELSE Walk(h, n)[last]
  BY DEF Before
<1> HIDE DEF earlier
<1>7. CASE earlier = {}
  <2>1. Fits(m, s, d, time, 0, Before(h, n, d, time))
    BY <1>1, <1>3, <1>4, <1>6, <1>7 DEF Fits
  <2> QED
    BY <1>1, <2>1
<1>8. CASE earlier # {}
  <2>1. \E k \in earlier : \A j \in earlier : j <= k
    <3>1. N - 1 \in Nat /\ earlier \in SUBSET (0 .. N - 1)
      BY <1>1, <1>5
    <3> QED
      BY <1>8, <3>1, LastElement
  <2>2. last \in earlier /\ \A j \in earlier : j <= last
    BY <2>1
  <2> HIDE DEF last
  <2>3. last \in 0 .. N - 1 /\ last + 1 \in 1 .. m /\ Before(h, n, d, time) = s[last + 1]
    BY <1>5, <1>6, <1>8, <2>2
  <2>4. (last + 1) - 1 = last /\ d[s[last + 1]] <= time
    <3>1. (last + 1) - 1 = last
      BY <2>3
    <3> QED
      BY <1>4, <2>2, <2>3, <3>1
  <2>5. ASSUME NEW i \in 1 .. m
        PROVE  IF i <= last + 1 THEN d[s[i]] <= time ELSE time < d[s[i]]
    <3>1. CASE i <= last + 1
      <4>1. i = last + 1 \/ d[s[i]] <= d[s[last + 1]]
        BY <2>3, <3>1 DEF Sorted
      <4> QED
        BY <1>3, <2>3, <2>4, <3>1, <4>1
    <3>2. CASE ~(i <= last + 1)
      <4>1. i - 1 \notin earlier
        BY <1>1, <2>2, <2>3, <3>2
      <4> QED
        BY <1>3, <1>4, <3>2, <4>1
    <3> QED
      BY <3>1, <3>2
  <2>6. Fits(m, s, d, time, last + 1, Before(h, n, d, time))
    BY <2>3, <2>5 DEF Fits
  <2>7. last + 1 \in 0 .. m
    BY <2>3
  <2> QED
    BY <2>6, <2>7
<1> QED
  BY <1>7, <1>8

\* The links sys_timeout_abs makes.
Links(h, n, b, c, h2, n2) ==
    IF b = None THEN h2 = c /\ n2 = [n EXCEPT ![c] = h]
                ELSE h2 = h /\ n2 = [n EXCEPT ![c] = n[b], ![b] = c]

\* They put c behind the k-th member.
LEMMA LinkIn ==
    ASSUME TimersAssumption, NEW m \in Nat, NEW s, NEW h, NEW n \in [Cells -> Cells \cup {None}],
           Chain(h, n, m, s), NEW c \in Cells, \A i \in 1 .. m : s[i] # c,
           NEW k \in 0 .. m, NEW b, b = IF k = 0 THEN None ELSE s[k],
           NEW h2, NEW n2, Links(h, n, b, c, h2, n2)
    PROVE  Chain(h2, n2, m + 1, Put(m, s, k, c)) /\ n2 \in [Cells -> Cells \cup {None}]
<1> DEFINE s2 == Put(m, s, k, c)
<1>1. /\ s \in [1 .. m -> Cells] /\ \A i \in 1 .. m : s[i] \in Cells /\ s[i] # None
      /\ \A i, j \in 1 .. m : s[i] = s[j] => i = j
      /\ h = IF m = 0 THEN None ELSE s[1]
      /\ \A i \in 1 .. m : n[s[i]] = IF i = m THEN None ELSE s[i + 1]
  BY DEF Chain, TimersAssumption
<1>2. /\ \A i \in 1 .. m + 1 : i <= k => s2[i] = s[i] /\ i \in 1 .. m
      /\ s2[k + 1] = c /\ k + 1 \in 1 .. m + 1
      /\ \A i \in 1 .. m + 1 : k + 1 < i => s2[i] = s[i - 1] /\ i - 1 \in 1 .. m
  BY DEF Put
<1>3. s2 \in [1 .. m + 1 -> Cells]
  <2>1. ASSUME NEW i \in 1 .. m + 1
        PROVE  (IF i <= k THEN s[i] ELSE IF i = k + 1 THEN c ELSE s[i - 1]) \in Cells
    <3>1. i <= k => i \in 1 .. m
      OBVIOUS
    <3>2. ~(i <= k) /\ i # k + 1 => i - 1 \in 1 .. m
      OBVIOUS
    <3> QED
      BY <1>1, <3>1, <3>2
  <2> QED
    BY <2>1 DEF Put
<1>4. ASSUME NEW i \in 1 .. m + 1, NEW j \in 1 .. m + 1, s2[i] = s2[j]
      PROVE  i = j
  <2>1. i <= k \/ i = k + 1 \/ k + 1 < i
    OBVIOUS
  <2>2. j <= k \/ j = k + 1 \/ k + 1 < j
    OBVIOUS
  <2> HIDE DEF s2
  <2>3. CASE i = k + 1 \/ j = k + 1
    BY <1>2, <1>4, <2>1, <2>2, <2>3
  <2>4. CASE i # k + 1 /\ j # k + 1
    <3>1. CASE i <= k /\ j <= k
      BY <1>1, <1>2, <1>4, <3>1
    <3>2. CASE k + 1 < i /\ k + 1 < j
      <4>1. i - 1 = j - 1
        BY <1>1, <1>2, <1>4, <3>2
      <4> QED
        BY <4>1
    <3>3. CASE i <= k /\ k + 1 < j
      <4>1. i = j - 1
        BY <1>1, <1>2, <1>4, <3>3
      <4> QED
        BY <3>3, <4>1
    <3>4. CASE k + 1 < i /\ j <= k
      <4>1. i - 1 = j
        BY <1>1, <1>2, <1>4, <3>4
      <4> QED
        BY <3>4, <4>1
    <3> QED
      BY <2>1, <2>2, <2>4, <3>1, <3>2, <3>3, <3>4
  <2> QED
    BY <2>3, <2>4
<1>5. CASE k = 0
  <2>1. h2 = c /\ n2 = [n EXCEPT ![c] = h]
    BY <1>5 DEF Links
  <2>2. h2 = s2[1]
    BY <1>2, <1>5, <2>1
  <2>3. ASSUME NEW i \in 1 .. m + 1
        PROVE  n2[s2[i]] = IF i = m + 1 THEN None ELSE s2[i + 1]
    <3>1. CASE i = 1
      <4>1. n2[s2[i]] = h
        BY <1>2, <1>5, <2>1, <3>1
      <4>2. m # 0 => s2[2] = s[1]
        <5>1. m # 0 => 2 \in 1 .. m + 1 /\ k + 1 < 2 /\ 2 - 1 = 1
          BY <1>5
        <5> QED
          BY <1>2, <5>1
      <4> QED
        BY <1>1, <3>1, <4>1, <4>2
    <3>2. CASE i # 1
      <4>1. k + 1 < i /\ i - 1 \in 1 .. m /\ (i - 1) + 1 = i
        BY <1>5, <3>2
      <4>2. s2[i] = s[i - 1] /\ s[i - 1] # c /\ s[i - 1] \in Cells
        BY <1>1, <1>2, <4>1
      <4>3. n2[s2[i]] = IF i - 1 = m THEN None ELSE s[i]
        BY <1>1, <2>1, <4>1, <4>2
      <4>4. i # m + 1 => s2[i + 1] = s[i]
        <5>1. i # m + 1 => i + 1 \in 1 .. m + 1 /\ k + 1 < i + 1 /\ (i + 1) - 1 = i
          BY <4>1
        <5> QED
          BY <1>2, <5>1
      <4> QED
        BY <4>1, <4>3, <4>4
    <3> QED
      BY <3>1, <3>2
  <2>4. m + 1 # 0
    OBVIOUS
  <2>5. n2 \in [Cells -> Cells \cup {None}]
    <3>1. m # 0 => 1 \in 1 .. m
      OBVIOUS
    <3>2. h \in Cells \cup {None}
      BY <1>1, <3>1
    <3> QED
      BY <2>1, <3>2
  <2> QED
    BY <1>3, <1>4, <2>2, <2>3, <2>4, <2>5 DEF Chain
<1>6. CASE k # 0
  <2>1. b = s[k] /\ k \in 1 .. m /\ b # None /\ b # c /\ b \in Cells
    BY <1>1, <1>6
  <2>2. h2 = h /\ n2 = [n EXCEPT ![c] = n[b], ![b] = c]
    BY <2>1 DEF Links
  <2>3. h2 = s2[1]
    <3>1. 1 \in 1 .. m + 1 /\ 1 <= k /\ m # 0
      BY <2>1
    <3> QED
      BY <1>1, <1>2, <2>2, <3>1
  <2>4. ASSUME NEW i \in 1 .. m + 1
        PROVE  n2[s2[i]] = IF i = m + 1 THEN None ELSE s2[i + 1]
    <3>1. CASE i = k
      <4>1. s2[i] = b /\ n2[b] = c /\ s2[i + 1] = c /\ i # m + 1
        BY <1>2, <2>1, <2>2, <3>1
      <4> QED
        BY <4>1
    <3>2. CASE i = k + 1
      <4>1. s2[i] = c /\ n2[c] = n[b]
        BY <1>2, <2>1, <2>2, <3>2
      <4>2. n[b] = IF k = m THEN None ELSE s[k + 1]
        BY <1>1, <2>1
      <4>3. k # m => s2[i + 1] = s[k + 1]
        <5>1. k # m => i + 1 \in 1 .. m + 1 /\ k + 1 < i + 1 /\ (i + 1) - 1 = k + 1
          BY <2>1, <3>2
        <5> QED
          BY <1>2, <5>1
      <4> QED
        BY <2>1, <3>2, <4>1, <4>2, <4>3
    <3>3. CASE i < k
      <4>1. i \in 1 .. m /\ s2[i] = s[i] /\ i + 1 \in 1 .. m + 1 /\ i + 1 <= k /\ s2[i + 1] = s[i + 1]
        BY <1>2, <2>1, <3>3
      <4>2. s[i] # c /\ s[i] # b /\ s[i] \in Cells
        BY <1>1, <2>1, <3>3, <4>1
      <4>3. n2[s[i]] = n[s[i]] /\ i # m /\ i # m + 1
        BY <2>1, <2>2, <3>3, <4>2
      <4> QED
        BY <1>1, <4>1, <4>3
    <3>4. CASE k + 1 < i
      <4>1. i - 1 \in 1 .. m /\ s2[i] = s[i - 1] /\ (i - 1) + 1 = i /\ i - 1 # k
        BY <1>2, <2>1, <3>4
      <4>2. s[i - 1] # c /\ s[i - 1] # b /\ s[i - 1] \in Cells
        BY <1>1, <2>1, <4>1
      <4>3. n2[s2[i]] = IF i - 1 = m THEN None ELSE s[i]
        BY <1>1, <2>2, <4>1, <4>2
      <4>4. i # m + 1 => s2[i + 1] = s[i]
        <5>1. i # m + 1 => i + 1 \in 1 .. m + 1 /\ k + 1 < i + 1 /\ (i + 1) - 1 = i
          BY <3>4
        <5> QED
          BY <1>2, <5>1
      <4> QED
        BY <4>1, <4>3, <4>4
    <3> QED
      BY <3>1, <3>2, <3>3, <3>4
  <2>5. m + 1 # 0
    OBVIOUS
  <2>6. n2 \in [Cells -> Cells \cup {None}]
    BY <2>1, <2>2
  <2> QED
    BY <1>3, <1>4, <2>3, <2>4, <2>5, <2>6 DEF Chain
<1> QED
  BY <1>5, <1>6

\* The list stays in order when c goes where it fits.
LEMMA PutInOrder ==
    ASSUME NEW m \in Nat, NEW s \in [1 .. m -> Cells], NEW d, NEW d2, NEW c, NEW time \in Int,
           \A i \in 1 .. m : d[s[i]] \in Int /\ d2[s[i]] = d[s[i]], d2[c] = time,
           Sorted(d, m, s), NEW k \in 0 .. m, NEW b, Fits(m, s, d, time, k, b)
    PROVE  Sorted(d2, m + 1, Put(m, s, k, c))
<1> DEFINE s2 == Put(m, s, k, c)
<1>1. /\ \A i \in 1 .. m + 1 : i <= k => s2[i] = s[i] /\ i \in 1 .. m
      /\ s2[k + 1] = c /\ k + 1 \in 1 .. m + 1
      /\ \A i \in 1 .. m + 1 : k + 1 < i => s2[i] = s[i - 1] /\ i - 1 \in 1 .. m
  BY DEF Put
<1> HIDE DEF s2
<1>2. ASSUME NEW i \in 1 .. m + 1, NEW j \in 1 .. m + 1, i < j
      PROVE  d2[s2[i]] <= d2[s2[j]]
  <2>1. CASE j <= k
    <3>1. i <= k
      BY <1>2, <2>1
    <3> QED
      BY <1>1, <1>2, <2>1, <3>1 DEF Sorted
  <2>2. CASE j = k + 1
    <3>1. i <= k
      BY <1>2, <2>2
    <3> QED
      BY <1>1, <2>2, <3>1 DEF Fits
  <2>3. CASE k + 1 < j
    <3>1. j - 1 \in 1 .. m /\ ~(j - 1 <= k) /\ s2[j] = s[j - 1]
      BY <1>1, <2>3
    <3>2. time < d[s[j - 1]]
      BY <3>1 DEF Fits
    <3>3. CASE i <= k
      <4>1. i \in 1 .. m /\ s2[i] = s[i] /\ d[s[i]] <= time
        BY <1>1, <3>3 DEF Fits
      <4> QED
        BY <3>1, <3>2, <4>1
    <3>4. CASE i = k + 1
      BY <1>1, <3>1, <3>2, <3>4
    <3>5. CASE k + 1 < i
      <4>1. i - 1 \in 1 .. m /\ s2[i] = s[i - 1] /\ i - 1 < j - 1
        BY <1>1, <1>2, <3>5
      <4> QED
        BY <3>1, <4>1 DEF Sorted
    <3> QED
      BY <3>3, <3>4, <3>5
  <2> QED
    BY <2>1, <2>2, <2>3
<1> QED
  BY <1>2 DEF Sorted, s2

\* Without its head, a list is the rest of its chain.
Rest(m, s) == [i \in 1 .. m - 1 |-> s[i + 1]]

LEMMA WithoutHead ==
    ASSUME NEW m \in Nat, m # 0, NEW s, NEW h, NEW n, Chain(h, n, m, s), NEW d, Sorted(d, m, s)
    PROVE  /\ Chain(n[h], n, m - 1, Rest(m, s)) /\ Sorted(d, m - 1, Rest(m, s))
           /\ \A i \in 1 .. m - 1 : Rest(m, s)[i] # h
           /\ \A i \in 1 .. m - 1 : i + 1 \in 1 .. m /\ Rest(m, s)[i] = s[i + 1]
<1>1. /\ s \in [1 .. m -> Cells]
      /\ \A i, j \in 1 .. m : s[i] = s[j] => i = j
      /\ h = s[1] /\ 1 \in 1 .. m /\ m - 1 \in Nat
      /\ \A i \in 1 .. m : n[s[i]] = IF i = m THEN None ELSE s[i + 1]
  BY DEF Chain
<1>2. \A i \in 1 .. m - 1 : i + 1 \in 1 .. m /\ Rest(m, s)[i] = s[i + 1]
  BY <1>1 DEF Rest
<1>3. Rest(m, s) \in [1 .. m - 1 -> Cells]
  BY <1>1, <1>2 DEF Rest
<1>4. n[h] = IF m - 1 = 0 THEN None ELSE Rest(m, s)[1]
  <2>1. m # 1 => 1 \in 1 .. m - 1
    BY <1>1
  <2> QED
    BY <1>1, <1>2, <2>1
<1>5. ASSUME NEW i \in 1 .. m - 1, NEW j \in 1 .. m - 1, Rest(m, s)[i] = Rest(m, s)[j]
      PROVE  i = j
  <2>1. i + 1 = j + 1
    BY <1>1, <1>2, <1>5
  <2> QED
    BY <2>1
<1>6. ASSUME NEW i \in 1 .. m - 1
      PROVE  n[Rest(m, s)[i]] = IF i = m - 1 THEN None ELSE Rest(m, s)[i + 1]
  <2>1. n[s[i + 1]] = IF i + 1 = m THEN None ELSE s[(i + 1) + 1]
    BY <1>1, <1>2
  <2>2. i # m - 1 => i + 1 \in 1 .. m - 1
    BY <1>1
  <2> QED
    BY <1>2, <2>1, <2>2
<1>7. Chain(n[h], n, m - 1, Rest(m, s))
  BY <1>3, <1>4, <1>5, <1>6 DEF Chain
<1>8. Sorted(d, m - 1, Rest(m, s))
  BY <1>2 DEF Sorted
<1>9. \A i \in 1 .. m - 1 : Rest(m, s)[i] # h
  BY <1>1, <1>2
<1> QED
  BY <1>2, <1>7, <1>8, <1>9

-----------------------------------------------------------------------------
(***************************************************************************)
(* The free cells                                                          *)
(***************************************************************************)
In(f) == {f[i] : i \in 1 .. Len(f)}

Distinct(f) == f \in Seq(Cells) /\ \A i, j \in 1 .. Len(f) : f[i] = f[j] => i = j

LEMMA HeadTaken ==
    ASSUME NEW f, Distinct(f), f # <<>>
    PROVE  /\ Distinct(Tail(f)) /\ Head(f) \in Cells /\ Head(f) \in In(f)
           /\ In(Tail(f)) = In(f) \ {Head(f)}
           /\ Len(f) \in Nat /\ Len(f) # 0 /\ Len(Tail(f)) = Len(f) - 1
<1>1. f \in Seq(Cells) /\ \A i, j \in 1 .. Len(f) : f[i] = f[j] => i = j
  BY DEF Distinct
<1>2. /\ Len(f) \in Nat /\ Len(f) # 0 /\ 1 \in 1 .. Len(f) /\ Head(f) = f[1] /\ f[1] \in Cells
      /\ Tail(f) \in Seq(Cells) /\ Len(Tail(f)) = Len(f) - 1
      /\ \A i \in 1 .. Len(f) - 1 : i + 1 \in 1 .. Len(f) /\ Tail(f)[i] = f[i + 1]
  BY <1>1
<1>3. ASSUME NEW i \in 1 .. Len(Tail(f)), NEW j \in 1 .. Len(Tail(f)), Tail(f)[i] = Tail(f)[j]
      PROVE  i = j
  <2>1. i + 1 = j + 1
    BY <1>1, <1>2, <1>3
  <2> QED
    BY <2>1
<1>4. In(Tail(f)) \subseteq In(f) \ {Head(f)}
  <2> SUFFICES ASSUME NEW i \in 1 .. Len(Tail(f)) PROVE Tail(f)[i] \in In(f) \ {Head(f)}
    BY DEF In
  <2>1. i + 1 \in 1 .. Len(f) /\ Tail(f)[i] = f[i + 1] /\ i + 1 # 1
    BY <1>2
  <2> QED
    BY <1>1, <1>2, <2>1 DEF In
<1>5. ASSUME NEW x \in In(f), x # Head(f) PROVE x \in In(Tail(f))
  <2>1. PICK i \in 1 .. Len(f) : x = f[i]
    BY DEF In
  <2>2. i # 1
    BY <1>2, <1>5, <2>1
  <2>3. i - 1 \in 1 .. Len(Tail(f)) /\ Tail(f)[i - 1] = x
    <3>1. i - 1 \in 1 .. Len(f) - 1 /\ (i - 1) + 1 = i
      BY <1>2, <2>2
    <3> QED
      BY <1>2, <2>1, <3>1
  <2> QED
    BY <2>3 DEF In
<1>6. Head(f) \in In(f)
  BY <1>2 DEF In
<1> QED
  BY <1>2, <1>3, <1>4, <1>5, <1>6 DEF Distinct

LEMMA PutBack ==
    ASSUME NEW f, Distinct(f), NEW x \in Cells, x \notin In(f)
    PROVE  /\ Distinct(<<x>> \o f) /\ In(<<x>> \o f) = In(f) \cup {x}
           /\ <<x>> \o f # <<>> /\ Head(<<x>> \o f) = x /\ Tail(<<x>> \o f) = f
           /\ Len(f) \in Nat /\ Len(<<x>> \o f) = Len(f) + 1
<1> DEFINE g == <<x>> \o f
<1>1. f \in Seq(Cells) /\ Len(f) \in Nat /\ \A i, j \in 1 .. Len(f) : f[i] = f[j] => i = j
  BY DEF Distinct
<1>2. <<x>> \in Seq(Cells) /\ Len(<<x>>) = 1 /\ <<x>>[1] = x
  OBVIOUS
<1>3. g \in Seq(Cells) /\ Len(g) = Len(f) + 1
      /\ \A i \in 1 .. Len(g) : g[i] = IF i <= 1 THEN <<x>>[i] ELSE f[i - 1]
  BY <1>1, <1>2, ConcatProperties
<1> HIDE DEF g
<1>4. g[1] = x /\ \A i \in 1 .. Len(f) : i + 1 \in 1 .. Len(g) /\ g[i + 1] = f[i]
  <2>1. 1 \in 1 .. Len(g)
    BY <1>1, <1>3
  <2>2. ASSUME NEW i \in 1 .. Len(f) PROVE i + 1 \in 1 .. Len(g) /\ ~(i + 1 <= 1) /\ (i + 1) - 1 = i
    BY <1>1, <1>3
  <2> QED
    BY <1>2, <1>3, <2>1, <2>2
<1>5. g # <<>> /\ Head(g) = x
  BY <1>1, <1>3, <1>4
<1>6. Tail(g) = f
  <2>1. Tail(g) \in Seq(Cells) /\ Len(Tail(g)) = Len(f)
        /\ \A i \in 1 .. Len(f) : Tail(g)[i] = g[i + 1]
    BY <1>1, <1>3, <1>5
  <2> QED
    BY <1>1, <1>4, <2>1, SeqEqual
<1>7. ASSUME NEW i \in 1 .. Len(g), i # 1
      PROVE  i - 1 \in 1 .. Len(f) /\ g[i] = f[i - 1]
  BY <1>1, <1>3, <1>7
<1>8. In(g) = In(f) \cup {x}
  <2>1. 1 \in 1 .. Len(g)
    BY <1>1, <1>3
  <2> QED
    BY <1>4, <1>7, <2>1 DEF In
<1>9. ASSUME NEW i \in 1 .. Len(g), NEW j \in 1 .. Len(g), g[i] = g[j]
      PROVE  i = j
  <2>1. CASE i = 1 \/ j = 1
    BY <1>4, <1>7, <1>9, <2>1 DEF In
  <2>2. CASE i # 1 /\ j # 1
    <3>1. i - 1 = j - 1
      BY <1>1, <1>7, <1>9, <2>2
    <3> QED
      BY <3>1
  <2> QED
    BY <2>1, <2>2
<1> QED
  BY <1>1, <1>3, <1>5, <1>6, <1>8, <1>9 DEF Distinct, g

-----------------------------------------------------------------------------
(***************************************************************************)
(* The inductive invariant: for some list s of m cells,                    *)
(***************************************************************************)
Bit(b) == IF b THEN 1 ELSE 0

\* the cells that are neither on the list nor free,
InHand == IF net = "free" THEN {tmp} ELSE IF mqtt \in {"search", "link"} THEN {new} ELSE {}

TypeInv ==
    /\ next \in [Cells -> Cells \cup {None}]
    /\ timer \in [Cells -> Timers \cup {None}] /\ due \in [Cells -> Int]
    /\ dueTime \in Int /\ now \in Int
    /\ net \in {"idle", "unlink", "free", "call"}
    /\ mqtt \in {"before", "search", "link", "after"}

ListInv(m, s) ==
    /\ m \in Nat /\ Chain(head, next, m, s) /\ Sorted(due, m, s)
    /\ \A c \in Members(m, s) : timer[c] \in Timers

\* every cell is on the list, free or in hand,
CellsInv(m, s) ==
    /\ Distinct(free) /\ In(free) \cap Members(m, s) = {}
    /\ \A c \in InHand : c \in Cells /\ c \notin Members(m, s) /\ c \notin In(free)
    /\ m + Len(free) + Bit(net = "free") + Bit(mqtt \in {"search", "link"}) = N

\* every timer is on the list, about to be run, or not started yet,
TimersInv(m, s) ==
    /\ \A x \in Timers : \/ \E c \in Members(m, s) : timer[c] = x
                         \/ net \in {"free", "call"} /\ run = x
                         \/ x = Sntp /\ mqtt # "after"
    /\ m + Bit(net \in {"free", "call"}) + Bit(mqtt # "after") = N

\* and what a task has read of the list is still true.
TaskInv(m, s) ==
    /\ net # "idle" => mqtt \notin {"search", "link"}
    /\ net = "unlink" => m # 0 /\ tmp = head
    /\ net \in {"free", "call"} => run \in Timers
    /\ mqtt \in {"search", "link"} => timer[new] = Sntp
    /\ mqtt = "link" => \E k \in 0 .. m : Fits(m, s, due, due[new], k, t)

Good(m, s) == ListInv(m, s) /\ CellsInv(m, s) /\ TimersInv(m, s) /\ TaskInv(m, s)

IInv == TypeInv /\ \E m, s : Good(m, s)

LEMMA MemberFacts ==
    ASSUME NEW h, NEW n, NEW m \in Nat, NEW s, Chain(h, n, m, s)
    PROVE  /\ Members(m, s) \subseteq Cells
           /\ m # 0 => h = s[1] /\ h \in Members(m, s) /\ h \in Cells
           /\ m = 0 => h = None
BY DEF Chain, Members

LEMMA RestMembers ==
    ASSUME NEW m \in Nat, m # 0, NEW s, NEW h, NEW n, Chain(h, n, m, s), NEW d, Sorted(d, m, s)
    PROVE  Members(m - 1, Rest(m, s)) = Members(m, s) \ {h}
<1>1. /\ \A i \in 1 .. m - 1 : Rest(m, s)[i] # h
      /\ \A i \in 1 .. m - 1 : i + 1 \in 1 .. m /\ Rest(m, s)[i] = s[i + 1]
  BY WithoutHead
<1>2. ASSUME NEW i \in 1 .. m, s[i] # h
      PROVE  i - 1 \in 1 .. m - 1 /\ Rest(m, s)[i - 1] = s[i]
  <2>1. h = s[1]
    BY DEF Chain
  <2>2. i # 1
    BY <1>2, <2>1
  <2>3. i - 1 \in 1 .. m - 1 /\ (i - 1) + 1 = i
    BY <2>2
  <2> QED
    BY <1>1, <2>3
<1> QED
  BY <1>1, <1>2 DEF Members

LEMMA PutMembers ==
    ASSUME NEW m \in Nat, NEW s, NEW k \in 0 .. m, NEW c
    PROVE  Members(m + 1, Put(m, s, k, c)) = Members(m, s) \cup {c}
<1> DEFINE s2 == Put(m, s, k, c)
<1>1. /\ \A i \in 1 .. m + 1 : i <= k => s2[i] = s[i] /\ i \in 1 .. m
      /\ s2[k + 1] = c /\ k + 1 \in 1 .. m + 1
      /\ \A i \in 1 .. m + 1 : k + 1 < i => s2[i] = s[i - 1] /\ i - 1 \in 1 .. m
  BY DEF Put
<1> HIDE DEF s2
<1>2. ASSUME NEW i \in 1 .. m + 1 PROVE s2[i] \in Members(m, s) \cup {c}
  <2>1. i <= k \/ i = k + 1 \/ k + 1 < i
    OBVIOUS
  <2> QED
    BY <1>1, <2>1 DEF Members
<1>3. ASSUME NEW i \in 1 .. m PROVE \E j \in 1 .. m + 1 : s2[j] = s[i]
  <2>1. CASE i <= k
    BY <1>1, <2>1
  <2>2. CASE ~(i <= k)
    <3>1. i + 1 \in 1 .. m + 1 /\ k + 1 < i + 1 /\ (i + 1) - 1 = i
      BY <2>2
    <3> QED
      BY <1>1, <3>1
  <2> QED
    BY <2>1, <2>2
<1>4. Members(m + 1, s2) = Members(m, s) \cup {c}
  BY <1>1, <1>2, <1>3 DEF Members
<1> QED
  BY <1>4 DEF s2

\* What sys_timeout_abs makes of a list and its free cells.
LEMMA Added ==
    ASSUME TimersAssumption, TypeInv, NEW m \in Nat, m < N, NEW s, NEW h, Chain(h, next, m, s),
           Sorted(due, m, s), NEW f, NEW c \in Cells, f # <<>>, c = Head(f),
           c \notin Members(m, s), NEW x \in Timers, NEW time \in Int,
           AddTo(h, next, f, x, time)
    PROVE  \E s2 : /\ Chain(head', next', m + 1, s2) /\ Sorted(due', m + 1, s2)
                   /\ Members(m + 1, s2) = Members(m, s) \cup {c}
                   /\ next' \in [Cells -> Cells \cup {None}]
                   /\ timer' = [timer EXCEPT ![c] = x] /\ due' = [due EXCEPT ![c] = time]
                   /\ free' = Tail(f)
<1>1. PICK b : b = Before(h, next, due, time)
  OBVIOUS
<1>2. /\ free' = Tail(f) /\ timer' = [timer EXCEPT ![c] = x] /\ due' = [due EXCEPT ![c] = time]
      /\ IF b = None THEN head' = c /\ next' = [next EXCEPT ![c] = h]
         ELSE head' = h /\ next' = [next EXCEPT ![c] = next[b], ![b] = c]
  BY <1>1 DEF AddTo
<1>3. /\ m \in 0 .. N /\ due \in [Cells -> Int] /\ next \in [Cells -> Cells \cup {None}]
      /\ s \in [1 .. m -> Cells]
  BY Numbers DEF TypeInv, Chain
<1>4. PICK k \in 0 .. m : Fits(m, s, due, time, k, b)
  BY <1>1, <1>3, BeforeFits
<1>5. b = (IF k = 0 THEN None ELSE s[k]) /\ \A i \in 1 .. m : s[i] # c
  BY <1>4 DEF Fits, Members
<1>6. Chain(head', next', m + 1, Put(m, s, k, c)) /\ next' \in [Cells -> Cells \cup {None}]
  <2>1. Links(h, next, b, c, head', next')
    BY <1>2 DEF Links
  <2> QED
    BY <1>3, <1>5, <2>1, LinkIn
<1>7. Sorted(due', m + 1, Put(m, s, k, c))
  <2>1. \A i \in 1 .. m : due[s[i]] \in Int /\ due'[s[i]] = due[s[i]]
    BY <1>2, <1>3, <1>5
  <2>2. due'[c] = time
    BY <1>2, <1>3
  <2> QED
    BY <1>3, <1>4, <2>1, <2>2, PutInOrder
<1>8. Members(m + 1, Put(m, s, k, c)) = Members(m, s) \cup {c}
  BY PutMembers
<1> QED
  BY <1>2, <1>6, <1>7, <1>8

LEMMA NextTimeIsTime ==
    ASSUME TimersAssumption, TypeInv, NEW x \in Timers, NEW d \in Int
    PROVE  NextTime(x, d) \in Int
BY DEF TimersAssumption, TypeInv, NextTime

-----------------------------------------------------------------------------
(***************************************************************************)
(* The steps                                                               *)
(***************************************************************************)
\* Numbers of cells and timers.
LEMMA Counts ==
    ASSUME TimersAssumption, NEW m, NEW s, Good(m, s)
    PROVE  /\ N \in Nat /\ m \in Nat /\ Len(free) \in Nat /\ m <= N
           /\ net \in {"free", "call"} \/ mqtt # "after" => m < N
           /\ net = "call" \/ mqtt = "before" => (TaskInv(m, s) => free # <<>>)
<1>1. N \in Nat /\ m \in Nat /\ Len(free) \in Nat
  BY Numbers DEF Good, ListInv, CellsInv, Distinct
<1>2. /\ m + Len(free) + Bit(net = "free") + Bit(mqtt \in {"search", "link"}) = N
      /\ m + Bit(net \in {"free", "call"}) + Bit(mqtt # "after") = N
  BY DEF Good, CellsInv, TimersInv
<1>3. m <= N /\ (net \in {"free", "call"} \/ mqtt # "after" => m < N)
  BY <1>1, <1>2 DEF Bit
<1>4. ASSUME net = "call" \/ mqtt = "before", TaskInv(m, s) PROVE free # <<>>
  <2>1. Len(free) # 0
    <3>1. CASE net = "call"
      <4>1. mqtt \notin {"search", "link"}
        BY <1>4, <3>1 DEF TaskInv
      <4>2. Bit(net = "free") = 0 /\ Bit(net \in {"free", "call"}) = 1
            /\ Bit(mqtt \in {"search", "link"}) = 0
        BY <3>1, <4>1 DEF Bit
      <4> QED
        BY <1>1, <1>2, <4>2 DEF Bit
    <3>2. CASE mqtt = "before"
      <4>1. Bit(mqtt \in {"search", "link"}) = 0 /\ Bit(mqtt # "after") = 1
            /\ Bit(net \in {"free", "call"}) >= Bit(net = "free")
            /\ Bit(net \in {"free", "call"}) \in Nat /\ Bit(net = "free") \in Nat
        BY <3>2 DEF Bit
      <4> QED
        BY <1>1, <1>2, <4>1
    <3> QED
      BY <1>4, <3>1, <3>2
  <2> QED
    BY <2>1
<1> QED
  BY <1>1, <1>3, <1>4

\* tcpip_thread runs the first timeout, which goes back on the list in the same cell.
LEMMA TcpipStep ==
    ASSUME TimersAssumption, IInv, TcpipThread, CoreLocked
    PROVE  IInv'
<1>0. PICK m, s : Good(m, s)
  BY DEF IInv
<1>1. TypeInv /\ ListInv(m, s) /\ CellsInv(m, s) /\ TimersInv(m, s) /\ TaskInv(m, s)
  BY <1>0 DEF IInv, Good
<1>2. net = "idle" /\ mqtt \notin {"search", "link"}
  BY DEF CoreLocked
<1>3. PICK c : c = head
  OBVIOUS
<1>4. m \in Nat /\ m # 0 /\ c \in Members(m, s) /\ c \in Cells /\ c \notin In(free)
  <2>1. m \in Nat /\ Chain(head, next, m, s) /\ c # None
    BY <1>1, <1>3 DEF ListInv, TcpipThread, Expired
  <2> QED
    BY <1>1, <1>3, <2>1, MemberFacts DEF CellsInv
<1>5. PICK r, p, f : r = Rest(m, s) /\ p = m - 1 /\ f = <<c>> \o free
  OBVIOUS
<1>6. /\ p \in Nat /\ p + 1 = m /\ Chain(next[c], next, p, r) /\ Sorted(due, p, r)
      /\ Members(p, r) = Members(m, s) \ {c}
  BY <1>1, <1>3, <1>4, <1>5, WithoutHead, RestMembers DEF ListInv
<1>7. f # <<>> /\ c = Head(f) /\ Tail(f) = free
  BY <1>1, <1>4, <1>5, PutBack DEF CellsInv
<1>8. timer[c] \in Timers /\ due[c] \in Int /\ p < N
  BY <1>0, <1>1, <1>4, <1>6, Counts DEF ListInv, TypeInv
<1>9. NextTime(timer[c], due[c]) \in Int
  BY <1>1, <1>8, NextTimeIsTime
<1>10. AddTo(next[c], next, f, timer[c], NextTime(timer[c], due[c]))
       /\ dueTime' = due[c] /\ UNCHANGED <<now, netTask, mqttTask>>
  BY <1>3, <1>5 DEF TcpipThread
<1>11. PICK h, x, time : h = next[c] /\ x = timer[c] /\ time = NextTime(timer[c], due[c])
  OBVIOUS
<1>12. PICK s2 : /\ Chain(head', next', p + 1, s2) /\ Sorted(due', p + 1, s2)
                 /\ Members(p + 1, s2) = Members(p, r) \cup {c}
                 /\ next' \in [Cells -> Cells \cup {None}]
                 /\ timer' = [timer EXCEPT ![c] = x] /\ due' = [due EXCEPT ![c] = time]
                 /\ free' = Tail(f)
  BY <1>1, <1>4, <1>6, <1>7, <1>8, <1>9, <1>10, <1>11, Added
<1>13. timer' = timer /\ free' = free /\ Members(m, s2) = Members(m, s)
  BY <1>1, <1>4, <1>6, <1>7, <1>11, <1>12 DEF TypeInv
<1>14. TypeInv'
  BY <1>1, <1>8, <1>9, <1>10, <1>11, <1>12, <1>13 DEF TypeInv, netTask, mqttTask
<1>15. ListInv(m, s2)'
  BY <1>1, <1>6, <1>12, <1>13 DEF ListInv
<1>16. CellsInv(m, s2)' /\ TimersInv(m, s2)'
  BY <1>1, <1>10, <1>13 DEF CellsInv, TimersInv, InHand, netTask, mqttTask
<1>17. TaskInv(m, s2)'
  BY <1>1, <1>2, <1>10 DEF TaskInv, netTask, mqttTask
<1> QED
  BY <1>14, <1>15, <1>16, <1>17 DEF IInv, Good

\* networkTask reads the head of the list.
LEMMA ReadStep ==
    ASSUME TimersAssumption, IInv, NetReads, CoreLocked
    PROVE  IInv'
<1>0. PICK m, s : Good(m, s)
  BY DEF IInv
<1>1. TypeInv /\ ListInv(m, s) /\ CellsInv(m, s) /\ TimersInv(m, s) /\ TaskInv(m, s)
  BY <1>0 DEF IInv, Good
<1>2. /\ net = "idle" /\ mqtt \notin {"search", "link"} /\ head # None
      /\ net' = "unlink" /\ tmp' = head /\ mqtt' = mqtt
      /\ UNCHANGED <<list, now, run, mqttTask>>
  BY DEF CoreLocked, NetReads, Expired, mqttTask
<1>3. m # 0
  BY <1>1, <1>2, MemberFacts DEF ListInv
<1>4. TypeInv' /\ ListInv(m, s)'
  BY <1>1, <1>2 DEF TypeInv, ListInv, list
<1>5. CellsInv(m, s)' /\ TimersInv(m, s)'
  BY <1>1, <1>2 DEF CellsInv, TimersInv, InHand, Bit, list
<1>6. TaskInv(m, s)'
  BY <1>1, <1>2, <1>3 DEF TaskInv, list
<1> QED
  BY <1>4, <1>5, <1>6 DEF IInv, Good

\* networkTask takes the head off the list.
LEMMA UnlinkStep ==
    ASSUME TimersAssumption, IInv, NetUnlinks
    PROVE  IInv'
<1>0. PICK m, s : Good(m, s)
  BY DEF IInv
<1>1. TypeInv /\ ListInv(m, s) /\ CellsInv(m, s) /\ TimersInv(m, s) /\ TaskInv(m, s)
  BY <1>0 DEF IInv, Good
<1>2. /\ net = "unlink" /\ mqtt \notin {"search", "link"} /\ m # 0 /\ tmp = head
      /\ head' = next[tmp] /\ run' = timer[tmp] /\ dueTime' = due[tmp] /\ net' = "free"
      /\ UNCHANGED <<next, timer, due, free, now, tmp, mqtt>>
  BY <1>1 DEF NetUnlinks, TaskInv, mqttTask
<1>3. m \in Nat /\ tmp \in Members(m, s) /\ tmp \in Cells /\ tmp \notin In(free)
  BY <1>1, <1>2, MemberFacts DEF ListInv, CellsInv
<1>4. PICK r, p : r = Rest(m, s) /\ p = m - 1
  OBVIOUS
<1>5. /\ p \in Nat /\ p + 1 = m /\ Chain(next[tmp], next, p, r) /\ Sorted(due, p, r)
      /\ Members(p, r) = Members(m, s) \ {tmp}
  BY <1>1, <1>2, <1>3, <1>4, WithoutHead, RestMembers DEF ListInv
<1>6. TypeInv'
  BY <1>1, <1>2, <1>3 DEF TypeInv
<1>7. ListInv(p, r)'
  BY <1>1, <1>2, <1>5 DEF ListInv
<1>8. CellsInv(p, r)'
  <2>1. p + Len(free') + Bit(net' = "free") + Bit(mqtt' \in {"search", "link"}) = N
    <3>1. m + Len(free) = N
      <4>1. Len(free) \in Nat
        BY <1>0, Counts
      <4> QED
        BY <1>1, <1>2, <1>3, <4>1 DEF CellsInv, Bit
    <3>2. N \in Nat /\ Len(free) \in Nat
      BY <1>0, Counts
    <3> QED
      BY <1>2, <1>5, <3>1, <3>2 DEF Bit
  <2>2. InHand' = {tmp}
    BY <1>2 DEF InHand
  <2> QED
    BY <1>1, <1>2, <1>3, <1>5, <2>1, <2>2 DEF CellsInv
<1>9. TimersInv(p, r)'
  <2>1. p + Bit(net' \in {"free", "call"}) + Bit(mqtt' # "after") = N
    <3>1. m + Bit(mqtt # "after") = N /\ Bit(mqtt # "after") \in Nat
      BY <1>1, <1>2, <1>3 DEF TimersInv, Bit
    <3> QED
      BY <1>2, <1>5, <3>1 DEF Bit
  <2> QED
    BY <1>1, <1>2, <1>5, <2>1 DEF TimersInv
<1>10. TaskInv(p, r)'
  BY <1>1, <1>2, <1>3 DEF TaskInv, ListInv
<1> QED
  BY <1>6, <1>7, <1>8, <1>9, <1>10 DEF IInv, Good

\* networkTask gives the cell back.
LEMMA FreeStep ==
    ASSUME TimersAssumption, IInv, NetFrees
    PROVE  IInv'
<1>0. PICK m, s : Good(m, s)
  BY DEF IInv
<1>1. TypeInv /\ ListInv(m, s) /\ CellsInv(m, s) /\ TimersInv(m, s) /\ TaskInv(m, s)
  BY <1>0 DEF IInv, Good
<1>2. /\ net = "free" /\ mqtt \notin {"search", "link"}
      /\ free' = <<tmp>> \o free /\ net' = "call"
      /\ UNCHANGED <<head, next, timer, due, dueTime, now, tmp, run, mqtt>>
  BY <1>1 DEF NetFrees, TaskInv, mqttTask
<1>3. tmp \in Cells /\ tmp \notin Members(m, s) /\ tmp \notin In(free)
  BY <1>1, <1>2 DEF CellsInv, InHand
<1>4. /\ Distinct(free') /\ In(free') = In(free) \cup {tmp}
      /\ Len(free) \in Nat /\ Len(free') = Len(free) + 1
  BY <1>1, <1>2, <1>3, PutBack DEF CellsInv
<1>5. TypeInv' /\ ListInv(m, s)'
  BY <1>1, <1>2 DEF TypeInv, ListInv
<1>6. CellsInv(m, s)'
  <2>1. m + Len(free') + Bit(net' = "free") + Bit(mqtt' \in {"search", "link"}) = N
    <3>1. m + Len(free) + 1 = N /\ m \in Nat
      BY <1>1, <1>2, <1>4 DEF CellsInv, ListInv, Bit
    <3> QED
      BY <1>2, <1>4, <3>1 DEF Bit
  <2>2. InHand' = {}
    BY <1>2 DEF InHand
  <2> QED
    BY <1>1, <1>3, <1>4, <2>1, <2>2 DEF CellsInv
<1>7. TimersInv(m, s)'
  BY <1>1, <1>2 DEF TimersInv, Bit
<1>8. TaskInv(m, s)'
  BY <1>1, <1>2 DEF TaskInv
<1> QED
  BY <1>5, <1>6, <1>7, <1>8 DEF IInv, Good

\* networkTask calls the handler, which starts its timeout again.
LEMMA CallStep ==
    ASSUME TimersAssumption, IInv, NetCalls
    PROVE  IInv'
<1>0. PICK m, s : Good(m, s)
  BY DEF IInv
<1>1. TypeInv /\ ListInv(m, s) /\ CellsInv(m, s) /\ TimersInv(m, s) /\ TaskInv(m, s)
  BY <1>0 DEF IInv, Good
<1>2. /\ net = "call" /\ mqtt \notin {"search", "link"} /\ free # <<>> /\ run \in Timers
      /\ AddTo(head, next, free, run, NextTime(run, dueTime))
      /\ net' = "idle" /\ UNCHANGED <<dueTime, now, mqtt>>
  BY <1>1 DEF NetCalls, TaskInv, mqttTask
<1>3. PICK h, f, c, x, time : /\ h = head /\ f = free /\ c = Head(free)
                              /\ x = run /\ time = NextTime(run, dueTime)
  OBVIOUS
<1>4. /\ c \in Cells /\ c \notin Members(m, s) /\ In(Tail(free)) = In(free) \ {c}
      /\ Distinct(Tail(free)) /\ Len(free) \in Nat /\ Len(Tail(free)) = Len(free) - 1
  BY <1>1, <1>2, <1>3, HeadTaken DEF CellsInv
<1>5. m \in Nat /\ m < N /\ x \in Timers /\ time \in Int /\ N \in Nat
  <2>1. dueTime \in Int
    BY <1>1 DEF TypeInv
  <2> QED
    BY <1>0, <1>1, <1>2, <1>3, <2>1, Counts, NextTimeIsTime
<1>6. PICK s2 : /\ Chain(head', next', m + 1, s2) /\ Sorted(due', m + 1, s2)
                /\ Members(m + 1, s2) = Members(m, s) \cup {c}
                /\ next' \in [Cells -> Cells \cup {None}]
                /\ timer' = [timer EXCEPT ![c] = x] /\ due' = [due EXCEPT ![c] = time]
                /\ free' = Tail(f)
  <2>1. Chain(h, next, m, s) /\ Sorted(due, m, s)
    BY <1>1, <1>3 DEF ListInv
  <2>2. AddTo(h, next, f, x, time) /\ f # <<>> /\ c = Head(f)
    BY <1>2, <1>3
  <2> QED
    BY <1>1, <1>4, <1>5, <2>1, <2>2, Added
<1>7. PICK q : q = m + 1
  OBVIOUS
<1>8. TypeInv'
  BY <1>1, <1>2, <1>4, <1>5, <1>6 DEF TypeInv
<1>9. /\ \A d \in Members(m, s) : d \in Cells /\ timer'[d] = timer[d]
      /\ timer'[c] = x
  BY <1>1, <1>4, <1>6, MemberFacts DEF ListInv, TypeInv
<1>10. ListInv(q, s2)'
  BY <1>1, <1>5, <1>6, <1>7, <1>9 DEF ListInv
<1>11. CellsInv(q, s2)'
  <2>1. q + Len(free') + Bit(net' = "free") + Bit(mqtt' \in {"search", "link"}) = N
    <3>1. m + Len(free) = N
      BY <1>1, <1>2, <1>4, <1>5 DEF CellsInv, Bit
    <3> QED
      BY <1>2, <1>3, <1>4, <1>5, <1>6, <1>7, <3>1 DEF Bit
  <2>2. InHand' = {}
    BY <1>2 DEF InHand
  <2> QED
    BY <1>1, <1>3, <1>4, <1>6, <1>7, <2>1, <2>2 DEF CellsInv
<1>12. TimersInv(q, s2)'
  <2>1. q + Bit(net' \in {"free", "call"}) + Bit(mqtt' # "after") = N
    <3>1. m + 1 + Bit(mqtt # "after") = N /\ Bit(mqtt # "after") \in Nat
      BY <1>1, <1>2, <1>5 DEF TimersInv, Bit
    <3> QED
      BY <1>2, <1>5, <1>7, <3>1 DEF Bit
  <2> QED
    BY <1>1, <1>2, <1>3, <1>6, <1>7, <1>9, <2>1 DEF TimersInv
<1>13. TaskInv(q, s2)'
  BY <1>1, <1>2 DEF TaskInv
<1> QED
  BY <1>8, <1>10, <1>11, <1>12, <1>13 DEF IInv, Good

\* mqtt_task takes a cell of the pool for sntp_request.
LEMMA AllocateStep ==
    ASSUME TimersAssumption, IInv, MqttAllocates
    PROVE  IInv'
<1>0. PICK m, s : Good(m, s)
  BY DEF IInv
<1>1. TypeInv /\ ListInv(m, s) /\ CellsInv(m, s) /\ TimersInv(m, s) /\ TaskInv(m, s)
  BY <1>0 DEF IInv, Good
<1>2. PICK c : c = Head(free)
  OBVIOUS
<1>3. /\ mqtt = "before" /\ net = "idle" /\ free # <<>> /\ new' = c /\ free' = Tail(free)
      /\ timer' = [timer EXCEPT ![c] = Sntp]
      /\ due' = [due EXCEPT ![c] = now + Period[Sntp]] /\ mqtt' = "search"
      /\ UNCHANGED <<head, next, dueTime, now, net, tmp, run>>
  BY <1>2 DEF MqttAllocates, netTask
<1>4. /\ c \in Cells /\ c \in In(free) /\ c \notin Members(m, s)
      /\ In(free') = In(free) \ {c} /\ Distinct(free')
      /\ Len(free) \in Nat /\ Len(free') = Len(free) - 1
  BY <1>1, <1>2, <1>3, HeadTaken DEF CellsInv
<1>5. TypeInv'
  BY <1>1, <1>3, <1>4 DEF TypeInv, TimersAssumption
<1>6. /\ Members(m, s) \subseteq Cells /\ timer'[c] = Sntp
      /\ \A d \in Members(m, s) : timer'[d] = timer[d] /\ due'[d] = due[d]
  BY <1>1, <1>3, <1>4, MemberFacts DEF ListInv, TypeInv
<1>7. ListInv(m, s)'
  <2>1. \A i \in 1 .. m : due'[s[i]] = due[s[i]]
    BY <1>6 DEF Members
  <2>2. Sorted(due', m, s)
    BY <1>1, <2>1 DEF ListInv, Sorted
  <2> QED
    BY <1>1, <1>3, <1>6, <2>2 DEF ListInv
<1>8. CellsInv(m, s)'
  <2>1. m + Len(free') + Bit(net' = "free") + Bit(mqtt' \in {"search", "link"}) = N
    <3>1. m + Len(free) = N /\ m \in Nat
      BY <1>1, <1>3, <1>4 DEF CellsInv, ListInv, Bit
    <3> QED
      BY <1>3, <1>4, <3>1 DEF Bit
  <2>2. InHand' = {c}
    BY <1>3 DEF InHand
  <2> QED
    BY <1>1, <1>4, <2>1, <2>2 DEF CellsInv
<1>9. TimersInv(m, s)'
  BY <1>1, <1>3, <1>6 DEF TimersInv, Bit
<1>10. TaskInv(m, s)'
  BY <1>1, <1>3, <1>6 DEF TaskInv
<1> QED
  BY <1>5, <1>7, <1>8, <1>9, <1>10 DEF IInv, Good

\* mqtt_task looks for its place on the list.
LEMMA SearchStep ==
    ASSUME TimersAssumption, IInv, MqttSearches
    PROVE  IInv'
<1>0. PICK m, s : Good(m, s)
  BY DEF IInv
<1>1. TypeInv /\ ListInv(m, s) /\ CellsInv(m, s) /\ TimersInv(m, s) /\ TaskInv(m, s)
  BY <1>0 DEF IInv, Good
<1>2. /\ mqtt = "search" /\ net = "idle" /\ t' = Before(head, next, due, due[new])
      /\ mqtt' = "link"
      /\ UNCHANGED <<head, next, timer, due, free, dueTime, now, net, tmp, run, new>>
  BY DEF MqttSearches, list, netTask
<1>3. new \in Cells
  BY <1>1, <1>2 DEF CellsInv, InHand
<1>4. PICK k \in 0 .. m : Fits(m, s, due, due[new], k, t')
  <2>1. /\ m \in 0 .. N /\ Chain(head, next, m, s) /\ Sorted(due, m, s)
        /\ due \in [Cells -> Int] /\ due[new] \in Int
    BY <1>0, <1>1, <1>3, Counts DEF ListInv, TypeInv
  <2> QED
    BY <1>2, <2>1, BeforeFits
<1>5. TypeInv' /\ ListInv(m, s)' /\ CellsInv(m, s)' /\ TimersInv(m, s)'
  BY <1>1, <1>2 DEF TypeInv, ListInv, CellsInv, TimersInv, InHand, Bit
<1>6. TaskInv(m, s)'
  BY <1>1, <1>2, <1>4 DEF TaskInv
<1> QED
  BY <1>5, <1>6 DEF IInv, Good

\* mqtt_task links its timeout in.
LEMMA LinkStep ==
    ASSUME TimersAssumption, IInv, MqttLinks
    PROVE  IInv'
<1>00. PICK m \in Nat : \E s : Good(m, s)
  BY DEF IInv, Good, ListInv
<1>0. PICK s : Good(m, s)
  BY <1>00
<1>1. TypeInv /\ ListInv(m, s) /\ CellsInv(m, s) /\ TimersInv(m, s) /\ TaskInv(m, s)
  BY <1>0 DEF IInv, Good
<1>2. /\ mqtt = "link" /\ net = "idle" /\ mqtt' = "after"
      /\ Links(head, next, t, new, head', next')
      /\ UNCHANGED <<timer, due, free, dueTime, now, net, tmp, run>>
  BY DEF MqttLinks, Links, netTask
<1>3. PICK c \in Cells : c = new
  BY <1>1, <1>2 DEF CellsInv, InHand
<1>4. c \in Cells /\ c \notin Members(m, s) /\ c \notin In(free) /\ timer[c] = Sntp
  BY <1>1, <1>2, <1>3 DEF CellsInv, TaskInv, InHand
<1>5. PICK k \in 0 .. m : Fits(m, s, due, due[c], k, t)
  BY <1>1, <1>2, <1>3 DEF TaskInv
<1>6. /\ m \in Nat /\ s \in [1 .. m -> Cells] /\ Chain(head, next, m, s) /\ Sorted(due, m, s)
      /\ next \in [Cells -> Cells \cup {None}] /\ due \in [Cells -> Int] /\ due[c] \in Int
      /\ \A i \in 1 .. m : s[i] # c /\ due[s[i]] \in Int
      /\ t = IF k = 0 THEN None ELSE s[k]
  BY <1>1, <1>4, <1>5 DEF ListInv, TypeInv, Chain, Members, Fits
<1>7. Chain(head', next', m + 1, Put(m, s, k, c)) /\ next' \in [Cells -> Cells \cup {None}]
  BY <1>2, <1>3, <1>4, <1>6, LinkIn
<1>8. Sorted(due, m + 1, Put(m, s, k, c))
  BY <1>5, <1>6, PutInOrder
<1>9. PICK q, s2 : /\ q = m + 1 /\ Chain(head', next', q, s2) /\ Sorted(due, q, s2)
                   /\ Members(q, s2) = Members(m, s) \cup {c}
  <2>1. Members(m + 1, Put(m, s, k, c)) = Members(m, s) \cup {c}
    BY <1>4, PutMembers
  <2> QED
    BY <1>7, <1>8, <2>1
<1>10. TypeInv'
  BY <1>1, <1>2, <1>7 DEF TypeInv
<1>11. ListInv(q, s2)'
  BY <1>1, <1>2, <1>4, <1>6, <1>9 DEF ListInv, TimersAssumption
<1>12. CellsInv(q, s2)'
  <2>1. q + Len(free') + Bit(net' = "free") + Bit(mqtt' \in {"search", "link"}) = N
    <3>1. m + Len(free) + 1 = N /\ Len(free) \in Nat
      BY <1>0, <1>1, <1>2, Counts DEF CellsInv, Bit
    <3> QED
      BY <1>2, <1>6, <1>9, <3>1 DEF Bit
  <2>2. InHand' = {}
    BY <1>2 DEF InHand
  <2> QED
    BY <1>1, <1>2, <1>4, <1>9, <2>1, <2>2 DEF CellsInv
<1>13. TimersInv(q, s2)'
  <2>1. q + Bit(net' \in {"free", "call"}) + Bit(mqtt' # "after") = N
    <3>1. m + 1 = N
      BY <1>1, <1>2, <1>6 DEF TimersInv, Bit
    <3> QED
      BY <1>2, <1>6, <1>9, <3>1 DEF Bit
  <2> QED
    BY <1>1, <1>2, <1>4, <1>9, <2>1 DEF TimersInv
<1>14. TaskInv(q, s2)'
  BY <1>1, <1>2 DEF TaskInv
<1> QED
  BY <1>10, <1>11, <1>12, <1>13, <1>14 DEF IInv, Good

\* sys_timeouts_init starts each cyclic timer once.
LEMMA EveryTimerStarted ==
    ASSUME TimersAssumption, NEW order \in [1 .. N - 1 -> Timers \ {Sntp}],
           \A i, j \in 1 .. N - 1 : i < j => order[i] # order[j],
           NEW x \in Timers \ {Sntp}
    PROVE  \E i \in 1 .. N - 1 : order[i] = x
<1> SUFFICES ASSUME \A i \in 1 .. N - 1 : order[i] # x PROVE FALSE
  OBVIOUS
<1>1. N \in Nat /\ IsFiniteSet(Timers) /\ Sntp \in Timers
  BY Numbers DEF TimersAssumption
<1>2. IsFiniteSet(Timers \ {Sntp}) /\ Cardinality(Timers \ {Sntp}) = N - 1
  BY <1>1, FS_RemoveElement DEF N
<1> DEFINE T == (Timers \ {Sntp}) \ {x}
<1>3. IsFiniteSet(T) /\ Cardinality(T) = N - 2
  <2>1. x \in Timers \ {Sntp}
    OBVIOUS
  <2> HIDE DEF N
  <2>2. IsFiniteSet(T) /\ Cardinality(T) = Cardinality(Timers \ {Sntp}) - 1
    BY <1>2, <2>1, FS_RemoveElement
  <2> QED
    BY <1>1, <1>2, <2>2
<1>4. IsFiniteSet(1 .. N - 1) /\ Cardinality(1 .. N - 1) = N - 1
  <2>1. N >= 1
    BY Numbers
  <2> QED
    BY <1>1, <2>1, FS_Interval
<1>5. order \in [1 .. N - 1 -> T]
  OBVIOUS
<1> HIDE DEF T
<1>6. Cardinality(T) < Cardinality(1 .. N - 1)
  BY <1>1, <1>3, <1>4
<1> DEFINE S == 1 .. N - 1
<1> HIDE DEF S
<1>7. order \in Injection(S, T)
  <2>1. \A i, j \in S : order[i] = order[j] => i = j
    BY <1>1 DEF S
  <2>2. order \in [S -> T]
    BY <1>5 DEF S
  <2> QED
    BY <2>1, <2>2 DEF Injection, IsInjective
<1>8. Cardinality(S) <= Cardinality(T)
  <2>1. IsFiniteSet(T)
    BY <1>3
  <2> QED
    BY <1>7, <2>1, FS_Injection
<1> QED
  BY <1>1, <1>3, <1>4, <1>8 DEF S

LEMMA InitInv ==
    ASSUME TimersAssumption, Init
    PROVE  IInv
<1>1. PICK order \in [1 .. N - 1 -> Timers \ {Sntp}] :
         LET last == N - 1
         IN  /\ \A i, j \in 1 .. last :
                   i < j => order[i] # order[j] /\ Period[order[i]] <= Period[order[j]]
             /\ head = IF last = 0 THEN None ELSE 1
             /\ next = [c \in Cells |-> IF c < last THEN c + 1 ELSE None]
             /\ timer = [c \in Cells |-> IF c <= last THEN order[c] ELSE None]
             /\ due = [c \in Cells |-> IF c <= last THEN Period[order[c]] ELSE 0]
             /\ free = <<last + 1>> /\ dueTime = 0 /\ now = 0
             /\ net = "idle" /\ tmp = None /\ run = None
             /\ mqtt = "before" /\ new = None /\ t = None
  BY DEF Init, N
<1>2. PICK m, s : m = N - 1 /\ s = [i \in 1 .. m |-> i]
  OBVIOUS
<1>3. /\ N \in Nat /\ m \in Nat /\ m + 1 = N /\ Cells = 1 .. N /\ N \in Cells
      /\ \A i \in 1 .. m : i \in Cells /\ s[i] = i /\ order[i] \in Timers /\ order[i] # Sntp
      /\ Members(m, s) = 1 .. m
  <2>1. N \in Nat /\ N >= 1 /\ Cells = 1 .. N
    BY Numbers
  <2>2. m \in Nat /\ m + 1 = N /\ N \in Cells
    BY <1>2, <2>1
  <2>3. \A i \in 1 .. m : i \in Cells /\ s[i] = i /\ order[i] \in Timers /\ order[i] # Sntp
    BY <1>1, <1>2, <2>1, <2>2
  <2>4. Members(m, s) = 1 .. m
    BY <2>3 DEF Members
  <2> QED
    BY <2>1, <2>2, <2>3, <2>4
<1>4. /\ \A i, j \in 1 .. m : i < j => order[i] # order[j] /\ Period[order[i]] <= Period[order[j]]
      /\ head = IF m = 0 THEN None ELSE 1
      /\ next = [c \in Cells |-> IF c < m THEN c + 1 ELSE None]
      /\ timer = [c \in Cells |-> IF c <= m THEN order[c] ELSE None]
      /\ due = [c \in Cells |-> IF c <= m THEN Period[order[c]] ELSE 0]
      /\ free = <<N>> /\ dueTime = 0 /\ now = 0 /\ net = "idle" /\ mqtt = "before"
  BY <1>1, <1>2, <1>3
<1>5. TypeInv
  <2>1. \A c \in Cells : (IF c < m THEN c + 1 ELSE None) \in Cells \cup {None}
    BY <1>3
  <2>2. \A c \in Cells : (IF c <= m THEN order[c] ELSE None) \in Timers \cup {None}
    BY <1>3
  <2>3. \A c \in Cells : (IF c <= m THEN Period[order[c]] ELSE 0) \in Int
    BY <1>3 DEF TimersAssumption
  <2> QED
    BY <1>4, <2>1, <2>2, <2>3 DEF TypeInv
<1>6. ListInv(m, s)
  <2>1. Chain(head, next, m, s)
    BY <1>2, <1>3, <1>4 DEF Chain
  <2>2. Sorted(due, m, s)
    BY <1>3, <1>4 DEF Sorted
  <2>3. \A c \in Members(m, s) : timer[c] \in Timers
    BY <1>3, <1>4
  <2> QED
    BY <1>3, <2>1, <2>2, <2>3 DEF ListInv
<1>7. CellsInv(m, s)
  <2>1. free \in Seq(Cells) /\ Len(free) = 1 /\ free[1] = N
    BY <1>3, <1>4
  <2>2. Distinct(free) /\ In(free) = {N}
    BY <2>1 DEF Distinct, In
  <2> QED
    BY <1>3, <1>4, <2>1, <2>2 DEF CellsInv, InHand, Bit
<1>8. TimersInv(m, s)
  <2>1. ASSUME NEW x \in Timers, x # Sntp PROVE \E c \in Members(m, s) : timer[c] = x
    <3>1. PICK i \in 1 .. N - 1 : order[i] = x
      BY <1>1, <2>1, EveryTimerStarted
    <3>2. i \in 1 .. m /\ timer[i] = x
      BY <1>2, <1>3, <1>4, <3>1
    <3> QED
      BY <1>3, <3>2
  <2>2. m + Bit(net \in {"free", "call"}) + Bit(mqtt # "after") = N
    BY <1>3, <1>4 DEF Bit
  <2> QED
    BY <1>4, <2>1, <2>2 DEF TimersInv
<1>9. TaskInv(m, s)
  BY <1>4 DEF TaskInv
<1> QED
  BY <1>5, <1>6, <1>7, <1>8, <1>9 DEF IInv, Good

LEMMA StepInv ==
    ASSUME TimersAssumption, IInv, [Next]_vars, [CoreLocked]_vars
    PROVE  IInv'
<1>0. PICK m, s : Good(m, s)
  BY DEF IInv
<1>1. CASE Tick
  <2>1. TypeInv /\ TypeInv'
    BY <1>1 DEF IInv, TypeInv, Tick, list, netTask, mqttTask
  <2>2. Good(m, s)'
    BY <1>0, <1>1 DEF Good, ListInv, CellsInv, TimersInv, TaskInv, InHand, Tick, list, netTask, mqttTask
  <2> QED
    BY <2>1, <2>2 DEF IInv
<1>2. CASE UNCHANGED vars
  <2>1. TypeInv /\ TypeInv'
    BY <1>2 DEF IInv, TypeInv, vars, list, netTask, mqttTask
  <2>2. Good(m, s)'
    BY <1>0, <1>2 DEF Good, ListInv, CellsInv, TimersInv, TaskInv, InHand, vars, list, netTask, mqttTask
  <2> QED
    BY <2>1, <2>2 DEF IInv
<1> QED
  BY <1>1, <1>2, TcpipStep, ReadStep, UnlinkStep, FreeStep, CallStep, AllocateStep, SearchStep,
     LinkStep DEF Next

\* In every execution under the core lock the list is a list, every cell and every
\* timer is in its place, and what a task has read is still true.
THEOREM InvHolds == ASSUME TimersAssumption PROVE Spec /\ [][CoreLocked]_vars => []IInv
<1>1. Init => IInv
  BY InitInv
<1>2. IInv /\ [Next]_vars /\ [CoreLocked]_vars => IInv'
  BY StepInv
<1> QED
  BY <1>1, <1>2, PTL DEF Spec

\* Under the core lock, a timer that was started is on the list or with the task that
\* is about to put it there (NoTimerIsLost), for any timers and periods: what opt.h's
\* "TCPIP core lock is held" is for.
THEOREM TimersAreKept ==
    ASSUME TimersAssumption PROVE Spec /\ [][CoreLocked]_vars => []NoTimerIsLost
<1>1. ASSUME IInv PROVE NoTimerIsLost
  <2>1. PICK m, s : Good(m, s)
    BY <1>1 DEF IInv
  <2>2. m \in 0 .. N /\ Chain(head, next, m, s) /\ TimersInv(m, s)
    BY <2>1, Counts DEF Good, ListInv
  <2>3. OnList(head, next) = Members(m, s)
    BY <2>2, OnListIs DEF Members
  <2> QED
    BY <2>2, <2>3 DEF NoTimerIsLost, TimersInv
<1> QED
  BY <1>1, InvHolds, PTL

\* Under the core lock, the list stays in the order of its times: sys_check_timeouts
\* may stop at the first timeout that is not due, and sys_timeout_abs at the first
\* that is later.
THEOREM ListStaysInOrder ==
    ASSUME TimersAssumption PROVE Spec /\ [][CoreLocked]_vars => []InDueOrder
<1>1. ASSUME IInv PROVE InDueOrder
  <2>1. PICK m, s : Good(m, s)
    BY <1>1 DEF IInv
  <2>2. m \in Nat /\ Chain(head, next, m, s) /\ Sorted(due, m, s)
    BY <2>1 DEF Good, ListInv
  <2>3. Walk(head, next) = [k \in Nat |-> IF k < m THEN s[k + 1] ELSE None]
    BY <2>2, WalkIs
  <2> SUFFICES ASSUME NEW k \in Nat, Walk(head, next)[k + 1] # None
               PROVE  due[Walk(head, next)[k]] <= due[Walk(head, next)[k + 1]]
    BY DEF InDueOrder
  <2>4. k + 1 < m /\ k + 1 \in 1 .. m /\ (k + 1) + 1 \in 1 .. m
    BY <2>2, <2>3
  <2>5. Walk(head, next)[k] = s[k + 1] /\ Walk(head, next)[k + 1] = s[(k + 1) + 1]
    BY <2>2, <2>3, <2>4
  <2> QED
    BY <2>2, <2>4, <2>5 DEF Sorted
<1> QED
  BY <1>1, InvHolds, PTL

\* Under the core lock, sys_timeout_abs never finds the pool empty: there is a member
\* for each timer, and a handler starts its timer only after its member is free.
THEOREM PoolNeverRunsOut ==
    ASSUME TimersAssumption PROVE Spec /\ [][CoreLocked]_vars => []PoolSuffices
<1>1. ASSUME IInv PROVE PoolSuffices
  <2>1. PICK m, s : Good(m, s)
    BY <1>1 DEF IInv
  <2>2. TaskInv(m, s)
    BY <2>1 DEF Good
  <2> QED
    BY <2>1, <2>2, Counts DEF PoolSuffices
<1> QED
  BY <1>1, InvHolds, PTL

(***************************************************************************)
(* Times: what a task has read is due, and a timeout is started for one    *)
(* period from then at the latest.                                         *)
(***************************************************************************)
TimesInv ==
    /\ \A c \in Cells : timer[c] \in Timers => due[c] <= now + Period[timer[c]]
    /\ net = "unlink" => due[tmp] <= now
    /\ net \in {"free", "call"} => dueTime <= now

LEMMA NextTimeIsSoon ==
    ASSUME TimersAssumption, TypeInv, NEW x \in Timers, NEW d \in Int, d <= now
    PROVE  NextTime(x, d) \in Int /\ NextTime(x, d) <= now + Period[x]
BY DEF TimersAssumption, TypeInv, NextTime

\* A cell is written with a timer and a time within its period.
LEMMA WrittenInTime ==
    ASSUME TimersAssumption, TypeInv, TimesInv, NEW c \in Cells, NEW x \in Timers,
           NEW time \in Int, time <= now + Period[x], now' = now,
           timer' = [timer EXCEPT ![c] = x], due' = [due EXCEPT ![c] = time]
    PROVE  \A e \in Cells : timer'[e] \in Timers => due'[e] <= now' + Period[timer'[e]]
<1> TAKE e \in Cells
<1>1. CASE e = c
  BY <1>1 DEF TypeInv
<1>2. CASE e # c
  BY <1>2 DEF TypeInv, TimesInv
<1> QED
  BY <1>1, <1>2

LEMMA TimesStep ==
    ASSUME TimersAssumption, IInv, TimesInv, [Next]_vars, [CoreLocked]_vars
    PROVE  TimesInv'
<1>0. PICK m, s : Good(m, s)
  BY DEF IInv
<1>1. /\ TypeInv /\ ListInv(m, s) /\ CellsInv(m, s) /\ TaskInv(m, s)
      /\ Members(m, s) \subseteq Cells
      /\ head # None => head \in Members(m, s) /\ head \in Cells /\ timer[head] \in Timers
  BY <1>0, MemberFacts DEF IInv, Good, ListInv
<1>2. free # <<>> => Head(free) \in Cells
  BY <1>1, HeadTaken DEF CellsInv
<1>3. /\ now \in Int /\ dueTime \in Int /\ due \in [Cells -> Int]
      /\ timer \in [Cells -> Timers \cup {None}] /\ Period \in [Timers -> Nat]
  BY <1>1 DEF TypeInv, TimersAssumption
<1>4. CASE Tick
  <2>1. now' = now + 1 /\ UNCHANGED <<timer, due, dueTime, net, tmp>>
    BY <1>4 DEF Tick, list, netTask
  <2>2. ASSUME NEW c \in Cells, timer[c] \in Timers PROVE due[c] <= now' + Period[timer[c]]
    BY <1>3, <2>1, <2>2 DEF TimesInv
  <2>3. net = "unlink" => due[tmp] <= now'
    <3>1. net = "unlink" => tmp \in Cells
      BY <1>1 DEF TaskInv, ListInv, Chain
    <3> QED
      BY <1>3, <2>1, <3>1 DEF TimesInv
  <2> QED
    BY <1>3, <2>1, <2>2, <2>3 DEF TimesInv
<1>5. CASE TcpipThread /\ CoreLocked
  <2>1. /\ net = "idle" /\ head \in Cells /\ timer[head] \in Timers /\ due[head] <= now
        /\ AddTo(next[head], next, <<head>> \o free, timer[head], NextTime(timer[head], due[head]))
        /\ UNCHANGED <<now, net>>
    <3>1. net = "idle"
      BY <1>5 DEF CoreLocked
    <3>2. /\ head # None /\ due[head] <= now /\ UNCHANGED <<now, net>>
          /\ AddTo(next[head], next, <<head>> \o free, timer[head], NextTime(timer[head], due[head]))
      BY <1>5 DEF TcpipThread, Expired, netTask
    <3> QED
      BY <1>1, <3>1, <3>2
  <2>2. Head(<<head>> \o free) = head
    <3>1. head \notin In(free)
      BY <1>1, <2>1, <1>5 DEF CellsInv, TcpipThread, Expired
    <3> QED
      BY <1>1, <2>1, <3>1, PutBack DEF CellsInv
  <2>3. /\ timer' = [timer EXCEPT ![head] = timer[head]]
        /\ due' = [due EXCEPT ![head] = NextTime(timer[head], due[head])]
    BY <2>1, <2>2 DEF AddTo
  <2>4. /\ NextTime(timer[head], due[head]) \in Int
        /\ NextTime(timer[head], due[head]) <= now + Period[timer[head]]
    BY <1>1, <1>3, <2>1, NextTimeIsSoon
  <2>5. \A e \in Cells : timer'[e] \in Timers => due'[e] <= now' + Period[timer'[e]]
    BY <1>1, <2>1, <2>3, <2>4, WrittenInTime
  <2> QED
    BY <2>1, <2>5 DEF TimesInv
<1>6. CASE NetReads
  <2>1. /\ net' = "unlink" /\ tmp' = head /\ due[head] <= now
        /\ UNCHANGED <<timer, due, dueTime, now>>
    BY <1>6 DEF NetReads, Expired, list
  <2> QED
    BY <2>1 DEF TimesInv
<1>7. CASE NetUnlinks
  <2>1. /\ net = "unlink" /\ net' = "free" /\ dueTime' = due[tmp]
        /\ UNCHANGED <<timer, due, now>>
    BY <1>7 DEF NetUnlinks
  <2> QED
    BY <2>1 DEF TimesInv
<1>8. CASE NetFrees
  <2>1. net = "free" /\ net' = "call" /\ UNCHANGED <<timer, due, dueTime, now>>
    BY <1>8 DEF NetFrees
  <2> QED
    BY <2>1 DEF TimesInv
<1>9. CASE NetCalls
  <2>1. /\ net = "call" /\ run \in Timers /\ dueTime <= now /\ net' = "idle" /\ now' = now
        /\ free # <<>> /\ AddTo(head, next, free, run, NextTime(run, dueTime))
    BY <1>1, <1>9 DEF NetCalls, TaskInv, TimesInv
  <2>2. PICK c, time : c = Head(free) /\ time = NextTime(run, dueTime)
    OBVIOUS
  <2>3. timer' = [timer EXCEPT ![c] = run] /\ due' = [due EXCEPT ![c] = time]
    BY <2>1, <2>2 DEF AddTo
  <2>4. c \in Cells /\ time \in Int /\ time <= now + Period[run]
    BY <1>1, <1>2, <1>3, <2>1, <2>2, NextTimeIsSoon
  <2>5. \A e \in Cells : timer'[e] \in Timers => due'[e] <= now' + Period[timer'[e]]
    BY <1>1, <2>1, <2>3, <2>4, WrittenInTime
  <2> QED
    BY <2>1, <2>5 DEF TimesInv
<1>10. CASE MqttAllocates
  <2>1. /\ free # <<>> /\ net = "idle" /\ UNCHANGED <<now, net>>
        /\ timer' = [timer EXCEPT ![Head(free)] = Sntp]
        /\ due' = [due EXCEPT ![Head(free)] = now + Period[Sntp]]
    BY <1>10 DEF MqttAllocates, netTask
  <2>2. Sntp \in Timers /\ now + Period[Sntp] \in Int /\ now + Period[Sntp] <= now + Period[Sntp]
    BY <1>3 DEF TimersAssumption
  <2>3. \A e \in Cells : timer'[e] \in Timers => due'[e] <= now' + Period[timer'[e]]
    BY <1>1, <1>2, <2>1, <2>2, WrittenInTime
  <2> QED
    BY <2>1, <2>3 DEF TimesInv
<1>11. CASE MqttSearches \/ MqttLinks \/ UNCHANGED vars
  <2>1. UNCHANGED <<timer, due, dueTime, now, net, tmp>>
    BY <1>11 DEF MqttSearches, MqttLinks, vars, list, netTask
  <2> QED
    BY <2>1 DEF TimesInv
<1> QED
  BY <1>4, <1>5, <1>6, <1>7, <1>8, <1>9, <1>10, <1>11 DEF Next

\* Under the core lock, every timeout on the list is due within the period of its
\* timer, as lwip_cyclic_timer intends.  Without it current_timeout_due_time, a global,
\* can be of another timeout, and a timer is put off for longer.
THEOREM TimersRunInTime ==
    ASSUME TimersAssumption PROVE Spec /\ [][CoreLocked]_vars => []DueInTime
<1>1. Init => TimesInv
  <2> SUFFICES ASSUME Init PROVE TimesInv
    OBVIOUS
  <2>1. PICK order \in [1 .. N - 1 -> Timers \ {Sntp}] :
           /\ timer = [c \in Cells |-> IF c <= N - 1 THEN order[c] ELSE None]
           /\ due = [c \in Cells |-> IF c <= N - 1 THEN Period[order[c]] ELSE 0]
           /\ now = 0 /\ net = "idle"
    BY DEF Init, N
  <2>2. ASSUME NEW c \in Cells, timer[c] \in Timers PROVE due[c] <= now + Period[timer[c]]
    <3>1. c \in 1 .. N /\ N \in Nat
      BY Numbers
    <3>2. Period[timer[c]] \in Nat
      BY <2>2 DEF TimersAssumption
    <3>3. CASE c <= N - 1
      BY <2>1, <3>1, <3>2, <3>3
    <3>4. CASE ~(c <= N - 1)
      BY <2>1, <3>1, <3>2, <3>4
    <3> QED
      BY <3>3, <3>4
  <2> QED
    BY <2>1, <2>2 DEF TimesInv
<1>2. IInv /\ TimesInv /\ [Next]_vars /\ [CoreLocked]_vars => TimesInv'
  BY TimesStep
<1>3. IInv /\ TimesInv => DueInTime
  <2> SUFFICES ASSUME IInv, TimesInv PROVE DueInTime
    OBVIOUS
  <2>1. PICK m, s : Good(m, s)
    BY DEF IInv
  <2>2. m \in 0 .. N /\ Chain(head, next, m, s) /\ \A c \in Members(m, s) : timer[c] \in Timers
    BY <2>1, Counts DEF Good, ListInv
  <2>3. OnList(head, next) = Members(m, s)
    BY <2>2, OnListIs DEF Members
  <2>4. Members(m, s) \subseteq Cells
    BY <2>2 DEF Chain, Members
  <2> QED
    BY <2>2, <2>3, <2>4 DEF DueInTime, TimesInv
<1> QED
  BY <1>1, <1>2, <1>3, InvHolds, PTL DEF Spec
=============================================================================
