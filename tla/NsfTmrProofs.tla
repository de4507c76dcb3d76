---------------------------- MODULE NsfTmrProofs ----------------------------
(***************************************************************************)
(* Proofs about NsfTmr: its type invariant, the arming of the STIMER, the  *)
(* bound on early callbacks, and that the delta queue implements the       *)
(* deadlines of NsfTmrSpec.                                                *)
(*                                                                         *)
(* What holds along the queue is shown by induction over its positions     *)
(* (Climb); what an operation does to the deadlines follows from where the *)
(* deltas of the new queue equal those of the old one (SameGaps).          *)
(***************************************************************************)
EXTENDS NsfTmr, FiniteSetTheorems, SequenceTheorems, TLAPS

-----------------------------------------------------------------------------
(* A set of numbers that is not empty has a least one: the intervals 1 .. n*)
(* are well-founded under strict inclusion.                                *)
LEMMA Least ==
    ASSUME NEW T, T \subseteq Nat, T # {}
    PROVE  \E x \in T : \A y \in T : x <= y
<1>1. PICK F : F = {1 .. n : n \in T}
  OBVIOUS
<1>2. F # {} /\ F \subseteq FiniteSubsetsOf(Nat)
  <2>1. \A n \in T : 1 .. n \in FiniteSubsetsOf(Nat)
    <3>1. \A n \in T : IsFiniteSet(1 .. n)
      BY FS_Interval
    <3>2. \A n \in T : 1 .. n \in SUBSET Nat
      OBVIOUS
    <3> QED
      BY <3>1, <3>2 DEF FiniteSubsetsOf
  <2> QED
    BY <1>1, <2>1
<1>3. PICK X \in F : \A Y \in F : <<Y, X>> \notin StrictSubsetOrdering(Nat)
  BY <1>2, FS_StrictSubsetOrderingWellFounded, WFMin
<1>4. PICK x \in T : X = 1 .. x
  BY <1>1
<1>5. ASSUME NEW y \in T, y < x
      PROVE  FALSE
  <2>1. 1 .. y \in F
    BY <1>1
  <2>2. /\ <<1 .. y, 1 .. x>> \in (SUBSET Nat) \X (SUBSET Nat)
        /\ 1 .. y \subseteq 1 .. x /\ 1 .. y # 1 .. x
    <3>1. x \in 1 .. x /\ x \notin 1 .. y
      BY <1>5
    <3> QED
      BY <1>5, <3>1
  <2> QED
    BY <1>3, <1>4, <2>1, <2>2 DEF StrictSubsetOrdering
<1> QED
  BY <1>5

(* Induction over an interval, with the property given as a set.            *)
LEMMA Climb ==
    ASSUME NEW a \in Nat, NEW b \in Int, NEW S, a \in S,
           \A n \in a + 1 .. b : n - 1 \in S => n \in S
    PROVE  a .. b \subseteq S
<1>1. PICK T : T = (a .. b) \ S
  OBVIOUS
<1>2. ASSUME T # {}
      PROVE  FALSE
  <2>1. T \subseteq Nat
    BY <1>1
  <2>2. PICK n \in T : \A m \in T : n <= m
    BY <1>2, <2>1, Least
  <2>3. n \in a + 1 .. b /\ n - 1 \in a .. b /\ ~ (n <= n - 1) /\ n \notin S
    BY <1>1, <2>2
  <2>4. n - 1 \notin T
    BY <2>2, <2>3
  <2> QED
    BY <1>1, <2>3, <2>4
<1> QED
  BY <1>1, <1>2

Entry == [tmr : Timers, delta : Nat]

(* The recursion that defines Clock has its value at every position.       *)
LEMMA ClockSum ==
    ASSUME NEW Q \in Seq(Entry)
    PROVE  Clock(Q) = [k \in 0 .. Len(Q) |-> IF k = 0 THEN 0 ELSE Clock(Q)[k - 1] + Q[k].delta]
<1> DEFINE Step(f, n) == [k \in 0 .. n |-> IF k = 0 THEN 0 ELSE f[k - 1] + Q[k].delta]
           Sum(n) == \E f : f = Step(f, n)
<1>0. Len(Q) \in Nat /\ Len(Q) \in Int /\ 0 \in Nat
  OBVIOUS
<1>1. PICK S : S = {n \in 0 .. Len(Q) : Sum(n)}
  OBVIOUS
<1>2. 0 \in S
  <2>1. [k \in 0 .. 0 |-> 0] = Step([k \in 0 .. 0 |-> 0], 0)
    OBVIOUS
  <2>2. Sum(0)
    BY <2>1
  <2> QED
    BY <1>0, <1>1, <2>2
<1>3. ASSUME NEW n \in 0 + 1 .. Len(Q), n - 1 \in S
      PROVE  n \in S
  <2>1. PICK f : f = Step(f, n - 1)
    BY <1>1, <1>3
  <2>2. PICK g : g = [k \in 0 .. n |-> IF k < n THEN f[k] ELSE f[n - 1] + Q[n].delta]
    OBVIOUS
  <2>3. g = Step(g, n)
    <3>0. n \in Nat \ {0}
      BY <1>0
    <3>1. ASSUME NEW k \in 0 .. n
          PROVE  g[k] = IF k = 0 THEN 0 ELSE g[k - 1] + Q[k].delta
      <4>1. CASE k < n
        <5>1. k \in 0 .. n - 1 /\ g[k] = f[k] /\ (k # 0 => k - 1 \in 0 .. n /\ k - 1 < n)
          BY <3>0, <2>2, <4>1
        <5>2. k # 0 => g[k - 1] = f[k - 1]
          BY <2>2, <5>1
        <5> QED
          BY <2>1, <5>1, <5>2
      <4>2. CASE k = n
        BY <3>0, <2>2, <4>2
      <4> QED
        BY <3>0, <4>1, <4>2
    <3> QED
      BY <2>2, <3>1
  <2>4. Sum(n)
    BY <2>3
  <2>5. n \in 0 .. Len(Q)
    BY <1>0
  <2> QED
    BY <1>1, <2>4, <2>5, Zenon
<1>4. PICK f : f = Step(f, Len(Q))
  <2>1. 0 .. Len(Q) \subseteq S
    BY <1>0, <1>2, <1>3, Climb, Zenon
  <2>2. Len(Q) \in S
    BY <1>0, <2>1
  <2> QED
    BY <1>1, <2>2
<1> QED
  BY <1>4 DEF Clock

-----------------------------------------------------------------------------
(* Two sequences joined, position by position.                             *)
LEMMA Joined ==
    ASSUME NEW S, NEW A \in Seq(S), NEW C \in Seq(S)
    PROVE  /\ A \o C \in Seq(S) /\ Len(A \o C) = Len(A) + Len(C)
           /\ \A j \in 1 .. Len(A) : (A \o C)[j] = A[j]
           /\ \A j \in Len(A) + 1 .. Len(A) + Len(C) : (A \o C)[j] = C[j - Len(A)]
<1>1. /\ A \o C \in Seq(S) /\ Len(A \o C) = Len(A) + Len(C)
      /\ \A j \in 1 .. Len(A) + Len(C) : (A \o C)[j] = IF j <= Len(A) THEN A[j] ELSE C[j - Len(A)]
  BY ConcatProperties
<1>2. Len(A) \in Nat /\ Len(C) \in Nat
  OBVIOUS
<1> QED
  BY <1>1, <1>2

(* A part of a sequence, position by position.                             *)
LEMMA Cut ==
    ASSUME NEW S, NEW P \in Seq(S), NEW m \in 1 .. Len(P) + 1, NEW n \in m - 1 .. Len(P)
    PROVE  LET R == SubSeq(P, m, n)
           IN  R \in Seq(S) /\ Len(R) = n - m + 1 /\ \A j \in 1 .. n - m + 1 : R[j] = P[m + j - 1]
<1>1. Len(P) \in Nat /\ m \in Int /\ n \in Int
  OBVIOUS
<1>2. \A i \in m .. n : P[i] \in S
  BY <1>1
<1>3. SubSeq(P, m, n) = [j \in 1 .. n - m + 1 |-> P[m + j - 1]]
  BY <1>1, SubSeqProperties
<1>4. n - m + 1 \in Nat
  BY <1>1
<1>5. \A j \in 1 .. n - m + 1 : m + j - 1 \in m .. n
  BY <1>1
<1> QED
  BY <1>2, <1>3, <1>4, <1>5, IsASeq

(* A sequence with an element put in behind its k-th.                      *)
LEMMA Inserted ==
    ASSUME NEW S, NEW P \in Seq(S), NEW k \in 0 .. Len(P), NEW e \in S,
           NEW R, R = InsertAt(P, k + 1, e)
    PROVE  /\ R \in Seq(S) /\ Len(R) = Len(P) + 1 /\ R[k + 1] = e
           /\ \A j \in 1 .. k : R[j] = P[j]
           /\ \A j \in k + 2 .. Len(P) + 1 : R[j] = P[j - 1]
<1>0. Len(P) \in Nat /\ k \in Int /\ (k + 1) - 1 = k
  OBVIOUS
<1>1. PICK A : A = SubSeq(P, 1, k)
  OBVIOUS
<1>2. PICK C : C = SubSeq(P, k + 1, Len(P))
  OBVIOUS
<1>3. A \in Seq(S) /\ Len(A) = k /\ \A j \in 1 .. k : A[j] = P[j]
  <2>1. 1 \in 1 .. Len(P) + 1 /\ k \in 1 - 1 .. Len(P)
    BY <1>0
  <2>2. A \in Seq(S) /\ Len(A) = k - 1 + 1 /\ \A j \in 1 .. k - 1 + 1 : A[j] = P[1 + j - 1]
    BY <1>1, <2>1, Cut
  <2> QED
    BY <1>0, <2>2
<1>4. C \in Seq(S) /\ Len(C) = Len(P) - k /\ \A j \in 1 .. Len(P) - k : C[j] = P[k + j]
  <2>1. k + 1 \in 1 .. Len(P) + 1 /\ Len(P) \in (k + 1) - 1 .. Len(P)
    BY <1>0
  <2>2. /\ C \in Seq(S) /\ Len(C) = Len(P) - (k + 1) + 1
        /\ \A j \in 1 .. Len(P) - (k + 1) + 1 : C[j] = P[(k + 1) + j - 1]
    BY <1>2, <2>1, Cut
  <2> QED
    BY <1>0, <2>2
<1>5. PICK B : B = A \o <<e>>
  OBVIOUS
<1>6. B \in Seq(S) /\ Len(B) = k + 1 /\ B[k + 1] = e /\ \A j \in 1 .. k : B[j] = P[j]
  <2>1. <<e>> \in Seq(S) /\ Len(<<e>>) = 1 /\ <<e>>[1] = e
    OBVIOUS
  <2>2. /\ B \in Seq(S) /\ Len(B) = k + 1
        /\ \A j \in 1 .. k : B[j] = A[j]
        /\ \A j \in k + 1 .. k + 1 : B[j] = <<e>>[j - k]
    BY <1>3, <1>5, <2>1, Joined
  <2> QED
    BY <1>0, <1>3, <2>1, <2>2
<1>7. /\ B \o C \in Seq(S) /\ Len(B \o C) = Len(B) + Len(C)
      /\ \A j \in 1 .. Len(B) : (B \o C)[j] = B[j]
      /\ \A j \in Len(B) + 1 .. Len(B) + Len(C) : (B \o C)[j] = C[j - Len(B)]
  BY <1>4, <1>6, Joined, Zenon
<1>8. R = B \o C
  BY <1>0, <1>1, <1>2, <1>5 DEF InsertAt
<1>9. Len(B) = k + 1 /\ Len(C) = Len(P) - k /\ Len(R) = Len(P) + 1
  BY <1>0, <1>4, <1>6, <1>7, <1>8
<1>10. \A j \in 1 .. k + 1 : R[j] = B[j]
  BY <1>7, <1>8, <1>9
<1>11. ASSUME NEW j \in k + 2 .. Len(P) + 1
       PROVE  R[j] = P[j - 1]
  <2>1. /\ j \in Len(B) + 1 .. Len(B) + Len(C) /\ j - Len(B) = j - (k + 1)
        /\ j - (k + 1) \in 1 .. Len(P) - k /\ k + (j - (k + 1)) = j - 1
    BY <1>0, <1>9
  <2> QED
    BY <1>4, <1>7, <1>8, <2>1
<1>12. R[k + 1] = e /\ \A j \in 1 .. k : R[j] = P[j]
  <2>1. k + 1 \in 1 .. k + 1 /\ \A j \in 1 .. k : j \in 1 .. k + 1
    BY <1>0
  <2> QED
    BY <1>6, <1>10, <2>1
<1> QED
  BY <1>7, <1>8, <1>9, <1>11, <1>12

(* A sequence without its i-th element.                                    *)
LEMMA Removed ==
    ASSUME NEW S, NEW P \in Seq(S), NEW i \in 1 .. Len(P)
    PROVE  LET R == RemoveAt(P, i)
           IN  /\ R \in Seq(S) /\ Len(R) = Len(P) - 1
               /\ \A j \in 1 .. i - 1 : R[j] = P[j]
               /\ \A j \in i .. Len(P) - 1 : R[j] = P[j + 1]
<1>0. Len(P) \in Nat /\ i \in Int
  OBVIOUS
<1>1. PICK A : A = SubSeq(P, 1, i - 1)
  OBVIOUS
<1>2. PICK C : C = SubSeq(P, i + 1, Len(P))
  OBVIOUS
<1>3. A \in Seq(S) /\ Len(A) = i - 1 /\ \A j \in 1 .. i - 1 : A[j] = P[j]
  <2>1. 1 \in 1 .. Len(P) + 1 /\ i - 1 \in 1 - 1 .. Len(P)
    BY <1>0
  <2>2. A \in Seq(S) /\ Len(A) = (i - 1) - 1 + 1 /\ \A j \in 1 .. (i - 1) - 1 + 1 : A[j] = P[1 + j - 1]
    BY <1>1, <2>1, Cut
  <2> QED
    BY <1>0, <2>2
<1>4. C \in Seq(S) /\ Len(C) = Len(P) - i /\ \A j \in 1 .. Len(P) - i : C[j] = P[i + j]
  <2>1. i + 1 \in 1 .. Len(P) + 1 /\ Len(P) \in (i + 1) - 1 .. Len(P)
    BY <1>0
  <2>2. /\ C \in Seq(S) /\ Len(C) = Len(P) - (i + 1) + 1
        /\ \A j \in 1 .. Len(P) - (i + 1) + 1 : C[j] = P[(i + 1) + j - 1]
    BY <1>2, <2>1, Cut
  <2> QED
    BY <1>0, <2>2
<1>5. PICK R : R = A \o C
  OBVIOUS
<1>6. /\ R \in Seq(S) /\ Len(R) = (i - 1) + (Len(P) - i)
      /\ \A j \in 1 .. i - 1 : R[j] = A[j]
      /\ \A j \in (i - 1) + 1 .. (i - 1) + (Len(P) - i) : R[j] = C[j - (i - 1)]
  <2>1. /\ R \in Seq(S) /\ Len(R) = Len(A) + Len(C)
        /\ \A j \in 1 .. Len(A) : R[j] = A[j]
        /\ \A j \in Len(A) + 1 .. Len(A) + Len(C) : R[j] = C[j - Len(A)]
    BY <1>3, <1>4, <1>5, Joined
  <2> QED
    BY <1>3, <1>4, <2>1
<1>7. \A j \in i .. Len(P) - 1 : R[j] = P[j + 1]
  <2>1. ASSUME NEW j \in i .. Len(P) - 1
        PROVE  /\ j \in (i - 1) + 1 .. (i - 1) + (Len(P) - i)
               /\ j - (i - 1) \in 1 .. Len(P) - i /\ i + (j - (i - 1)) = j + 1
    BY <1>0
  <2> QED
    BY <1>4, <1>6, <2>1
<1>8. R = RemoveAt(P, i)
  BY <1>1, <1>2, <1>5 DEF RemoveAt
<1>9. Len(R) = Len(P) - 1
  BY <1>0, <1>6
<1> QED
  BY <1>3, <1>6, <1>7, <1>8, <1>9

-----------------------------------------------------------------------------
(* An entry is due its delta after the one before.                         *)
LEMMA DueSum ==
    ASSUME NEW Q \in Seq(Entry)
    PROVE  Due(Q, 0) = 0 /\ \A i \in 1 .. Len(Q) : Due(Q, i) = Due(Q, i - 1) + Q[i].delta
<1>1. Len(Q) \in Nat
  OBVIOUS
<1>2. \A k \in 0 .. Len(Q) : Clock(Q)[k] = IF k = 0 THEN 0 ELSE Clock(Q)[k - 1] + Q[k].delta
  <2>1. PICK f : f = Clock(Q)
    OBVIOUS
  <2>2. f = [k \in 0 .. Len(Q) |-> IF k = 0 THEN 0 ELSE f[k - 1] + Q[k].delta]
    BY <2>1, ClockSum
  <2>3. \A k \in 0 .. Len(Q) : f[k] = IF k = 0 THEN 0 ELSE f[k - 1] + Q[k].delta
    BY <2>2
  <2> QED
    BY <2>1, <2>3
<1> QED
  BY <1>1, <1>2 DEF Due

(* Deadlines are numbers that grow along the queue.                        *)
LEMMA DueGrows ==
    ASSUME NEW Q \in Seq(Entry)
    PROVE  /\ \A i \in 0 .. Len(Q) : Due(Q, i) \in Nat
           /\ \A j \in 0 .. Len(Q) : \A i \in 0 .. j : Due(Q, i) <= Due(Q, j)
<1>0. Len(Q) \in Nat /\ Len(Q) \in Int /\ 0 \in Nat /\ \A i \in 1 .. Len(Q) : Q[i].delta \in Nat
  <2>1. \A i \in 1 .. Len(Q) : Q[i] \in Entry
    OBVIOUS
  <2> QED
    BY <2>1 DEF Entry
<1>1. \A i \in 0 .. Len(Q) : Due(Q, i) \in Nat
  <2>1. PICK S : S = {i \in 0 .. Len(Q) : Due(Q, i) \in Nat}
    OBVIOUS
  <2>2. 0 \in S
    BY <1>0, <2>1, DueSum
  <2>3. ASSUME NEW n \in 0 + 1 .. Len(Q), n - 1 \in S
        PROVE  n \in S
    <3>1. n \in 1 .. Len(Q) /\ n \in 0 .. Len(Q) /\ Due(Q, n - 1) \in Nat
      BY <1>0, <2>1, <2>3
    <3>2. Due(Q, n) \in Nat
      BY <1>0, <3>1, DueSum
    <3> QED
      BY <2>1, <3>1, <3>2
  <2>4. 0 .. Len(Q) \subseteq S
    BY <1>0, <2>2, <2>3, Climb, Zenon
  <2> QED
    BY <2>1, <2>4
<1>2. ASSUME NEW a \in 0 .. Len(Q)
      PROVE  \A j \in a .. Len(Q) : Due(Q, a) <= Due(Q, j)
  <2>1. PICK S : S = {j \in a .. Len(Q) : Due(Q, a) <= Due(Q, j)}
    OBVIOUS
  <2>2. a \in Nat /\ a \in S
    BY <1>0, <1>1, <2>1
  <2>3. ASSUME NEW n \in a + 1 .. Len(Q), n - 1 \in S
        PROVE  n \in S
    <3>1. /\ n \in 1 .. Len(Q) /\ n \in a .. Len(Q) /\ n \in 0 .. Len(Q) /\ n - 1 \in 0 .. Len(Q)
          /\ Due(Q, a) <= Due(Q, n - 1)
      BY <1>0, <2>1, <2>2, <2>3
    <3>2. Due(Q, n) = Due(Q, n - 1) + Q[n].delta
      BY <3>1, DueSum
    <3>3. Q[n].delta \in Nat /\ Due(Q, n - 1) \in Nat /\ Due(Q, a) \in Nat
      BY <1>0, <1>1, <3>1
    <3>4. Due(Q, a) <= Due(Q, n)
      BY <3>1, <3>2, <3>3
    <3> QED
      BY <2>1, <3>1, <3>4
  <2>4. a .. Len(Q) \subseteq S
    BY <1>0, <2>2, <2>3, Climb, Zenon
  <2> QED
    BY <2>1, <2>4
<1>3. ASSUME NEW j \in 0 .. Len(Q), NEW i \in 0 .. j
      PROVE  Due(Q, i) <= Due(Q, j)
  <2>1. i \in 0 .. Len(Q) /\ j \in i .. Len(Q)
    BY <1>0
  <2> QED
    BY <1>2, <2>1
<1> QED
  BY <1>1, <1>3

(* Two queues that carry the same deltas, s positions apart, keep the same *)
(* distance between their deadlines.                                       *)
LEMMA SameGaps ==
    ASSUME NEW P \in Seq(Entry), NEW Q \in Seq(Entry), NEW s \in Int,
           NEW a \in Nat, NEW b \in Nat, a <= b, b <= Len(P), 0 <= a + s, b + s <= Len(Q),
           \A k \in a + 1 .. b : P[k].delta = Q[k + s].delta
    PROVE  \A k \in a .. b : Due(Q, k + s) - Due(P, k) = Due(Q, a + s) - Due(P, a)
<1>0. Len(P) \in Nat /\ Len(Q) \in Nat /\ b \in Int
  OBVIOUS
<1>1. PICK S : S = {k \in a .. b : Due(Q, k + s) - Due(P, k) = Due(Q, a + s) - Due(P, a)}
  OBVIOUS
<1>2. a \in S
  BY <1>1
<1>3. ASSUME NEW n \in a + 1 .. b, n - 1 \in S
      PROVE  n \in S
  <2>1. Due(Q, (n - 1) + s) - Due(P, n - 1) = Due(Q, a + s) - Due(P, a)
    BY <1>1, <1>3
  <2>2. /\ n \in 1 .. Len(P) /\ n + s \in 1 .. Len(Q) /\ (n + s) - 1 = (n - 1) + s
        /\ n - 1 \in 0 .. Len(P) /\ (n - 1) + s \in 0 .. Len(Q)
        /\ a \in 0 .. Len(P) /\ a + s \in 0 .. Len(Q)
    BY <1>0
  <2>3. P[n].delta \in Nat /\ P[n].delta = Q[n + s].delta
    <3>1. P[n] \in Entry
      BY <2>2
    <3> QED
      BY <3>1 DEF Entry
  <2>4. Due(P, n) = Due(P, n - 1) + P[n].delta
    BY <2>2, DueSum
  <2>5. Due(Q, n + s) = Due(Q, (n - 1) + s) + Q[n + s].delta
    <3>1. Due(Q, n + s) = Due(Q, (n + s) - 1) + Q[n + s].delta
      BY <2>2, DueSum
    <3> QED
      BY <2>2, <3>1
  <2>6. Due(P, n - 1) \in Nat /\ Due(Q, (n - 1) + s) \in Nat /\ Due(P, a) \in Nat /\ Due(Q, a + s) \in Nat
    <3>1. /\ \A i \in 0 .. Len(P) : Due(P, i) \in Nat
          /\ \A i \in 0 .. Len(Q) : Due(Q, i) \in Nat
      BY DueGrows
    <3> QED
      BY <2>2, <3>1
  <2>7. Due(Q, n + s) - Due(P, n) = Due(Q, a + s) - Due(P, a)
    <3>1. \A x, y, d \in Nat : (x + d) - (y + d) = x - y
      OBVIOUS
    <3>2. Due(Q, n + s) = Due(Q, (n - 1) + s) + P[n].delta
      BY <2>3, <2>5, Zenon
    <3>3. (Due(Q, (n - 1) + s) + P[n].delta) - (Due(P, n - 1) + P[n].delta)
          = Due(Q, (n - 1) + s) - Due(P, n - 1)
      BY <2>3, <2>6, <3>1, Zenon
    <3> QED
      BY <2>1, <2>4, <3>2, <3>3, Zenon
  <2> QED
    BY <1>1, <2>7
<1>4. a .. b \subseteq S
  BY <1>0, <1>2, <1>3, Climb, Zenon
<1> QED
  BY <1>1, <1>4

(* The same for queues that agree without a shift, and with a shift by one. *)
LEMMA SamePlaces ==
    ASSUME NEW P \in Seq(Entry), NEW Q \in Seq(Entry),
           NEW a \in Nat, NEW b \in Nat, a <= b, b <= Len(P), b <= Len(Q),
           \A k \in a + 1 .. b : P[k].delta = Q[k].delta
    PROVE  \A k \in a .. b : Due(Q, k) - Due(P, k) = Due(Q, a) - Due(P, a)
<1>1. PICK s \in Int : s = 0
  OBVIOUS
<1>2. /\ \A k \in a .. b : k + s = k
      /\ \A k \in a + 1 .. b : k + s = k
      /\ a \in a .. b
  BY <1>1
<1>0. 0 <= a + s /\ b + s <= Len(Q)
  BY <1>1
<1>3. \A k \in a + 1 .. b : P[k].delta = Q[k + s].delta
  BY <1>2
<1>4. \A k \in a .. b : Due(Q, k + s) - Due(P, k) = Due(Q, a + s) - Due(P, a)
  BY <1>0, <1>1, <1>3, SameGaps, ZenonT(60)
<1>5. ASSUME NEW k \in a .. b
      PROVE  Due(Q, k) - Due(P, k) = Due(Q, a) - Due(P, a)
  <2>1. k + s = k /\ a + s = a
    BY <1>2
  <2>2. Due(Q, k + s) = Due(Q, k) /\ Due(Q, a + s) = Due(Q, a)
    BY <2>1
  <2> QED
    BY <1>4, <2>2
<1> QED
  BY <1>5

LEMMA NextPlaces ==
    ASSUME NEW P \in Seq(Entry), NEW Q \in Seq(Entry),
           NEW a \in Nat, NEW b \in Nat, a <= b, b <= Len(P), b + 1 <= Len(Q),
           \A k \in a + 1 .. b : P[k].delta = Q[k + 1].delta
    PROVE  \A k \in a .. b : Due(Q, k + 1) - Due(P, k) = Due(Q, a + 1) - Due(P, a)
<1>1. PICK s \in Int : s = 1
  OBVIOUS
<1>2. /\ \A k \in a .. b : k + s = k + 1
      /\ \A k \in a + 1 .. b : k + s = k + 1
      /\ a \in a .. b
  BY <1>1
<1>0. 0 <= a + s /\ b + s <= Len(Q)
  BY <1>1
<1>3. \A k \in a + 1 .. b : P[k].delta = Q[k + s].delta
  BY <1>2
<1>4. \A k \in a .. b : Due(Q, k + s) - Due(P, k) = Due(Q, a + s) - Due(P, a)
  BY <1>0, <1>1, <1>3, SameGaps, ZenonT(60)
<1>5. ASSUME NEW k \in a .. b
      PROVE  Due(Q, k + 1) - Due(P, k) = Due(Q, a + 1) - Due(P, a)
  <2>1. k + s = k + 1 /\ a + s = a + 1
    BY <1>2
  <2>2. Due(Q, k + s) = Due(Q, k + 1) /\ Due(Q, a + s) = Due(Q, a + 1)
    BY <2>1
  <2> QED
    BY <1>4, <2>2
<1> QED
  BY <1>5

(* A queue of timers with deltas, each timer in it at most once.           *)
DeltaQueue(Q) ==
    /\ Q \in Seq(Entry)
    /\ \A i, j \in 1 .. Len(Q) : Q[i].tmr = Q[j].tmr => i = j

(* Where a timer stands in the queue.                                      *)
LEMMA QueuedAt ==
    ASSUME NEW Q, DeltaQueue(Q)
    PROVE  /\ Len(Q) \in Nat
           /\ Queued(Q) \subseteq Timers
           /\ \A t \in Queued(Q) : \E i \in 1 .. Len(Q) : Q[i].tmr = t
           /\ \A i \in 1 .. Len(Q) :
                 /\ Q[i] \in Entry /\ Q[i].tmr \in Timers /\ Q[i].delta \in Nat
                 /\ Q[i].tmr \in Queued(Q) /\ Index(Q, Q[i].tmr) = i
                 /\ Togo(Q)[Q[i].tmr] = Due(Q, i)
<1>1. Len(Q) \in Nat /\ DOMAIN Q = 1 .. Len(Q) /\ \A i \in 1 .. Len(Q) : Q[i] \in Entry
  BY DEF DeltaQueue
<1>2. \A e \in Entry : e.tmr \in Timers /\ e.delta \in Nat
  BY DEF Entry
<1>3. Queued(Q) = {Q[i].tmr : i \in 1 .. Len(Q)}
  BY <1>1 DEF Queued
<1>4. ASSUME NEW i \in 1 .. Len(Q)
      PROVE  Index(Q, Q[i].tmr) = i
  <2>1. \A j \in 1 .. Len(Q) : Q[j].tmr = Q[i].tmr <=> j = i
    BY DEF DeltaQueue
  <2>2. Index(Q, Q[i].tmr) = CHOOSE j \in 1 .. Len(Q) : Q[j].tmr = Q[i].tmr
    BY <1>1 DEF Index
  <2> QED
    BY <2>1, <2>2
<1>5. ASSUME NEW i \in 1 .. Len(Q)
      PROVE  Togo(Q)[Q[i].tmr] = Due(Q, i)
  BY <1>1, <1>2, <1>3, <1>4 DEF Togo
<1> QED
  BY <1>1, <1>2, <1>3, <1>4, <1>5

(* What is to be shown of a queue to know the deadlines it stands for.     *)
LEMMA TogoIs ==
    ASSUME NEW Q, DeltaQueue(Q), NEW f,
           f = [t \in Timers |-> f[t]],
           \A i \in 1 .. Len(Q) : f[Q[i].tmr] = Due(Q, i),
           \A t \in Timers \ Queued(Q) : f[t] = -1
    PROVE  Togo(Q) = f
<1>1. ASSUME NEW t \in Timers
      PROVE  Togo(Q)[t] = f[t]
  <2>1. CASE t \in Queued(Q)
    BY <2>1, QueuedAt
  <2>2. CASE t \notin Queued(Q)
    BY <2>2 DEF Togo
  <2> QED
    BY <2>1, <2>2
<1>2. PICK g : g = Togo(Q)
  OBVIOUS
<1>3. g = [t \in Timers |-> g[t]]
  BY <1>2 DEF Togo
<1> QED
  BY <1>1, <1>2, <1>3

(* A queued timer has a deadline, any other has none.                      *)
LEMMA TogoType ==
    ASSUME NEW Q, DeltaQueue(Q)
    PROVE  /\ Togo(Q) \in [Timers -> Int]
           /\ \A t \in Queued(Q) : Togo(Q)[t] \in Nat
           /\ \A t \in Timers \ Queued(Q) : Togo(Q)[t] = -1
<1>1. ASSUME NEW t \in Queued(Q)
      PROVE  Togo(Q)[t] \in Nat
  <2>1. PICK i \in 1 .. Len(Q) : Q[i].tmr = t
    BY QueuedAt
  <2>2. i \in 0 .. Len(Q) /\ Q \in Seq(Entry)
    BY QueuedAt DEF DeltaQueue
  <2> QED
    BY <2>1, <2>2, QueuedAt, DueGrows
<1>2. \A t \in Timers \ Queued(Q) : Togo(Q)[t] = -1
  BY DEF Togo
<1>3. \A t \in Timers : Togo(Q)[t] \in Int
  <2>1. -1 \in Int
    OBVIOUS
  <2> QED
    BY <1>1, <1>2, <2>1
<1>4. PICK g : g = Togo(Q)
  OBVIOUS
<1>5. g = [t \in Timers |-> g[t]]
  BY <1>4 DEF Togo
<1> QED
  BY <1>1, <1>2, <1>3, <1>4, <1>5

(* The head is due first, after its own delta.                             *)
LEMMA HeadFirst ==
    ASSUME NEW Q, DeltaQueue(Q), Q # <<>>
    PROVE  /\ Head(Q) \in Entry /\ Head(Q) = Q[1] /\ 1 \in 1 .. Len(Q)
           /\ Head(Q).tmr \in Queued(Q) /\ Head(Q).delta \in Nat
           /\ Togo(Q)[Head(Q).tmr] = Head(Q).delta
           /\ \A t \in Queued(Q) : Head(Q).delta <= Togo(Q)[t]
<1>1. Q \in Seq(Entry) /\ 1 \in 1 .. Len(Q) /\ Head(Q) = Q[1] /\ Len(Q) \in Nat
  BY DEF DeltaQueue
<1>2. Head(Q) \in Entry /\ Head(Q).tmr \in Queued(Q) /\ Head(Q).delta \in Nat
  BY <1>1, QueuedAt
<1>3. Due(Q, 1) = Head(Q).delta
  <2>1. Due(Q, 1) = Due(Q, 1 - 1) + Q[1].delta /\ Due(Q, 0) = 0
    BY <1>1, DueSum
  <2> QED
    BY <1>1, <1>2, <2>1
<1>4. Togo(Q)[Head(Q).tmr] = Head(Q).delta
  BY <1>1, <1>3, QueuedAt
<1>5. ASSUME NEW t \in Queued(Q)
      PROVE  Head(Q).delta <= Togo(Q)[t]
  <2>1. PICK i \in 1 .. Len(Q) : Q[i].tmr = t
    BY QueuedAt
  <2>2. i \in 0 .. Len(Q) /\ 1 \in 0 .. i
    BY <1>1
  <2>3. Due(Q, 1) <= Due(Q, i)
    BY <1>1, <2>2, DueGrows
  <2> QED
    BY <1>3, <2>1, <2>3, QueuedAt
<1> QED
  BY <1>1, <1>2, <1>4, <1>5

(* A queue with one delta replaced.                                        *)
LEMMA Adjusted ==
    ASSUME NEW Q \in Seq(Entry), NEW i \in 1 .. Len(Q), NEW d \in Nat
    PROVE  LET R == [Q EXCEPT ![i].delta = d]
           IN  /\ R \in Seq(Entry) /\ Len(R) = Len(Q) /\ R[i].delta = d
               /\ \A j \in 1 .. Len(Q) : R[j].tmr = Q[j].tmr
               /\ \A j \in 1 .. Len(Q) : j # i => R[j] = Q[j]
<1>1. PICK R : R = [Q EXCEPT ![i].delta = d]
  OBVIOUS
<1>2. PICK e : e = [Q[i] EXCEPT !.delta = d]
  OBVIOUS
<1>3. R = [Q EXCEPT ![i] = e]
  BY <1>1, <1>2
<1>4. e \in Entry /\ e.delta = d /\ e.tmr = Q[i].tmr
  <2>1. Q[i] \in Entry
    OBVIOUS
  <2> QED
    BY <1>2, <2>1 DEF Entry
<1>5. R \in Seq(Entry) /\ Len(R) = Len(Q) /\ R[i] = e /\ \A j \in 1 .. Len(Q) : j # i => R[j] = Q[j]
  BY <1>3, <1>4, ExceptSeq
<1> QED
  BY <1>1, <1>4, <1>5

-----------------------------------------------------------------------------
(* Unlink takes one timer out and leaves every other deadline where it was:*)
(* the successor is handed the delta that leaves.                          *)
LEMMA UnlinkTogo ==
    ASSUME NEW Q, DeltaQueue(Q), NEW t \in Timers
    PROVE  /\ DeltaQueue(Unlink(Q, t))
           /\ Queued(Unlink(Q, t)) = Queued(Q) \ {t}
           /\ Togo(Unlink(Q, t)) = [Togo(Q) EXCEPT ![t] = -1]
<1>1. CASE t \notin Queued(Q)
  <2>1. Unlink(Q, t) = Q
    BY <1>1 DEF Unlink
  <2>2. Togo(Q) = [Togo(Q) EXCEPT ![t] = -1]
    BY <1>1, TogoType
  <2> QED
    BY <1>1, <2>1, <2>2
<1>2. CASE t \in Queued(Q)
  <2>1. PICK i \in 1 .. Len(Q) : Q[i].tmr = t /\ i = Index(Q, t)
    BY <1>2, QueuedAt
  <2>2. Q \in Seq(Entry) /\ Len(Q) \in Nat /\ Len(Q) \in Int /\ i \in Nat
    BY QueuedAt DEF DeltaQueue
  <2>3. PICK P : P = IF i = Len(Q) THEN Q ELSE [Q EXCEPT ![i + 1].delta = @ + Q[i].delta]
    OBVIOUS
  <2>4. /\ P \in Seq(Entry) /\ Len(P) = Len(Q)
        /\ \A j \in 1 .. Len(Q) : P[j].tmr = Q[j].tmr
        /\ \A j \in 1 .. Len(Q) : j # i + 1 => P[j] = Q[j]
        /\ i < Len(Q) => P[i + 1].delta = Q[i + 1].delta + Q[i].delta
    <3>1. CASE i = Len(Q)
      BY <2>2, <2>3, <3>1
    <3>2. CASE i < Len(Q)
      <4>1. i + 1 \in 1 .. Len(Q) /\ Q[i + 1].delta + Q[i].delta \in Nat
        BY <2>2, <3>2, QueuedAt
      <4>2. P = [Q EXCEPT ![i + 1].delta = Q[i + 1].delta + Q[i].delta]
        BY <2>3, <3>2, <4>1
      <4> QED
        BY <2>2, <4>1, <4>2, Adjusted
    <3> QED
      BY <2>2, <3>1, <3>2
  <2>5. PICK R : R = Unlink(Q, t)
    OBVIOUS
  <2>6. R = RemoveAt(P, i)
    BY <1>2, <2>1, <2>3, <2>5 DEF Unlink
  <2>7. /\ R \in Seq(Entry) /\ Len(R) = Len(Q) - 1
        /\ \A j \in 1 .. i - 1 : R[j] = Q[j]
        /\ \A j \in i .. Len(Q) - 1 : R[j].tmr = Q[j + 1].tmr
        /\ \A j \in i + 1 .. Len(Q) - 1 : R[j] = Q[j + 1]
        /\ i < Len(Q) => R[i].delta = Q[i + 1].delta + Q[i].delta
    <3>1. /\ R \in Seq(Entry) /\ Len(R) = Len(Q) - 1
          /\ \A j \in 1 .. i - 1 : R[j] = P[j]
          /\ \A j \in i .. Len(Q) - 1 : R[j] = P[j + 1]
      <4>1. i \in 1 .. Len(P)
        BY <2>4
      <4>2. /\ R \in Seq(Entry) /\ Len(R) = Len(P) - 1
            /\ \A j \in 1 .. i - 1 : R[j] = P[j]
            /\ \A j \in i .. Len(P) - 1 : R[j] = P[j + 1]
        BY <2>4, <2>6, <4>1, Removed
      <4> QED
        BY <2>4, <4>2
    <3>2. /\ \A j \in 1 .. i - 1 : j \in 1 .. Len(Q) /\ j # i + 1
          /\ \A j \in i .. Len(Q) - 1 : j + 1 \in 1 .. Len(Q)
          /\ \A j \in i + 1 .. Len(Q) - 1 : j \in i .. Len(Q) - 1 /\ j + 1 # i + 1
          /\ i < Len(Q) => i \in i .. Len(Q) - 1
      BY <2>2
    <3>3. i < Len(Q) => R[i] = P[i + 1]
      BY <3>1, <3>2
    <3>4. \A j \in i .. Len(Q) - 1 : R[j].tmr = Q[j + 1].tmr
      BY <2>4, <3>1, <3>2
    <3>5. \A j \in i + 1 .. Len(Q) - 1 : R[j] = Q[j + 1]
      BY <2>4, <3>1, <3>2
    <3>6. \A j \in 1 .. i - 1 : R[j] = Q[j]
      BY <2>4, <3>1, <3>2
    <3> QED
      BY <2>4, <3>1, <3>3, <3>4, <3>5, <3>6
  <2>8. \A j \in 0 .. i - 1 : Due(R, j) = Due(Q, j)
    <3>1. \A k \in 0 + 1 .. i - 1 : R[k].delta = Q[k].delta
      BY <2>7
    <3>2. \A k \in 0 .. i - 1 : Due(Q, k) - Due(R, k) = Due(Q, 0) - Due(R, 0)
      <4>1. 0 \in Nat /\ i - 1 \in Nat /\ 0 <= i - 1 /\ i - 1 <= Len(R) /\ i - 1 <= Len(Q)
        BY <2>2, <2>7
      <4> QED
        BY <2>2, <2>7, <3>1, <4>1, SamePlaces
    <3>3. ASSUME NEW j \in 0 .. i - 1
          PROVE  Due(R, j) = Due(Q, j)
      <4>1. j \in 0 .. Len(R) /\ j \in 0 .. Len(Q)
        BY <2>2, <2>7
      <4>2. Due(R, j) \in Nat /\ Due(Q, j) \in Nat
        BY <2>2, <2>7, <4>1, DueGrows
      <4> QED
        BY <2>2, <2>7, <3>2, <4>1, <4>2, DueSum
    <3> QED
      BY <3>3
  <2>9. \A j \in i .. Len(R) : Due(R, j) = Due(Q, j + 1)
    <3>1. CASE i = Len(Q)
      BY <2>2, <2>7, <3>1
    <3>2. CASE i < Len(Q)
      <4>1. /\ i \in 1 .. Len(R) /\ i \in 1 .. Len(Q) /\ i + 1 \in 1 .. Len(Q) /\ (i + 1) - 1 = i
            /\ i - 1 \in 0 .. i - 1 /\ i - 1 \in 0 .. Len(Q)
        BY <2>2, <2>7, <3>2
      <4>2. Due(R, i) = Due(Q, i + 1)
        <5>1. Due(R, i) = Due(R, i - 1) + (Q[i + 1].delta + Q[i].delta)
          BY <2>7, <3>2, <4>1, DueSum
        <5>2. Due(Q, i) = Due(Q, i - 1) + Q[i].delta
          BY <2>2, <4>1, DueSum
        <5>3. Due(Q, i + 1) = Due(Q, i) + Q[i + 1].delta
          BY <2>2, <4>1, DueSum
        <5>4. Due(Q, i - 1) \in Nat /\ Q[i].delta \in Nat /\ Q[i + 1].delta \in Nat /\ Due(R, i - 1) = Due(Q, i - 1)
          BY <2>2, <2>8, <4>1, DueGrows, QueuedAt
        <5> QED
          BY <5>1, <5>2, <5>3, <5>4
      <4>3. i \in Nat /\ Len(R) \in Nat /\ i <= Len(R) /\ Len(R) <= Len(R) /\ Len(R) + 1 <= Len(Q)
        BY <2>2, <2>7, <3>2
      <4>4. \A k \in i + 1 .. Len(R) : R[k].delta = Q[k + 1].delta
        BY <2>7
      <4>5. \A k \in i .. Len(R) : Due(Q, k + 1) - Due(R, k) = Due(Q, i + 1) - Due(R, i)
        BY <2>2, <2>7, <4>3, <4>4, NextPlaces
      <4>6. ASSUME NEW j \in i .. Len(R)
            PROVE  Due(R, j) = Due(Q, j + 1)
        <5>1. j \in 0 .. Len(R) /\ j + 1 \in 0 .. Len(Q) /\ i \in 0 .. Len(R)
          BY <2>2, <2>7, <3>2
        <5>2. Due(R, j) \in Nat /\ Due(Q, j + 1) \in Nat /\ Due(R, i) \in Nat
          BY <2>2, <2>7, <5>1, DueGrows
        <5> QED
          BY <4>2, <4>5, <5>2
      <4> QED
        BY <4>6
    <3> QED
      BY <2>2, <3>1, <3>2
  <2>10. DeltaQueue(R)
    <3>1. \A a, b \in 1 .. Len(R) : R[a].tmr = R[b].tmr => a = b
      <4>1. \A a \in 1 .. Len(R) : R[a].tmr = Q[IF a < i THEN a ELSE a + 1].tmr
        BY <2>2, <2>7
      <4>2. \A a \in 1 .. Len(R) : (IF a < i THEN a ELSE a + 1) \in 1 .. Len(Q)
        BY <2>2, <2>7
      <4>3. \A a, b \in 1 .. Len(R) : (IF a < i THEN a ELSE a + 1) = (IF b < i THEN b ELSE b + 1) => a = b
        BY <2>2
      <4> QED
        BY <4>1, <4>2, <4>3 DEF DeltaQueue
    <3> QED
      BY <2>7, <3>1 DEF DeltaQueue
  <2>11. Queued(R) = Queued(Q) \ {t}
    <3>1. ASSUME NEW u \in Queued(R)
          PROVE  u \in Queued(Q) \ {t}
      <4>1. PICK a \in 1 .. Len(R) : R[a].tmr = u
        BY <2>10, QueuedAt
      <4>2. PICK b \in 1 .. Len(Q) : b # i /\ Q[b].tmr = u
        <5>1. CASE a < i
          BY <2>2, <2>7, <4>1, <5>1
        <5>2. CASE i <= a
          BY <2>2, <2>7, <4>1, <5>2
        <5> QED
          BY <2>2, <5>1, <5>2
      <4> QED
        BY <2>1, <4>2, QueuedAt DEF DeltaQueue
    <3>2. ASSUME NEW u \in Queued(Q) \ {t}
          PROVE  u \in Queued(R)
      <4>1. PICK b \in 1 .. Len(Q) : Q[b].tmr = u /\ b # i
        BY <2>1, QueuedAt
      <4>2. PICK a \in 1 .. Len(R) : R[a].tmr = u
        <5>1. CASE b < i
          <6>1. b \in 1 .. i - 1 /\ b \in 1 .. Len(R)
            BY <2>2, <2>7, <5>1
          <6> QED
            BY <2>7, <4>1, <6>1
        <5>2. CASE i < b
          <6>1. b - 1 \in i .. Len(Q) - 1 /\ b - 1 \in 1 .. Len(R) /\ (b - 1) + 1 = b
            BY <2>2, <2>7, <5>2
          <6>2. R[b - 1].tmr = u
            BY <2>7, <4>1, <6>1
          <6> QED
            BY <6>1, <6>2
        <5> QED
          BY <2>2, <4>1, <5>1, <5>2
      <4> QED
        BY <2>10, <4>2, QueuedAt
    <3> QED
      BY <3>1, <3>2
  <2>12. Togo(R) = [Togo(Q) EXCEPT ![t] = -1]
    <3>1. PICK f : f = [Togo(Q) EXCEPT ![t] = -1]
      OBVIOUS
    <3>2. f = [u \in Timers |-> f[u]] /\ f[t] = -1 /\ \A u \in Timers \ {t} : f[u] = Togo(Q)[u]
      BY <3>1, TogoType
    <3>3. ASSUME NEW a \in 1 .. Len(R)
          PROVE  f[R[a].tmr] = Due(R, a)
      <4>1. R[a].tmr \in Timers \ {t}
        BY <2>10, <2>11, QueuedAt
      <4>2. CASE a < i
        <5>1. a \in 1 .. i - 1 /\ a \in 0 .. i - 1 /\ a \in 1 .. Len(Q)
          BY <2>2, <4>2
        <5> QED
          BY <2>7, <2>8, <3>2, <4>1, <5>1, QueuedAt
      <4>3. CASE i <= a
        <5>1. a \in i .. Len(Q) - 1 /\ a \in i .. Len(R) /\ a + 1 \in 1 .. Len(Q)
          BY <2>2, <2>7, <4>3
        <5>2. R[a].tmr = Q[a + 1].tmr /\ Due(R, a) = Due(Q, a + 1)
          BY <2>7, <2>9, <5>1
        <5>3. Togo(Q)[Q[a + 1].tmr] = Due(Q, a + 1)
          BY <5>1, QueuedAt
        <5> QED
          BY <3>2, <4>1, <5>2, <5>3
      <4> QED
        BY <2>2, <4>2, <4>3
    <3>4. \A u \in Timers \ Queued(R) : f[u] = -1
      BY <2>11, <3>2, TogoType
    <3> QED
      <4>1. Togo(R) = f
        <5>1. f = [u \in Timers |-> f[u]]
          BY <3>2
        <5> QED
          BY <2>10, <3>3, <3>4, <5>1, TogoIs
      <4> QED
        BY <3>1, <4>1
  <2> QED
    BY <2>5, <2>10, <2>11, <2>12
<1> QED
  BY <1>1, <1>2

(* The entries due no later than n are the first k of the queue, which is  *)
(* where tmr_start's walk stops.                                           *)
LEMMA SplicePoint ==
    ASSUME NEW Q \in Seq(Entry), NEW n \in Nat
    PROVE  LET k == Cardinality({i \in DOMAIN Q : Due(Q, i) <= n})
           IN  k \in 0 .. Len(Q) /\ Due(Q, k) <= n /\ (k < Len(Q) => n < Due(Q, k + 1))
<1>1. PICK A : A = {i \in DOMAIN Q : Due(Q, i) <= n}
  OBVIOUS
<1>2. Len(Q) \in Nat /\ DOMAIN Q = 1 .. Len(Q)
  OBVIOUS
<1>3. PICK k \in 0 .. Len(Q) : A = 1 .. k
  <2>1. PICK B : B = (1 .. Len(Q)) \ A
    OBVIOUS
  <2>2. CASE B = {}
    <3>1. A = 1 .. Len(Q) /\ Len(Q) \in 0 .. Len(Q)
      BY <1>1, <1>2, <2>1, <2>2
    <3> QED
      BY <3>1
  <2>3. CASE B # {}
    <3>1. B \subseteq Nat
      BY <2>1
    <3>2. PICK m \in B : \A j \in B : m <= j
      BY <2>3, <3>1, Least
    <3>3. m \in 1 .. Len(Q) /\ m \in 0 .. Len(Q) /\ ~ (Due(Q, m) <= n)
      BY <1>1, <1>2, <2>1, <3>2
    <3>4. ASSUME NEW j \in A
          PROVE  j \in 1 .. m - 1
      <4>1. j \in 1 .. Len(Q) /\ j \in 0 .. Len(Q) /\ Due(Q, j) <= n
        BY <1>1, <1>2
      <4>2. CASE m <= j
        <5>1. m \in 0 .. j
          BY <1>2, <3>3, <4>1, <4>2
        <5>2. Due(Q, m) <= Due(Q, j) /\ Due(Q, m) \in Nat /\ Due(Q, j) \in Nat
          BY <3>3, <4>1, <5>1, DueGrows
        <5> QED
          BY <3>3, <4>1, <5>2
      <4> QED
        BY <1>2, <3>3, <4>1, <4>2
    <3>5. ASSUME NEW j \in 1 .. m - 1
          PROVE  j \in A
      <4>1. j \in 1 .. Len(Q) /\ ~ (m <= j)
        BY <1>2, <3>3
      <4>2. j \notin B
        BY <3>2, <4>1
      <4> QED
        BY <2>1, <4>1, <4>2
    <3>6. A = 1 .. m - 1 /\ m - 1 \in 0 .. Len(Q)
      <4>1. A = 1 .. m - 1
        BY <3>4, <3>5
      <4>2. m - 1 \in 0 .. Len(Q)
        BY <1>2, <3>3
      <4> QED
        BY <4>1, <4>2
    <3> QED
      BY <3>6
  <2> QED
    BY <2>2, <2>3
<1>4. Cardinality(A) = k
  <2>1. 1 \in Int /\ k \in Int /\ k >= 0
    OBVIOUS
  <2>2. Cardinality(1 .. k) = IF 1 > k THEN 0 ELSE k - 1 + 1
    BY <2>1, FS_Interval
  <2> QED
    BY <1>3, <2>1, <2>2
<1>5. Due(Q, k) <= n
  <2>1. CASE k = 0
    BY <2>1, DueSum
  <2>2. CASE k > 0
    <3>1. k \in A
      BY <1>3, <2>2
    <3> QED
      BY <1>1, <3>1
  <2> QED
    BY <2>1, <2>2
<1>6. ASSUME k < Len(Q)
      PROVE  n < Due(Q, k + 1)
  <2>1. k + 1 \in 1 .. Len(Q) /\ k + 1 \in 0 .. Len(Q) /\ k + 1 \notin A
    BY <1>2, <1>3, <1>6
  <2>2. ~ (Due(Q, k + 1) <= n)
    BY <1>1, <1>2, <2>1
  <2>3. Due(Q, k + 1) \in Nat
    BY <2>1, DueGrows
  <2> QED
    BY <2>2, <2>3
<1> QED
  BY <1>1, <1>4, <1>5, <1>6

(* Splice queues a timer for n and leaves every other deadline where it    *)
(* was: the successor is measured from the newcomer.                       *)
LEMMA SpliceTogo ==
    ASSUME NEW Q, DeltaQueue(Q), NEW t \in Timers \ Queued(Q), NEW n \in Nat
    PROVE  /\ DeltaQueue(Splice(Q, t, n)) /\ Splice(Q, t, n) # <<>>
           /\ Queued(Splice(Q, t, n)) = Queued(Q) \cup {t}
           /\ Togo(Splice(Q, t, n)) = [Togo(Q) EXCEPT ![t] = n]
<1>0. Q \in Seq(Entry) /\ Len(Q) \in Nat
  BY QueuedAt DEF DeltaQueue
<1>1. PICK k : k = Cardinality({i \in DOMAIN Q : Due(Q, i) <= n})
  OBVIOUS
<1>2. k \in 0 .. Len(Q) /\ Due(Q, k) <= n /\ (k < Len(Q) => n < Due(Q, k + 1))
  BY <1>0, <1>1, SplicePoint
<1>3. PICK d : d = n - Due(Q, k)
  OBVIOUS
<1>4. d \in Nat /\ Due(Q, k) \in Nat /\ Due(Q, k) + d = n
  <2>1. Due(Q, k) \in Nat
    BY <1>0, <1>2, DueGrows
  <2> QED
    BY <1>2, <1>3, <2>1
<1>5. PICK P : P = IF k = Len(Q) THEN Q ELSE [Q EXCEPT ![k + 1].delta = @ - d]
  OBVIOUS
<1>6. /\ P \in Seq(Entry) /\ Len(P) = Len(Q)
      /\ \A j \in 1 .. Len(Q) : P[j].tmr = Q[j].tmr
      /\ \A j \in 1 .. Len(Q) : j # k + 1 => P[j] = Q[j]
      /\ k < Len(Q) => P[k + 1].delta = Q[k + 1].delta - d
  <2>1. CASE k = Len(Q)
    BY <1>0, <1>2, <1>5, <2>1
  <2>2. CASE k < Len(Q)
    <3>1. k + 1 \in 1 .. Len(Q) /\ (k + 1) - 1 = k
      BY <1>0, <1>2, <2>2
    <3>2. Q[k + 1].delta - d \in Nat
      <4>1. Due(Q, k + 1) = Due(Q, (k + 1) - 1) + Q[k + 1].delta /\ Q[k + 1].delta \in Nat
        BY <1>0, <3>1, DueSum, QueuedAt
      <4> QED
        BY <1>2, <1>4, <2>2, <3>1, <4>1
    <3>3. P = [Q EXCEPT ![k + 1].delta = Q[k + 1].delta - d]
      BY <1>0, <1>5, <2>2, <3>1
    <3> QED
      BY <1>0, <3>1, <3>2, <3>3, Adjusted
  <2> QED
    BY <1>0, <1>2, <2>1, <2>2
<1>7. PICK e : e = [tmr |-> t, delta |-> d]
  OBVIOUS
<1>8. e \in Entry /\ e.tmr = t /\ e.delta = d
  BY <1>4, <1>7 DEF Entry
<1>9. PICK R : R = Splice(Q, t, n)
  OBVIOUS
<1>10. R = InsertAt(P, k + 1, e)
  BY <1>1, <1>3, <1>5, <1>7, <1>9 DEF Splice
<1>11. /\ R \in Seq(Entry) /\ Len(R) = Len(Q) + 1 /\ R[k + 1] = e
       /\ \A j \in 1 .. k : R[j] = Q[j]
       /\ \A j \in k + 2 .. Len(Q) + 1 : R[j].tmr = Q[j - 1].tmr
       /\ \A j \in k + 3 .. Len(Q) + 1 : R[j] = Q[j - 1]
       /\ k < Len(Q) => R[k + 2].delta = Q[k + 1].delta - d
  <2>1. /\ R \in Seq(Entry) /\ Len(R) = Len(P) + 1 /\ R[k + 1] = e
        /\ \A j \in 1 .. k : R[j] = P[j]
        /\ \A j \in k + 2 .. Len(P) + 1 : R[j] = P[j - 1]
    <3>1. k \in 0 .. Len(P) /\ P \in Seq(Entry)
      BY <1>2, <1>6
    <3>2. R \in Seq(Entry) /\ Len(R) = Len(P) + 1
      BY <1>8, <1>10, <3>1, Inserted
    <3>3. R[k + 1] = e
      BY <1>8, <1>10, <3>1, Inserted
    <3>4. \A j \in 1 .. k : R[j] = P[j]
      BY <1>8, <1>10, <3>1, Inserted
    <3>5. \A j \in k + 2 .. Len(P) + 1 : R[j] = P[j - 1]
      BY <1>8, <1>10, <3>1, Inserted
    <3> QED
      BY <3>2, <3>3, <3>4, <3>5
  <2>2. \A j \in 1 .. k : R[j] = Q[j]
    <3>1. \A j \in 1 .. k : j \in 1 .. Len(Q) /\ j # k + 1
      BY <1>0, <1>2
    <3> QED
      BY <1>6, <2>1, <3>1
  <2>3. ASSUME NEW j \in k + 2 .. Len(Q) + 1
        PROVE  R[j].tmr = Q[j - 1].tmr
    <3>1. j - 1 \in 1 .. Len(Q) /\ j \in k + 2 .. Len(P) + 1
      BY <1>0, <1>2, <1>6
    <3> QED
      BY <1>6, <2>1, <3>1
  <2>4. ASSUME NEW j \in k + 3 .. Len(Q) + 1
        PROVE  R[j] = Q[j - 1]
    <3>1. j - 1 \in 1 .. Len(Q) /\ j \in k + 2 .. Len(P) + 1 /\ j - 1 # k + 1
      BY <1>0, <1>2, <1>6
    <3> QED
      BY <1>6, <2>1, <3>1
  <2>5. ASSUME k < Len(Q)
        PROVE  R[k + 2].delta = Q[k + 1].delta - d
    <3>1. k + 2 \in k + 2 .. Len(P) + 1 /\ (k + 2) - 1 = k + 1
      BY <1>0, <1>2, <1>6, <2>5
    <3>2. R[k + 2] = P[(k + 2) - 1]
      BY <2>1, <3>1
    <3> QED
      BY <1>6, <2>5, <3>1, <3>2
  <2> QED
    BY <1>6, <2>1, <2>2, <2>3, <2>4, <2>5
<1>12. \A j \in 0 .. k : Due(R, j) = Due(Q, j)
  <2>1. \A i \in 0 + 1 .. k : R[i].delta = Q[i].delta
    BY <1>2, <1>11
  <2>2. \A i \in 0 .. k : Due(Q, i) - Due(R, i) = Due(Q, 0) - Due(R, 0)
    <3>1. 0 \in Nat /\ k \in Nat /\ 0 <= k /\ k <= Len(R) /\ k <= Len(Q)
      BY <1>0, <1>2, <1>11
    <3> QED
      BY <1>0, <1>11, <2>1, <3>1, SamePlaces
  <2>3. ASSUME NEW j \in 0 .. k
        PROVE  Due(R, j) = Due(Q, j)
    <3>1. j \in 0 .. Len(R) /\ j \in 0 .. Len(Q)
      BY <1>0, <1>2, <1>11
    <3>2. Due(R, j) \in Nat /\ Due(Q, j) \in Nat
      BY <1>0, <1>11, <3>1, DueGrows
    <3> QED
      BY <1>0, <1>11, <2>2, <3>1, <3>2, DueSum
  <2> QED
    BY <2>3
<1>13. Due(R, k + 1) = n
  <2>1. k + 1 \in 1 .. Len(R) /\ (k + 1) - 1 = k /\ k \in 0 .. k
    BY <1>0, <1>2, <1>11
  <2>2. Due(R, k + 1) = Due(R, (k + 1) - 1) + R[k + 1].delta
    BY <1>11, <2>1, DueSum
  <2>3. Due(R, k) = Due(Q, k) /\ R[k + 1].delta = d
    BY <1>8, <1>11, <1>12, <2>1
  <2> QED
    BY <1>4, <2>1, <2>2, <2>3
<1>14. \A j \in k + 1 .. Len(Q) : Due(R, j + 1) = Due(Q, j)
  <2>1. CASE k = Len(Q)
    BY <1>0, <2>1
  <2>2. CASE k < Len(Q)
    <3>1. /\ k + 2 \in 1 .. Len(R) /\ k + 1 \in 1 .. Len(Q) /\ (k + 1) - 1 = k
          /\ (k + 2) - 1 = k + 1 /\ (k + 1) + 1 = k + 2
      BY <1>0, <1>2, <1>11, <2>2
    <3>2. Due(R, k + 2) = Due(Q, k + 1)
      <4>1. Due(R, k + 2) = Due(R, (k + 2) - 1) + R[k + 2].delta
        BY <1>11, <3>1, DueSum
      <4>2. Due(Q, k + 1) = Due(Q, (k + 1) - 1) + Q[k + 1].delta /\ Q[k + 1].delta \in Nat
        BY <1>0, <3>1, DueSum, QueuedAt
      <4> QED
        BY <1>4, <1>11, <1>13, <2>2, <3>1, <4>1, <4>2
    <3>3. /\ k + 1 \in Nat /\ Len(Q) \in Nat /\ k + 1 <= Len(Q) /\ Len(Q) <= Len(Q)
          /\ Len(Q) + 1 <= Len(R)
      BY <1>0, <1>2, <1>11, <2>2
    <3>4. \A i \in (k + 1) + 1 .. Len(Q) : Q[i].delta = R[i + 1].delta
      <4>1. ASSUME NEW i \in (k + 1) + 1 .. Len(Q)
            PROVE  Q[i].delta = R[i + 1].delta
        <5>1. i + 1 \in k + 3 .. Len(Q) + 1 /\ (i + 1) - 1 = i
          BY <1>0, <1>2
        <5>2. R[i + 1] = Q[(i + 1) - 1]
          BY <1>11, <5>1
        <5> QED
          BY <5>1, <5>2
      <4> QED
        BY <4>1
    <3>5. \A i \in k + 1 .. Len(Q) : Due(R, i + 1) - Due(Q, i) = Due(R, (k + 1) + 1) - Due(Q, k + 1)
      BY <1>0, <1>11, <3>3, <3>4, NextPlaces
    <3>6. ASSUME NEW j \in k + 1 .. Len(Q)
          PROVE  Due(R, j + 1) = Due(Q, j)
      <4>1. j \in 0 .. Len(Q) /\ j + 1 \in 0 .. Len(R) /\ k + 1 \in 0 .. Len(Q)
        BY <1>0, <1>2, <1>11, <2>2
      <4>2. Due(R, j + 1) \in Nat /\ Due(Q, j) \in Nat /\ Due(Q, k + 1) \in Nat
        BY <1>0, <1>11, <4>1, DueGrows
      <4> QED
        BY <3>1, <3>2, <3>5, <4>2
    <3> QED
      BY <3>6
  <2> QED
    BY <1>0, <1>2, <2>1, <2>2
<1>15. /\ \A j \in 1 .. Len(R) : j <= k \/ j = k + 1 \/ j \in k + 2 .. Len(Q) + 1
       /\ \A j \in 1 .. k : j \in 1 .. Len(Q)
       /\ \A j \in k + 2 .. Len(Q) + 1 : j - 1 \in k + 1 .. Len(Q) /\ j - 1 \in 1 .. Len(Q) /\ (j - 1) + 1 = j
  BY <1>0, <1>2, <1>11
<1>16. DeltaQueue(R)
  <2>1. ASSUME NEW a \in 1 .. Len(R), a # k + 1
        PROVE  LET j == IF a <= k THEN a ELSE a - 1
               IN  j \in 1 .. Len(Q) /\ R[a].tmr = Q[j].tmr
    <3>1. CASE a <= k
      BY <1>0, <1>2, <1>11, <1>15, <3>1
    <3>2. CASE a \in k + 2 .. Len(Q) + 1
      BY <1>0, <1>2, <1>11, <1>15, <3>2
    <3> QED
      BY <1>15, <2>1, <3>1, <3>2
  <2>2. ASSUME NEW a \in 1 .. Len(R), a # k + 1
        PROVE  R[a].tmr # t
    <3>1. PICK j \in 1 .. Len(Q) : R[a].tmr = Q[j].tmr
      BY <2>1, <2>2
    <3> QED
      BY <3>1, QueuedAt
  <2>3. R[k + 1].tmr = t
    BY <1>8, <1>11
  <2>4. ASSUME NEW a \in 1 .. Len(R), NEW b \in 1 .. Len(R), R[a].tmr = R[b].tmr, a # k + 1, b # k + 1
        PROVE  a = b
    <3>1. (IF a <= k THEN a ELSE a - 1) = (IF b <= k THEN b ELSE b - 1)
      BY <2>1, <2>4 DEF DeltaQueue
    <3> QED
      BY <1>2, <2>4, <3>1
  <2>5. \A a, b \in 1 .. Len(R) : R[a].tmr = R[b].tmr => a = b
    BY <2>2, <2>3, <2>4
  <2> QED
    BY <1>11, <2>5 DEF DeltaQueue
<1>17. Queued(R) = Queued(Q) \cup {t}
  <2>1. ASSUME NEW u \in Queued(R)
        PROVE  u \in Queued(Q) \cup {t}
    <3>1. PICK a \in 1 .. Len(R) : R[a].tmr = u
      BY <1>16, QueuedAt
    <3>2. CASE a <= k
      BY <1>0, <1>2, <1>11, <1>15, <3>1, <3>2, QueuedAt
    <3>3. CASE a = k + 1
      BY <1>8, <1>11, <3>1, <3>3
    <3>4. CASE a \in k + 2 .. Len(Q) + 1
      BY <1>11, <1>15, <3>1, <3>4, QueuedAt
    <3> QED
      BY <1>15, <3>2, <3>3, <3>4
  <2>2. k + 1 \in 1 .. Len(R)
    BY <1>0, <1>2, <1>11
  <2>3. t \in Queued(R)
    BY <1>8, <1>11, <1>16, <2>2, QueuedAt
  <2>4. ASSUME NEW u \in Queued(Q)
        PROVE  u \in Queued(R)
    <3>1. PICK b \in 1 .. Len(Q) : Q[b].tmr = u
      BY QueuedAt
    <3>2. CASE b <= k
      <4>1. b \in 1 .. k /\ b \in 1 .. Len(R)
        BY <1>0, <1>2, <1>11, <3>2
      <4>2. R[b].tmr = u
        BY <1>11, <3>1, <4>1
      <4> QED
        BY <1>16, <4>1, <4>2, QueuedAt
    <3>3. CASE k < b
      <4>1. b + 1 \in k + 2 .. Len(Q) + 1 /\ b + 1 \in 1 .. Len(R) /\ (b + 1) - 1 = b
        BY <1>0, <1>2, <1>11, <3>3
      <4>2. R[b + 1].tmr = u
        BY <1>11, <3>1, <4>1
      <4> QED
        BY <1>16, <4>1, <4>2, QueuedAt
    <3> QED
      BY <1>2, <3>2, <3>3
  <2> QED
    BY <2>1, <2>3, <2>4
<1>18. Togo(R) = [Togo(Q) EXCEPT ![t] = n]
  <2>1. PICK f : f = [Togo(Q) EXCEPT ![t] = n]
    OBVIOUS
  <2>2. f = [u \in Timers |-> f[u]]
    BY <2>1, TogoType
  <2>3. f[t] = n /\ \A u \in Timers \ {t} : f[u] = Togo(Q)[u]
    BY <2>1, TogoType
  <2>4. ASSUME NEW a \in 1 .. Len(R)
        PROVE  f[R[a].tmr] = Due(R, a)
    <3>1. CASE a <= k
      <4>1. a \in 1 .. k /\ a \in 0 .. k /\ a \in 1 .. Len(Q)
        BY <1>0, <1>2, <3>1
      <4>2. Q[a].tmr \in Timers \ {t} /\ Togo(Q)[Q[a].tmr] = Due(Q, a)
        BY <4>1, QueuedAt
      <4> QED
        BY <1>11, <1>12, <2>3, <4>1, <4>2
    <3>2. CASE a = k + 1
      BY <1>8, <1>11, <1>13, <2>3, <3>2
    <3>3. CASE a \in k + 2 .. Len(Q) + 1
      <4>1. a - 1 \in k + 1 .. Len(Q) /\ a - 1 \in 1 .. Len(Q) /\ (a - 1) + 1 = a
        BY <1>15, <3>3
      <4>2. Q[a - 1].tmr \in Timers \ {t} /\ Togo(Q)[Q[a - 1].tmr] = Due(Q, a - 1)
        BY <4>1, QueuedAt
      <4>3. R[a].tmr = Q[a - 1].tmr
        BY <1>11, <3>3
      <4>4. Due(R, (a - 1) + 1) = Due(Q, a - 1)
        BY <1>14, <4>1
      <4> QED
        BY <2>3, <4>1, <4>2, <4>3, <4>4
    <3> QED
      BY <1>15, <3>1, <3>2, <3>3
  <2>5. \A u \in Timers \ Queued(R) : f[u] = -1
    BY <1>17, <2>3, TogoType
  <2>6. Togo(R) = f
    BY <1>16, <2>2, <2>4, <2>5, TogoIs
  <2> QED
    BY <2>1, <2>6
<1>19. R # <<>>
  BY <1>0, <1>11
<1> QED
  BY <1>9, <1>16, <1>17, <1>18, <1>19

(* Without its head the queue is measured from the head's deadline.        *)
LEMMA TailTogo ==
    ASSUME NEW Q, DeltaQueue(Q), Q # <<>>
    PROVE  /\ DeltaQueue(Tail(Q)) /\ Queued(Tail(Q)) = Queued(Q) \ {Head(Q).tmr}
           /\ \A u \in Queued(Q) \ {Head(Q).tmr} : Togo(Tail(Q))[u] = Togo(Q)[u] - Head(Q).delta
<1>0. Q \in Seq(Entry) /\ Len(Q) \in Nat /\ 1 \in 1 .. Len(Q) /\ Head(Q) = Q[1]
  BY HeadFirst, QueuedAt DEF DeltaQueue
<1>1. PICK R : R = Tail(Q)
  OBVIOUS
<1>2. R \in Seq(Entry) /\ Len(R) = Len(Q) - 1 /\ \A i \in 1 .. Len(R) : R[i] = Q[i + 1]
  BY <1>0, <1>1, HeadTailProperties
<1>3. \A i \in 1 .. Len(R) : i + 1 \in 1 .. Len(Q) /\ i + 1 # 1
  BY <1>0, <1>2
<1>4. DeltaQueue(R)
  <2>1. \A a, b \in 1 .. Len(R) : a + 1 = b + 1 => a = b
    OBVIOUS
  <2>2. \A a, b \in 1 .. Len(R) : R[a].tmr = R[b].tmr => a + 1 = b + 1
    BY <1>2, <1>3 DEF DeltaQueue
  <2> QED
    BY <1>2, <2>1, <2>2 DEF DeltaQueue
<1>5. \A u \in Queued(R) : u \in Queued(Q) \ {Q[1].tmr}
  <2>1. ASSUME NEW u \in Queued(R)
        PROVE  u \in Queued(Q) \ {Q[1].tmr}
    <3>1. PICK i \in 1 .. Len(R) : R[i].tmr = u
      BY <1>4, QueuedAt
    <3>2. u = Q[i + 1].tmr /\ i + 1 \in 1 .. Len(Q) /\ i + 1 # 1
      BY <1>2, <1>3, <3>1
    <3> QED
      BY <1>0, <3>2, QueuedAt DEF DeltaQueue
  <2> QED
    BY <2>1
<1>6. \A i \in 0 .. Len(R) : Due(R, i) = Due(Q, i + 1) - Q[1].delta
  <2>1. \A i \in 0 + 1 .. Len(R) : R[i].delta = Q[i + 1].delta
    BY <1>2
  <2>2. \A i \in 0 .. Len(R) : Due(Q, i + 1) - Due(R, i) = Due(Q, 0 + 1) - Due(R, 0)
    <3>1. 0 \in Nat /\ Len(R) \in Nat /\ 0 <= Len(R) /\ Len(R) <= Len(R) /\ Len(R) + 1 <= Len(Q)
      BY <1>0, <1>2
    <3> QED
      BY <1>0, <1>2, <2>1, <3>1, NextPlaces
  <2>3. Due(Q, 1) = Q[1].delta /\ Due(R, 0) = 0 /\ Q[1].delta \in Nat
    <3>1. Due(Q, 1) = Due(Q, 1 - 1) + Q[1].delta /\ Due(Q, 0) = 0 /\ Due(R, 0) = 0
      BY <1>0, <1>2, DueSum
    <3> QED
      BY <1>0, <3>1, QueuedAt
  <2>4. ASSUME NEW i \in 0 .. Len(R)
        PROVE  Due(R, i) = Due(Q, i + 1) - Q[1].delta
    <3>1. i + 1 \in 0 .. Len(Q) /\ 0 + 1 = 1
      BY <1>0, <1>2
    <3>2. Due(Q, i + 1) \in Nat /\ Due(R, i) \in Nat
      BY <1>0, <1>2, <3>1, DueGrows
    <3> QED
      BY <2>2, <2>3, <3>1, <3>2
  <2> QED
    BY <2>4
<1>7. ASSUME NEW u \in Queued(Q) \ {Q[1].tmr}
      PROVE  u \in Queued(R) /\ Togo(R)[u] = Togo(Q)[u] - Q[1].delta
  <2>1. PICK b \in 1 .. Len(Q) : Q[b].tmr = u /\ b # 1
    BY QueuedAt
  <2>2. b - 1 \in 1 .. Len(R) /\ b - 1 \in 0 .. Len(R) /\ (b - 1) + 1 = b
    BY <1>0, <1>2, <2>1
  <2>3. R[b - 1].tmr = u
    BY <1>2, <2>1, <2>2
  <2>4. Togo(R)[u] = Due(R, b - 1) /\ Togo(Q)[u] = Due(Q, b) /\ u \in Queued(R)
    BY <1>4, <2>1, <2>2, <2>3, QueuedAt
  <2> QED
    BY <1>6, <2>2, <2>4
<1> QED
  BY <1>0, <1>1, <1>4, <1>5, <1>7

(* Taking n off the head brings every deadline n nearer.                   *)
LEMMA HeadTogo ==
    ASSUME NEW Q, DeltaQueue(Q), Q # <<>>, NEW n \in Nat, n <= Head(Q).delta
    PROVE  LET R == [Q EXCEPT ![1].delta = @ - n]
           IN  /\ DeltaQueue(R) /\ R # <<>> /\ Queued(R) = Queued(Q)
               /\ Head(R).delta = Head(Q).delta - n
               /\ \A u \in Queued(Q) : Togo(R)[u] = Togo(Q)[u] - n
<1>0. Q \in Seq(Entry) /\ Len(Q) \in Nat /\ 1 \in 1 .. Len(Q) /\ Head(Q) = Q[1] /\ Q[1].delta - n \in Nat
  <2>1. Q \in Seq(Entry) /\ Len(Q) \in Nat /\ 1 \in 1 .. Len(Q) /\ Head(Q) = Q[1] /\ Q[1].delta \in Nat
    BY HeadFirst, QueuedAt DEF DeltaQueue
  <2> QED
    BY <2>1
<1>1. PICK R : R = [Q EXCEPT ![1].delta = @ - n]
  OBVIOUS
<1>2. /\ R \in Seq(Entry) /\ Len(R) = Len(Q) /\ R[1].delta = Q[1].delta - n
      /\ \A j \in 1 .. Len(Q) : R[j].tmr = Q[j].tmr
      /\ \A j \in 1 .. Len(Q) : j # 1 => R[j] = Q[j]
  <2>1. R = [Q EXCEPT ![1].delta = Q[1].delta - n]
    BY <1>0, <1>1
  <2> QED
    BY <1>0, <2>1, Adjusted
<1>3. DeltaQueue(R) /\ R # <<>>
  BY <1>0, <1>2 DEF DeltaQueue
<1>4. Queued(R) = Queued(Q)
  <2>1. DOMAIN R = 1 .. Len(Q) /\ DOMAIN Q = 1 .. Len(Q)
    BY <1>0, <1>2
  <2> QED
    BY <1>2, <2>1 DEF Queued
<1>5. \A i \in 1 .. Len(Q) : Due(R, i) = Due(Q, i) - n
  <2>1. \A i \in 1 + 1 .. Len(Q) : R[i].delta = Q[i].delta
    BY <1>2
  <2>2. \A i \in 1 .. Len(Q) : Due(Q, i) - Due(R, i) = Due(Q, 1) - Due(R, 1)
    <3>1. 1 \in Nat /\ Len(Q) \in Nat /\ 1 <= Len(Q) /\ Len(Q) <= Len(R) /\ Len(Q) <= Len(Q)
      BY <1>0, <1>2
    <3> QED
      BY <1>0, <1>2, <2>1, <3>1, SamePlaces
  <2>3. Due(Q, 1) = Q[1].delta /\ Due(R, 1) = Q[1].delta - n /\ Q[1].delta \in Nat
    <3>1. Due(Q, 1) = Due(Q, 1 - 1) + Q[1].delta /\ Due(Q, 0) = 0
      BY <1>0, DueSum
    <3>2. Due(R, 1) = Due(R, 1 - 1) + R[1].delta /\ Due(R, 0) = 0
      BY <1>0, <1>2, DueSum
    <3>3. Q[1].delta \in Nat
      BY <1>0, QueuedAt
    <3> QED
      BY <1>0, <1>2, <3>1, <3>2, <3>3
  <2>4. ASSUME NEW i \in 1 .. Len(Q)
        PROVE  Due(R, i) = Due(Q, i) - n
    <3>1. i \in 0 .. Len(Q)
      BY <1>0
    <3>2. Due(Q, i) \in Nat /\ Due(R, i) \in Nat
      BY <1>0, <1>2, <3>1, DueGrows
    <3> QED
      BY <2>2, <2>3, <3>1, <3>2
  <2> QED
    BY <2>4
<1>6. ASSUME NEW u \in Queued(Q)
      PROVE  Togo(R)[u] = Togo(Q)[u] - n
  <2>1. PICK i \in 1 .. Len(Q) : Q[i].tmr = u
    BY QueuedAt
  <2>2. Togo(R)[u] = Due(R, i) /\ Togo(Q)[u] = Due(Q, i)
    BY <1>2, <1>3, <2>1, QueuedAt
  <2> QED
    BY <1>5, <2>2
<1>7. Head(R) = R[1]
  BY <1>3, HeadFirst
<1> QED
  BY <1>0, <1>1, <1>2, <1>3, <1>4, <1>6, <1>7

-----------------------------------------------------------------------------
(* Ticks that have passed on the hardware and not yet on the queue.        *)
Ahead == remaining + Untold

(* The queue is one of differences, no deadline is beyond the longest      *)
(* interval that is asked for, and the rest have their types.              *)
TypeOK ==
    /\ DeltaQueue(g_tmrq) /\ \A t \in Pending : Togo(g_tmrq)[t] <= MaxTicks
    /\ g_armed \in 0 .. MaxTicks /\ hw \in 0 .. MaxTicks /\ ival \in 0 .. MaxTicks
    /\ ecb \in BOOLEAN /\ pc \in {"main", "run"} /\ remaining \in 0 .. MaxTicks
    /\ cb \in Timers \cup {NONE}
    /\ asked \in [Timers -> Nat] /\ age \in [Timers -> Nat] /\ slack \in [Timers -> Nat]

(* The STIMER runs exactly when the module counts it as armed.             *)
HardwareOK == (hw = 0 <=> g_armed = 0) /\ (hw # 0 => ival = g_armed /\ hw <= ival)

(* nsftmr_run has ticks left only before its first callback, and never more*)
(* than the head has to go.                                                *)
RunOK ==
    /\ pc = "main" => cb = NONE /\ remaining = 0
    /\ remaining # 0 => cb = NONE /\ g_tmrq # <<>> /\ remaining <= Head(g_tmrq).delta

(* What a queued timer asked for, and what the hardware is ahead by, is    *)
(* covered by the ticks that passed, those it is allowed, and those it has *)
(* to go.                                                                  *)
EarlyOK == \A t \in Pending : asked[t] + Ahead <= age[t] + slack[t] + Togo(g_tmrq)[t]

(* The inductive invariant: ArmedForHead keeps the hardware from running   *)
(* past the head's deadline, EarlyOK says what that means for every other  *)
(* timer.                                                                  *)
IInv == TypeOK /\ HardwareOK /\ RunOK /\ ArmedForHead /\ EarlyOK

(* What the queue's clock has not been told of, case by case.              *)
LEMMA Untolds ==
    ASSUME TypeOK, HardwareOK
    PROVE  /\ Untold \in 0 .. g_armed
           /\ pc = "run" => Untold = 0
           /\ pc = "main" /\ ecb => Untold = g_armed
           /\ pc = "main" /\ ~ ecb => Untold = g_armed - hw
<1>1. g_armed \in Nat /\ hw \in Nat /\ pc \in {"main", "run"} /\ (g_armed # 0 => hw <= g_armed)
  BY TmrAssumption DEF TypeOK, HardwareOK
<1> QED
  BY <1>1 DEF Untold, HardwareOK

(* The hardware is never past a deadline.                                   *)
NotPast ==
    /\ Ahead \in Nat /\ Pending \subseteq Timers
    /\ \A t \in Pending : Togo(g_tmrq)[t] \in Nat /\ Ahead <= Togo(g_tmrq)[t]

(* ArmedForHead, seen from every queued timer.                             *)
LEMMA AheadOfNone ==
    ASSUME TypeOK, HardwareOK, RunOK, ArmedForHead
    PROVE  NotPast
<1>1. Untold \in Nat /\ remaining \in Nat /\ g_armed \in Nat /\ Untold <= g_armed /\ MaxTicks \in Nat
  BY Untolds, TmrAssumption DEF TypeOK
<1>2. Ahead \in Nat
  BY <1>1 DEF Ahead
<1>3. ASSUME NEW t \in Pending
      PROVE  Togo(g_tmrq)[t] \in Nat /\ Ahead <= Togo(g_tmrq)[t]
  <2>1. DeltaQueue(g_tmrq)
    BY DEF TypeOK
  <2>2. g_tmrq # <<>>
    BY DEF Pending, Queued
  <2>3. Togo(g_tmrq)[t] \in Nat
    BY <2>1, TogoType DEF Pending
  <2>4. Head(g_tmrq).delta <= Togo(g_tmrq)[t] /\ Head(g_tmrq).delta \in Nat
    BY <2>1, <2>2, HeadFirst DEF Pending
  <2>5. Ahead <= Head(g_tmrq).delta
    <3>1. CASE pc = "main"
      <4>1. remaining = 0 /\ g_armed <= Head(g_tmrq).delta
        BY <2>2, <3>1 DEF RunOK, ArmedForHead
      <4> QED
        BY <1>1, <2>4, <4>1 DEF Ahead
    <3>2. CASE pc = "run"
      <4>1. Untold = 0 /\ (remaining # 0 => remaining <= Head(g_tmrq).delta)
        BY <3>2, Untolds DEF RunOK
      <4> QED
        BY <1>1, <2>4, <4>1 DEF Ahead
    <3> QED
      BY <3>1, <3>2 DEF TypeOK
  <2> QED
    BY <1>2, <2>3, <2>4, <2>5
<1> QED
  BY <1>2, <1>3, QueuedAt DEF TypeOK, Pending, NotPast

(* The state nsftmr_init leaves.                                           *)
LEMMA InitStep ==
    ASSUME Init
    PROVE  IInv
<1>1. Queued(<<>>) = {} /\ DeltaQueue(<<>>)
  BY DEF Queued, DeltaQueue
<1>2. MaxTicks \in Nat /\ 0 \in Nat
  BY TmrAssumption
<1>3. Pending = {} /\ DeltaQueue(g_tmrq)
  BY <1>1 DEF Init, Pending
<1>4. TypeOK
  <2>1. asked \in [Timers -> Nat] /\ age \in [Timers -> Nat] /\ slack \in [Timers -> Nat]
    BY DEF Init
  <2>2. 0 \in 0 .. MaxTicks
    BY <1>2
  <2> QED
    BY <1>3, <2>1, <2>2 DEF Init, TypeOK
<1>5. HardwareOK /\ RunOK /\ ArmedForHead
  BY DEF Init, HardwareOK, RunOK, ArmedForHead
<1>6. EarlyOK
  BY <1>3 DEF EarlyOK
<1> QED
  BY <1>4, <1>5, <1>6 DEF IInv

-----------------------------------------------------------------------------
(* What may be said of a step that arms the STIMER for the queue's head.   *)
LEMMA Armed ==
    ASSUME NEW n \in 1 .. MaxTicks, Arm(n)
    PROVE  HardwareOK' /\ g_armed' \in 0 .. MaxTicks /\ hw' \in 0 .. MaxTicks /\ ival' \in 0 .. MaxTicks
           /\ g_armed' = n /\ hw' = n /\ ecb' \in BOOLEAN /\ MaxTicks \in Nat
<1>1. MaxTicks \in Nat /\ n # 0 /\ n \in 0 .. MaxTicks /\ n <= n
  BY TmrAssumption
<1>2. g_armed' = n /\ hw' = n /\ ival' = n /\ ecb' \in BOOLEAN
  BY DEF Arm
<1> QED
  BY <1>1, <1>2 DEF HardwareOK

(* A tick moves time from what the hardware has left to what it is ahead   *)
(* by.                                                                     *)
LEMMA TickStep ==
    ASSUME IInv, Tick
    PROVE  IInv'
<1> USE DEF IInv
<1>1. /\ UNCHANGED <<g_tmrq, g_armed, ival, pc, remaining, cb, asked, slack>> /\ hw > 0
      /\ hw \in Nat /\ ival \in Nat /\ MaxTicks \in Nat /\ g_armed \in Nat
  BY TmrAssumption DEF Tick, TypeOK
<1>2. hw # 0 /\ ival = g_armed /\ hw <= ival /\ ival \in 0 .. MaxTicks
  BY <1>1 DEF HardwareOK, TypeOK
<1>3. /\ hw' \in 0 .. MaxTicks /\ hw' # 0 /\ hw' <= ival /\ ecb' \in BOOLEAN
      /\ \/ hw' = hw - 1 /\ ecb' = ecb
         \/ ecb' = TRUE /\ hw' = ival /\ hw = 1
  <2>1. CASE hw > 1
    BY <1>1, <1>2, <2>1 DEF Tick, TypeOK
  <2>2. CASE ~ (hw > 1)
    <3>1. hw = 1 /\ hw' = ival /\ ecb' = TRUE
      BY <1>1, <2>2 DEF Tick
    <3> QED
      BY <1>1, <1>2, <3>1
  <2> QED
    BY <2>1, <2>2
<1>4. age' = [t \in Timers |-> IF t \in Pending /\ age[t] < asked[t] THEN age[t] + 1 ELSE age[t]]
  BY DEF Tick
<1>5. age' \in [Timers -> Nat]
  BY <1>4 DEF TypeOK
<1>6. TypeOK'
  BY <1>1, <1>3, <1>5 DEF TypeOK, Pending
<1>7. HardwareOK' /\ RunOK'
  BY <1>1, <1>2, <1>3 DEF HardwareOK, RunOK
<1>8. ArmedForHead'
  BY <1>1, <1>2, <1>3 DEF ArmedForHead
<1>9. EarlyOK'
  <2>1. Pending' = Pending /\ Togo(g_tmrq)' = Togo(g_tmrq)
    BY <1>1 DEF Pending
  <2>2. NotPast /\ NotPast'
    <3>1. TypeOK' /\ HardwareOK' /\ RunOK' /\ ArmedForHead'
      BY <1>6, <1>7, <1>8
    <3>2. NotPast'
      BY <3>1, AheadOfNone, PTL
    <3> QED
      BY <3>2, AheadOfNone
  <2>3. Ahead \in Nat /\ Ahead' \in Nat /\ Ahead' <= Ahead + 1
    <3>1. Untold \in Nat /\ remaining \in Nat
      BY <1>1, Untolds, TmrAssumption DEF TypeOK
    <3>2. Untold' \in Nat /\ Untold' <= Untold + 1
      <4>1. CASE pc = "run"
        BY <1>1, <4>1 DEF Untold
      <4>2. CASE pc # "run"
        <5>1. Untold = IF ecb THEN g_armed ELSE g_armed - hw
          BY <1>1, <1>2, <4>2 DEF Untold
        <5>2. Untold' = IF ecb' THEN g_armed ELSE g_armed - hw'
          BY <1>1, <1>2, <4>2 DEF Untold
        <5>3. CASE hw' = hw - 1 /\ ecb' = ecb
          BY <1>1, <1>2, <5>1, <5>2, <5>3
        <5>4. CASE ecb' = TRUE /\ hw' = ival /\ hw = 1
          BY <1>1, <1>2, <5>1, <5>2, <5>4
        <5> QED
          BY <1>3, <5>3, <5>4
      <4> QED
        BY <4>1, <4>2
    <3>3. PICK u, v : u = Untold /\ v = Untold'
      OBVIOUS
    <3>4. u \in Nat /\ v \in Nat /\ v <= u + 1
      BY <3>1, <3>2, <3>3
    <3>5. Ahead = remaining + u /\ Ahead' = remaining + v
      BY <1>1, <3>3 DEF Ahead
    <3> QED
      BY <3>1, <3>4, <3>5
  <2>4. ASSUME NEW t \in Pending
        PROVE  asked[t] + Ahead' <= age'[t] + slack[t] + Togo(g_tmrq)[t]
    <3>1. asked[t] + Ahead <= age[t] + slack[t] + Togo(g_tmrq)[t]
      BY DEF EarlyOK
    <3>2. t \in Timers /\ asked[t] \in Nat /\ age[t] \in Nat /\ slack[t] \in Nat
      BY <2>2 DEF TypeOK, NotPast
    <3>0. Togo(g_tmrq)[t] \in Nat /\ Ahead' <= Togo(g_tmrq)[t]
      BY <2>1, <2>2 DEF NotPast
    <3>3. CASE age[t] < asked[t]
      <4>1. age'[t] = age[t] + 1
        BY <1>4, <3>2, <3>3
      <4> QED
        BY <2>3, <3>0, <3>1, <3>2, <4>1
    <3>4. CASE ~ (age[t] < asked[t])
      <4>1. age'[t] = age[t]
        BY <1>4, <3>2, <3>4
      <4> QED
        BY <2>3, <3>0, <3>2, <3>4, <4>1
    <3> QED
      BY <3>3, <3>4
  <2> QED
    BY <1>1, <2>1, <2>4 DEF EarlyOK
<1> QED
  BY <1>6, <1>7, <1>8, <1>9

(* A wake hands what the hardware was ahead by to nsftmr_run.              *)
LEMMA WakeStep ==
    ASSUME IInv, nsftmr_wake
    PROVE  IInv'
<1> USE DEF IInv
<1>1. pc = "main" /\ ecb /\ ecb' = FALSE /\ UNCHANGED <<g_tmrq, g_armed, hw, ival, cb, history>>
  BY DEF nsftmr_wake
<1>2. UNCHANGED <<asked, age, slack>> /\ Pending' = Pending
  BY <1>1 DEF history, Pending
<1>3. CASE g_tmrq = <<>>
  <2>1. UNCHANGED <<pc, remaining>> /\ Pending = {}
    BY <1>3 DEF nsftmr_wake, Pending, Queued
  <2>2. TypeOK'
    BY <1>1, <1>2, <2>1 DEF TypeOK
  <2> QED
    BY <1>1, <1>2, <2>1, <2>2 DEF HardwareOK, RunOK, ArmedForHead, EarlyOK
<1>4. CASE g_tmrq # <<>>
  <2>1. pc' = "run" /\ remaining' = g_armed
    BY <1>4 DEF nsftmr_wake
  <2>2. cb = NONE /\ g_armed <= Head(g_tmrq).delta /\ remaining = 0
    BY <1>1, <1>4 DEF RunOK, ArmedForHead
  <2>3. TypeOK'
    BY <1>1, <1>2, <2>1 DEF TypeOK
  <2>4. HardwareOK' /\ RunOK' /\ ArmedForHead'
    BY <1>1, <1>4, <2>1, <2>2 DEF HardwareOK, RunOK, ArmedForHead
  <2>5. Ahead' = Ahead
    <3>1. Untold = g_armed /\ Untold' = 0 /\ g_armed \in Nat
      BY <1>1, <2>1, Untolds, TmrAssumption DEF Untold, TypeOK
    <3> QED
      BY <2>1, <2>2, <3>1 DEF Ahead
  <2>6. EarlyOK'
    BY <1>1, <1>2, <2>5 DEF EarlyOK
  <2> QED
    BY <2>3, <2>4, <2>6
<1> QED
  BY <1>3, <1>4

(* A callback returns.                                                     *)
LEMMA ReturnStep ==
    ASSUME IInv, CallbackReturns
    PROVE  IInv'
<1> USE DEF IInv
<1>1. cb # NONE /\ cb' = NONE /\ UNCHANGED <<g_tmrq, g_armed, hw, ival, ecb, pc, remaining, asked, age, slack>>
  BY DEF CallbackReturns, KeepArmed, hardware, history
<1>2. Pending' = Pending /\ Ahead' = Ahead
  BY <1>1 DEF Pending, Ahead, Untold
<1>3. TypeOK' /\ HardwareOK' /\ RunOK' /\ ArmedForHead' /\ EarlyOK'
  BY <1>1, <1>2 DEF TypeOK, HardwareOK, RunOK, ArmedForHead, EarlyOK
<1> QED
  BY <1>3

(* A stray exit posts for an interval that has only begun, and every queued *)
(* timer is allowed that much.                                              *)
(* The arithmetic of a stray exit: it posts for n ticks that have not      *)
(* passed, and allows every queued timer n more.                           *)
LEMMA StrayAllows ==
    ASSUME NEW a \in Nat, NEW g \in Nat, NEW s \in Nat, NEW d \in Nat, NEW n \in Nat,
           NEW h \in Nat, NEW b, b => h <= n, ~ b => h = 0, a <= g + s + d, n <= d
    PROVE  a + h <= g + (IF b THEN IF s + n > a THEN a ELSE s + n ELSE s) + d
<1>1. CASE b /\ s + n > a
  BY <1>1
<1>2. CASE b /\ ~ (s + n > a)
  BY <1>2
<1>3. CASE ~ b
  BY <1>3
<1> QED
  BY <1>1, <1>2, <1>3

(* After an arming for n, with every queued timer n or more away.          *)
LEMMA ArmEarly ==
    ASSUME NEW n \in 1 .. MaxTicks, Arm(n), TypeOK', remaining' = 0,
           NEW early \in [Timers -> Nat],
           slack' = IF ecb' THEN [u \in Timers |-> IF u \notin Queued(g_tmrq') THEN early[u]
                                                   ELSE IF early[u] + n > asked'[u] THEN asked'[u]
                                                   ELSE early[u] + n]
                    ELSE early,
           \A u \in Pending' : /\ n <= Togo(g_tmrq')[u]
                               /\ asked'[u] <= age'[u] + early[u] + Togo(g_tmrq')[u]
    PROVE  EarlyOK'
<1>1. n \in Nat
  OBVIOUS
<1>2. PICK h : h = Ahead'
  OBVIOUS
<1>3. h \in Nat /\ (ecb' => h <= n) /\ (~ ecb' => h = 0)
  <2>1. Untold' \in {0, n, n - n} /\ (~ ecb' => Untold' \in {0, n - n})
    BY DEF Untold, Arm
  <2>2. PICK x : x = Untold'
    OBVIOUS
  <2>3. n - n = 0
    BY <1>1
  <2>4. x \in {0, n} /\ (~ ecb' => x = 0)
    BY <2>1, <2>2, <2>3
  <2>5. h = 0 + x
    BY <1>2, <2>2 DEF Ahead
  <2> QED
    BY <1>1, <2>4, <2>5
<1>4. ASSUME NEW u \in Pending'
      PROVE  asked'[u] + h <= age'[u] + slack'[u] + Togo(g_tmrq')[u]
  <2>1. Pending' = Queued(g_tmrq') /\ DeltaQueue(g_tmrq')
    BY DEF Pending, TypeOK
  <2>2. u \in Timers /\ Togo(g_tmrq')[u] \in Nat
    BY <2>1, QueuedAt, TogoType
  <2>3. asked'[u] \in Nat /\ age'[u] \in Nat /\ early[u] \in Nat
    BY <2>2 DEF TypeOK
  <2>4. slack'[u] = IF ecb' THEN IF early[u] + n > asked'[u] THEN asked'[u] ELSE early[u] + n ELSE early[u]
    BY <2>1, <2>2
  <2>5. PICK a, g, d : a = asked'[u] /\ g = age'[u] /\ d = Togo(g_tmrq')[u]
    OBVIOUS
  <2>6. PICK b : b = ecb'
    OBVIOUS
  <2>7. a \in Nat /\ g \in Nat /\ d \in Nat /\ a <= g + early[u] + d /\ n <= d
    BY <2>2, <2>3, <2>5
  <2>8. (b => h <= n) /\ (~ b => h = 0)
    BY <1>3, <2>6
  <2>9. a + h <= g + (IF b THEN IF early[u] + n > a THEN a ELSE early[u] + n ELSE early[u]) + d
    BY <1>1, <1>3, <2>3, <2>7, <2>8, StrayAllows
  <2> QED
    BY <2>4, <2>5, <2>6, <2>9
<1> QED
  BY <1>2, <1>4 DEF EarlyOK

(* The head fires: it leaves the queue with the ticks it waited for        *)
(* consumed, and not before its time.                                      *)
LEMMA FireStep ==
    ASSUME IInv, RunFire
    PROVE  IInv' /\ asked[Head(g_tmrq).tmr] <= age[Head(g_tmrq).tmr] + slack[Head(g_tmrq).tmr]
<1> USE DEF IInv
<1>1. PICK h : h = Head(g_tmrq)
  OBVIOUS
<1>2. /\ pc = "run" /\ cb = NONE /\ g_tmrq # <<>> /\ h.delta <= remaining
      /\ remaining' = remaining - h.delta /\ g_tmrq' = Tail(g_tmrq) /\ cb' = h.tmr /\ Forget(h.tmr)
      /\ UNCHANGED <<g_armed, hw, ival, ecb, pc>>
  BY <1>1 DEF RunFire, KeepArmed, hardware
<1>3. DeltaQueue(g_tmrq) /\ remaining \in Nat /\ MaxTicks \in Nat
  BY TmrAssumption DEF TypeOK
<1>4. /\ h.delta \in Nat /\ h.tmr \in Pending /\ h.tmr \in Timers
      /\ Togo(g_tmrq)[h.tmr] = h.delta /\ \A u \in Pending : h.delta <= Togo(g_tmrq)[u]
  BY <1>1, <1>2, <1>3, HeadFirst, QueuedAt DEF Pending
<1>5. remaining = h.delta /\ remaining' = 0
  BY <1>1, <1>2, <1>3, <1>4 DEF RunOK
<1>6. /\ DeltaQueue(g_tmrq') /\ Pending' = Pending \ {h.tmr}
      /\ \A u \in Pending' : Togo(g_tmrq')[u] = Togo(g_tmrq)[u] - h.delta
  BY <1>1, <1>2, <1>3, TailTogo DEF Pending
<1>7. NotPast
  BY AheadOfNone
<1>8. /\ asked' \in [Timers -> Nat] /\ age' \in [Timers -> Nat] /\ slack' \in [Timers -> Nat]
      /\ \A u \in Pending' : asked'[u] = asked[u] /\ age'[u] = age[u] /\ slack'[u] = slack[u]
  <2>1. \A u \in Pending' : u \in Timers /\ u # h.tmr
    BY <1>6, <1>7 DEF NotPast
  <2> QED
    BY <1>2, <1>4, <2>1 DEF Forget, TypeOK
<1>9. TypeOK'
  <2>1. \A u \in Pending' : Togo(g_tmrq')[u] <= MaxTicks
    <3>1. ASSUME NEW u \in Pending'
          PROVE  Togo(g_tmrq')[u] <= MaxTicks
      <4>1. Togo(g_tmrq)[u] \in Nat /\ Togo(g_tmrq)[u] <= MaxTicks
        BY <1>6, <1>7 DEF NotPast, TypeOK
      <4> QED
        BY <1>3, <1>4, <1>6, <4>1
    <3> QED
      BY <3>1
  <2>2. 0 \in 0 .. MaxTicks
    BY <1>3
  <2> QED
    BY <1>2, <1>4, <1>5, <1>6, <1>8, <2>1, <2>2 DEF TypeOK
<1>10. HardwareOK' /\ RunOK' /\ ArmedForHead'
  BY <1>2, <1>5 DEF HardwareOK, RunOK, ArmedForHead
<1>11. Ahead = h.delta /\ Ahead' = 0
  <2>1. Untold = 0 /\ Untold' = 0
    BY <1>2 DEF Untold
  <2> QED
    BY <1>4, <1>5, <2>1 DEF Ahead
<1>12. EarlyOK'
  <2>1. ASSUME NEW u \in Pending'
        PROVE  asked'[u] + Ahead' <= age'[u] + slack'[u] + Togo(g_tmrq')[u]
    <3>1. asked[u] + h.delta <= age[u] + slack[u] + Togo(g_tmrq)[u]
      BY <1>6, <1>11 DEF EarlyOK
    <3>2. asked[u] \in Nat /\ age[u] \in Nat /\ slack[u] \in Nat /\ Togo(g_tmrq)[u] \in Nat
      BY <1>6, <1>7 DEF NotPast, TypeOK
    <3>3. asked[u] + 0 <= age[u] + slack[u] + (Togo(g_tmrq)[u] - h.delta)
      BY <1>4, <3>1, <3>2
    <3> QED
      BY <1>6, <1>8, <1>11, <3>3
  <2> QED
    BY <2>1 DEF EarlyOK
<1>13. asked[h.tmr] <= age[h.tmr] + slack[h.tmr]
  <2>1. asked[h.tmr] + h.delta <= age[h.tmr] + slack[h.tmr] + h.delta
    BY <1>4, <1>11 DEF EarlyOK
  <2>2. asked[h.tmr] \in Nat /\ age[h.tmr] \in Nat /\ slack[h.tmr] \in Nat
    BY <1>4 DEF TypeOK
  <2> QED
    BY <1>4, <2>1, <2>2
<1> QED
  BY <1>1, <1>9, <1>10, <1>12, <1>13

(* What tmr_start does to the deadlines: the timer's own is set, no other  *)
(* moves.                                                                  *)
LEMMA StartQueue ==
    ASSUME TypeOK, NEW t \in Timers, NEW ticks \in Asks[t], tmr_start(t, ticks)
    PROVE  \E n \in 1 .. MaxTicks :
              /\ n = IF ticks = 0 THEN 1 ELSE ticks
              /\ DeltaQueue(g_tmrq') /\ g_tmrq' # <<>> /\ Pending' = Pending \cup {t}
              /\ Togo(g_tmrq') = [Togo(g_tmrq) EXCEPT ![t] = n]
<1>1. PICK n : n = IF ticks = 0 THEN 1 ELSE ticks
  OBVIOUS
<1>2. n \in 1 .. MaxTicks /\ n \in Nat
  <2>1. ticks \in 0 .. MaxTicks /\ MaxTicks \in Nat \ {0}
    BY TmrAssumption
  <2> QED
    BY <1>1, <2>1
<1>3. PICK U : U = Unlink(g_tmrq, t)
  OBVIOUS
<1>4. DeltaQueue(U) /\ Queued(U) = Pending \ {t} /\ Togo(U) = [Togo(g_tmrq) EXCEPT ![t] = -1]
  BY <1>3, UnlinkTogo DEF TypeOK, Pending
<1>5. g_tmrq' = Splice(U, t, n)
  BY <1>1, <1>3 DEF tmr_start
<1>6. t \in Timers \ Queued(U)
  BY <1>4
<1>7. /\ DeltaQueue(g_tmrq') /\ g_tmrq' # <<>> /\ Queued(g_tmrq') = Queued(U) \cup {t}
      /\ Togo(g_tmrq') = [Togo(U) EXCEPT ![t] = n]
  BY <1>2, <1>4, <1>5, <1>6, SpliceTogo
<1>8. Togo(g_tmrq') = [Togo(g_tmrq) EXCEPT ![t] = n]
  BY <1>4, <1>7
<1>9. Pending' = Pending \cup {t}
  BY <1>4, <1>7 DEF Pending
<1> QED
  BY <1>1, <1>2, <1>7, <1>8, <1>9

(* tmr_start, the newcomer at the head or behind another.                  *)
LEMMA StartStep ==
    ASSUME IInv, NEW t \in Timers, NEW ticks \in Asks[t], tmr_start(t, ticks)
    PROVE  IInv'
<1> USE DEF IInv
<1>1. PICK n \in 1 .. MaxTicks :
         /\ n = IF ticks = 0 THEN 1 ELSE ticks
         /\ DeltaQueue(g_tmrq') /\ g_tmrq' # <<>> /\ Pending' = Pending \cup {t}
         /\ Togo(g_tmrq') = [Togo(g_tmrq) EXCEPT ![t] = n]
  BY StartQueue
<1>2. /\ InCode /\ UNCHANGED <<pc, remaining, cb>>
      /\ IF g_tmrq'[1].tmr = t THEN Arm(n) ELSE KeepArmed
      /\ asked' = [asked EXCEPT ![t] = n] /\ age' = [age EXCEPT ![t] = 0]
      /\ slack' = IF g_tmrq'[1].tmr = t THEN Stray([slack EXCEPT ![t] = 0], asked', n)
                  ELSE [slack EXCEPT ![t] = Untold]
  BY <1>1 DEF tmr_start
<1>3. n \in Nat /\ MaxTicks \in Nat /\ n <= MaxTicks /\ n # 0
  BY TmrAssumption
<1>4. remaining = 0 /\ remaining' = 0
  BY <1>2 DEF InCode, RunOK
<1>5. NotPast
  BY AheadOfNone
<1>6. DeltaQueue(g_tmrq) /\ Togo(g_tmrq) \in [Timers -> Int]
  BY TogoType DEF TypeOK
<1>7. Togo(g_tmrq')[t] = n /\ \A u \in Pending \ {t} : Togo(g_tmrq')[u] = Togo(g_tmrq)[u]
  BY <1>1, <1>5, <1>6 DEF NotPast
<1>8. /\ Head(g_tmrq') = g_tmrq'[1] /\ Head(g_tmrq').tmr \in Pending'
      /\ Togo(g_tmrq')[Head(g_tmrq').tmr] = Head(g_tmrq').delta
      /\ \A u \in Pending' : Head(g_tmrq').delta <= Togo(g_tmrq')[u]
  BY <1>1, HeadFirst DEF Pending
<1>9. asked' \in [Timers -> Nat] /\ age' \in [Timers -> Nat] /\ asked'[t] = n /\ age'[t] = 0
      /\ \A u \in Timers \ {t} : asked'[u] = asked[u] /\ age'[u] = age[u]
  BY <1>2, <1>3 DEF TypeOK
<1>10. \A u \in Pending' : u \in Timers /\ Togo(g_tmrq')[u] <= MaxTicks
  <2>1. \A u \in Pending : u \in Timers /\ Togo(g_tmrq)[u] <= MaxTicks
    BY <1>5 DEF NotPast, TypeOK
  <2> QED
    BY <1>1, <1>3, <1>7, <2>1
<1>11. RunOK'
  BY <1>2, <1>4 DEF RunOK
<1>12. CASE g_tmrq'[1].tmr = t
  <2>1. Arm(n)
    BY <1>2, <1>12
  <2>2. HardwareOK' /\ g_armed' = n /\ hw' = n /\ ival' \in 0 .. MaxTicks /\ n \in 0 .. MaxTicks
        /\ ecb' \in BOOLEAN
    BY <1>3, <2>1, Armed
  <2>3. PICK early : early = [slack EXCEPT ![t] = 0]
    OBVIOUS
  <2>4. early \in [Timers -> Nat] /\ early[t] = 0 /\ \A u \in Timers \ {t} : early[u] = slack[u]
    BY <2>3 DEF TypeOK
  <2>5. slack' = IF ecb' THEN [u \in Timers |-> IF u \notin Queued(g_tmrq') THEN early[u]
                                                ELSE IF early[u] + n > asked'[u] THEN asked'[u]
                                                ELSE early[u] + n]
                 ELSE early
    BY <1>2, <1>12, <2>3 DEF Stray
  <2>6. slack' \in [Timers -> Nat]
    BY <1>3, <1>9, <2>4, <2>5
  <2>7. TypeOK'
    BY <1>1, <1>2, <1>9, <1>10, <2>2, <2>6 DEF TypeOK
  <2>8. ArmedForHead'
    BY <1>1, <1>3, <1>7, <1>8, <1>12, <2>2 DEF ArmedForHead
  <2>9. ASSUME NEW u \in Pending'
        PROVE  /\ n <= Togo(g_tmrq')[u]
               /\ asked'[u] <= age'[u] + early[u] + Togo(g_tmrq')[u]
    <3>1. n <= Togo(g_tmrq')[u]
      BY <1>7, <1>8, <1>12
    <3>2. CASE u = t
      BY <1>3, <1>7, <1>9, <2>4, <3>2
    <3>3. CASE u # t
      <4>1. u \in Pending /\ u \in Timers
        BY <1>1, <1>10, <3>3
      <4>2. asked[u] + Ahead <= age[u] + slack[u] + Togo(g_tmrq)[u]
        BY <4>1 DEF EarlyOK
      <4>3. Ahead \in Nat /\ asked[u] \in Nat /\ age[u] \in Nat /\ slack[u] \in Nat /\ Togo(g_tmrq)[u] \in Nat
        BY <1>5, <4>1 DEF NotPast, TypeOK
      <4>4. asked[u] <= age[u] + slack[u] + Togo(g_tmrq)[u]
        BY <4>2, <4>3
      <4> QED
        BY <1>7, <1>9, <2>4, <3>1, <3>3, <4>1, <4>4
    <3> QED
      BY <3>2, <3>3, <3>1
  <2>10. EarlyOK'
    BY <1>4, <2>1, <2>4, <2>5, <2>7, <2>9, ArmEarly
  <2> QED
    BY <1>11, <2>2, <2>7, <2>8, <2>10
<1>13. CASE g_tmrq'[1].tmr # t
  <2>1. UNCHANGED <<g_armed, hw, ival, ecb>>
    BY <1>2, <1>13 DEF KeepArmed, hardware
  <2>2. Untold \in Nat
    BY Untolds DEF TypeOK
  <2>3. /\ slack' \in [Timers -> Nat] /\ slack'[t] = Untold
        /\ \A u \in Timers \ {t} : slack'[u] = slack[u]
    BY <1>2, <1>13, <2>2 DEF TypeOK
  <2>4. TypeOK'
    BY <1>1, <1>2, <1>9, <1>10, <2>1, <2>3 DEF TypeOK
  <2>5. HardwareOK'
    BY <2>1 DEF HardwareOK
  <2>6. Head(g_tmrq').tmr \in Pending \ {t}
    BY <1>1, <1>8, <1>13
  <2>7. g_tmrq # <<>>
    BY <2>6 DEF Pending, Queued
  <2>8. /\ Head(g_tmrq).delta <= Togo(g_tmrq)[Head(g_tmrq').tmr] /\ Head(g_tmrq).delta \in Nat
        /\ Togo(g_tmrq)[Head(g_tmrq').tmr] = Head(g_tmrq').delta
    BY <1>6, <1>7, <1>8, <2>6, <2>7, HeadFirst DEF Pending
  <2>9. ArmedForHead'
    <3>1. CASE pc = "main"
      <4>1. hw # 0 /\ g_armed # 0 /\ g_armed <= Head(g_tmrq).delta /\ g_armed \in Nat
        BY <2>7, <3>1 DEF ArmedForHead, TypeOK
      <4>2. PICK d : d = Head(g_tmrq').delta
        OBVIOUS
      <4>3. d \in Nat /\ Head(g_tmrq).delta <= d
        <5>1. Togo(g_tmrq)[Head(g_tmrq').tmr] \in Nat
          BY <1>5, <2>6 DEF NotPast
        <5> QED
          BY <2>8, <4>2, <5>1
      <4>4. g_armed <= d
        BY <2>8, <4>1, <4>3
      <4> QED
        BY <1>1, <2>1, <4>1, <4>2, <4>4 DEF ArmedForHead
    <3>2. CASE pc # "main"
      BY <1>2, <3>2 DEF ArmedForHead
    <3> QED
      BY <3>1, <3>2
  <2>10. Ahead' = Ahead /\ Ahead = 0 + Untold
    BY <1>2, <1>4, <2>1 DEF Ahead, Untold
  <2>11. ASSUME NEW u \in Pending'
         PROVE  asked'[u] + Ahead <= age'[u] + slack'[u] + Togo(g_tmrq')[u]
    <3>1. CASE u = t
      BY <1>3, <1>7, <1>9, <2>2, <2>3, <2>10, <3>1
    <3>2. CASE u # t
      <4>1. u \in Pending /\ u \in Timers
        BY <1>1, <1>10, <3>2
      <4>2. asked[u] + Ahead <= age[u] + slack[u] + Togo(g_tmrq)[u]
        BY <4>1 DEF EarlyOK
      <4> QED
        BY <1>7, <1>9, <2>3, <3>2, <4>1, <4>2
    <3> QED
      BY <3>1, <3>2
  <2>12. EarlyOK'
    BY <2>10, <2>11 DEF EarlyOK
  <2> QED
    BY <1>11, <2>4, <2>5, <2>9, <2>12
<1> QED
  BY <1>12, <1>13

(* tmr_cancel, the STIMER disarmed with the last timer.                    *)
LEMMA CancelStep ==
    ASSUME IInv, NEW t \in Timers, tmr_cancel(t)
    PROVE  IInv'
<1> USE DEF IInv
<1>1. /\ InCode /\ t \in Pending /\ g_tmrq' = Unlink(g_tmrq, t) /\ UNCHANGED <<pc, remaining, cb>>
      /\ IF g_tmrq' = <<>> THEN Disarm ELSE KeepArmed
      /\ Forget(t)
  BY DEF tmr_cancel
<1>2. DeltaQueue(g_tmrq) /\ Togo(g_tmrq) \in [Timers -> Int] /\ MaxTicks \in Nat
  BY TmrAssumption, TogoType DEF TypeOK
<1>3. /\ DeltaQueue(g_tmrq') /\ Pending' = Pending \ {t}
      /\ \A u \in Pending' : Togo(g_tmrq')[u] = Togo(g_tmrq)[u]
  <2>1. /\ DeltaQueue(g_tmrq') /\ Queued(g_tmrq') = Queued(g_tmrq) \ {t}
        /\ Togo(g_tmrq') = [Togo(g_tmrq) EXCEPT ![t] = -1]
    BY <1>1, <1>2, UnlinkTogo
  <2>2. Queued(g_tmrq) \subseteq Timers
    BY <1>2, QueuedAt
  <2> QED
    BY <1>2, <2>1, <2>2 DEF Pending
<1>4. remaining = 0 /\ remaining' = 0
  BY <1>1 DEF InCode, RunOK
<1>5. NotPast
  BY AheadOfNone
<1>6. /\ asked' \in [Timers -> Nat] /\ age' \in [Timers -> Nat] /\ slack' \in [Timers -> Nat]
      /\ \A u \in Pending' : asked'[u] = asked[u] /\ age'[u] = age[u] /\ slack'[u] = slack[u]
  <2>1. \A u \in Pending' : u \in Timers /\ u # t
    BY <1>3, <1>5 DEF NotPast
  <2> QED
    BY <1>1, <2>1 DEF Forget, TypeOK
<1>7. \A u \in Pending' : Togo(g_tmrq')[u] <= MaxTicks
  BY <1>3 DEF TypeOK
<1>8. RunOK'
  BY <1>1, <1>4 DEF RunOK
<1>9. CASE g_tmrq' = <<>>
  <2>1. g_armed' = 0 /\ hw' = 0 /\ UNCHANGED <<ival, ecb>>
    BY <1>1, <1>9 DEF Disarm
  <2>2. 0 \in 0 .. MaxTicks
    BY <1>2
  <2>3. TypeOK'
    BY <1>1, <1>3, <1>6, <1>7, <2>1, <2>2 DEF TypeOK
  <2>4. HardwareOK' /\ ArmedForHead'
    BY <1>9, <2>1 DEF HardwareOK, ArmedForHead
  <2>5. Pending' = {}
    BY <1>9 DEF Pending, Queued
  <2>6. EarlyOK'
    BY <2>5 DEF EarlyOK
  <2> QED
    BY <1>8, <2>3, <2>4, <2>6
<1>10. CASE g_tmrq' # <<>>
  <2>1. UNCHANGED <<g_armed, hw, ival, ecb>>
    BY <1>1, <1>10 DEF KeepArmed, hardware
  <2>2. TypeOK'
    BY <1>1, <1>3, <1>6, <1>7, <2>1 DEF TypeOK
  <2>3. HardwareOK'
    BY <2>1 DEF HardwareOK
  <2>4. g_tmrq # <<>>
    BY <1>1 DEF Pending, Queued
  <2>5. PICK d : d = Head(g_tmrq').delta
    OBVIOUS
  <2>6. d \in Nat /\ Head(g_tmrq).delta <= d /\ Head(g_tmrq).delta \in Nat
    <3>1. Head(g_tmrq').tmr \in Pending' /\ Togo(g_tmrq')[Head(g_tmrq').tmr] = d /\ d \in Nat
      BY <1>3, <1>10, <2>5, HeadFirst DEF Pending
    <3>2. Head(g_tmrq).delta <= Togo(g_tmrq)[Head(g_tmrq').tmr] /\ Head(g_tmrq).delta \in Nat
      BY <1>2, <1>3, <2>4, <3>1, HeadFirst DEF Pending
    <3> QED
      BY <1>3, <3>1, <3>2
  <2>7. ArmedForHead'
    <3>1. CASE pc = "main"
      <4>1. hw # 0 /\ g_armed # 0 /\ g_armed <= Head(g_tmrq).delta /\ g_armed \in Nat
        BY <2>4, <3>1 DEF ArmedForHead, TypeOK
      <4>2. g_armed <= d
        BY <2>6, <4>1
      <4> QED
        BY <1>10, <2>1, <2>5, <4>1, <4>2 DEF ArmedForHead
    <3>2. CASE pc # "main"
      BY <1>1, <3>2 DEF ArmedForHead
    <3> QED
      BY <3>1, <3>2
  <2>8. Ahead' = Ahead
    BY <1>1, <2>1 DEF Ahead, Untold
  <2>9. EarlyOK'
    BY <1>3, <1>6, <2>8 DEF EarlyOK
  <2> QED
    BY <1>8, <2>2, <2>3, <2>7, <2>9
<1> QED
  BY <1>9, <1>10

(* What the end of nsftmr_run does to the deadlines: the ticks left over   *)
(* pass.                                                                   *)
LEMMA EndQueue ==
    ASSUME TypeOK, g_tmrq # <<>>, Head(g_tmrq).delta > remaining,
           g_tmrq' = [g_tmrq EXCEPT ![1].delta = @ - remaining]
    PROVE  /\ DeltaQueue(g_tmrq') /\ g_tmrq' # <<>> /\ Pending' = Pending
           /\ Head(g_tmrq').delta \in 1 .. MaxTicks
           /\ \A u \in Pending : /\ Togo(g_tmrq')[u] = Togo(g_tmrq)[u] - remaining
                                 /\ Head(g_tmrq').delta <= Togo(g_tmrq')[u]
                                 /\ remaining < Togo(g_tmrq)[u]
<1>1. DeltaQueue(g_tmrq) /\ remaining \in Nat /\ MaxTicks \in Nat
  BY TmrAssumption DEF TypeOK
<1>2. /\ Head(g_tmrq).tmr \in Pending /\ Head(g_tmrq).delta \in Nat
      /\ Togo(g_tmrq)[Head(g_tmrq).tmr] = Head(g_tmrq).delta
      /\ \A u \in Pending : Head(g_tmrq).delta <= Togo(g_tmrq)[u] /\ Togo(g_tmrq)[u] \in Nat
  BY <1>1, HeadFirst, TogoType DEF Pending
<1>3. remaining <= Head(g_tmrq).delta /\ Head(g_tmrq).delta <= MaxTicks
  BY <1>1, <1>2 DEF TypeOK
<1>4. /\ DeltaQueue(g_tmrq') /\ g_tmrq' # <<>> /\ Pending' = Pending
      /\ Head(g_tmrq').delta = Head(g_tmrq).delta - remaining
      /\ \A u \in Pending : Togo(g_tmrq')[u] = Togo(g_tmrq)[u] - remaining
  BY <1>1, <1>3, HeadTogo DEF Pending
<1>5. Head(g_tmrq').delta \in 1 .. MaxTicks
  <2>1. Head(g_tmrq).delta - remaining \in 1 .. MaxTicks
    BY <1>1, <1>2, <1>3
  <2> QED
    BY <1>4, <2>1
<1>6. ASSUME NEW u \in Pending
      PROVE  Head(g_tmrq').delta <= Togo(g_tmrq')[u] /\ remaining < Togo(g_tmrq)[u]
  <2>1. Head(g_tmrq).delta - remaining <= Togo(g_tmrq)[u] - remaining /\ remaining < Togo(g_tmrq)[u]
    BY <1>1, <1>2
  <2> QED
    BY <1>4, <2>1
<1> QED
  BY <1>4, <1>5, <1>6

(* The end of nsftmr_run, the queue empty or its head not yet due.         *)
LEMMA EndStep ==
    ASSUME IInv, RunEnd
    PROVE  IInv'
<1> USE DEF IInv
<1>1. pc = "run" /\ cb = NONE /\ pc' = "main" /\ remaining' = 0 /\ UNCHANGED <<cb, asked, age>>
  BY DEF RunEnd
<1>2. RunOK'
  BY <1>1 DEF RunOK
<1>3. MaxTicks \in Nat /\ 0 \in 0 .. MaxTicks /\ remaining \in Nat
  BY TmrAssumption DEF TypeOK
<1>4. CASE g_tmrq = <<>> /\ Disarm /\ UNCHANGED <<g_tmrq, slack>>
  <2>1. g_armed' = 0 /\ hw' = 0 /\ UNCHANGED <<ival, ecb>>
    BY <1>4 DEF Disarm
  <2>2. TypeOK'
    BY <1>1, <1>3, <1>4, <2>1 DEF TypeOK, Pending
  <2>3. HardwareOK' /\ ArmedForHead'
    BY <1>4, <2>1 DEF HardwareOK, ArmedForHead
  <2>4. Pending' = {}
    BY <1>4 DEF Pending, Queued
  <2>5. EarlyOK'
    BY <2>4 DEF EarlyOK
  <2> QED
    BY <1>2, <2>2, <2>3, <2>5
<1>5. CASE /\ g_tmrq # <<>> /\ Head(g_tmrq).delta > remaining
           /\ g_tmrq' = [g_tmrq EXCEPT ![1].delta = @ - remaining]
           /\ Arm(Head(g_tmrq').delta)
           /\ slack' = Stray(slack, asked, Head(g_tmrq').delta)
  <2>1. PICK n : n = Head(g_tmrq').delta
    OBVIOUS
  <2>2. /\ DeltaQueue(g_tmrq') /\ g_tmrq' # <<>> /\ Pending' = Pending /\ n \in 1 .. MaxTicks
        /\ \A u \in Pending : /\ Togo(g_tmrq')[u] = Togo(g_tmrq)[u] - remaining
                              /\ n <= Togo(g_tmrq')[u]
    BY <1>5, <2>1, EndQueue
  <2>3. Arm(n)
    BY <1>5, <2>1 DEF Arm
  <2>4. HardwareOK' /\ g_armed' = n /\ hw' = n /\ ival' \in 0 .. MaxTicks /\ n \in 0 .. MaxTicks
        /\ ecb' \in BOOLEAN /\ n # 0 /\ n <= n /\ n \in Nat
    <3>1. n \in 0 .. MaxTicks /\ n # 0 /\ n <= n /\ n \in Nat
      BY <1>3, <2>2
    <3> QED
      BY <2>2, <2>3, <3>1, Armed
  <2>5. NotPast
    BY AheadOfNone
  <2>6. slack' = IF ecb' THEN [u \in Timers |-> IF u \notin Queued(g_tmrq') THEN slack[u]
                                                ELSE IF slack[u] + n > asked'[u] THEN asked'[u]
                                                ELSE slack[u] + n]
                 ELSE slack
    BY <1>1, <1>5, <2>1 DEF Stray
  <2>7. slack \in [Timers -> Nat] /\ slack' \in [Timers -> Nat]
    <3>1. slack \in [Timers -> Nat] /\ asked' \in [Timers -> Nat]
      BY <1>1 DEF TypeOK
    <3> QED
      BY <2>4, <2>6, <3>1
  <2>8. Ahead = remaining
    <3>1. Untold = 0
      BY <1>1 DEF Untold
    <3> QED
      BY <1>3, <3>1 DEF Ahead
  <2>9. ASSUME NEW u \in Pending'
        PROVE  /\ n <= Togo(g_tmrq')[u] /\ Togo(g_tmrq')[u] <= MaxTicks
               /\ asked'[u] <= age'[u] + slack[u] + Togo(g_tmrq')[u]
    <3>1. u \in Pending /\ u \in Timers /\ Togo(g_tmrq)[u] \in Nat /\ Togo(g_tmrq)[u] <= MaxTicks
      BY <2>2, <2>5 DEF NotPast, TypeOK
    <3>2. asked[u] + remaining <= age[u] + slack[u] + Togo(g_tmrq)[u]
      BY <2>8, <3>1 DEF EarlyOK
    <3>3. asked[u] \in Nat /\ age[u] \in Nat /\ slack[u] \in Nat
      BY <3>1 DEF TypeOK
    <3>4. asked[u] <= age[u] + slack[u] + (Togo(g_tmrq)[u] - remaining)
          /\ Togo(g_tmrq)[u] - remaining <= MaxTicks
      BY <1>3, <3>1, <3>2, <3>3
    <3> QED
      BY <1>1, <2>2, <3>1, <3>4
  <2>10. TypeOK'
    BY <1>1, <1>3, <2>2, <2>4, <2>7, <2>9 DEF TypeOK
  <2>11. ArmedForHead'
    BY <2>1, <2>2, <2>4 DEF ArmedForHead
  <2>12. EarlyOK'
    BY <1>1, <2>2, <2>3, <2>6, <2>7, <2>9, <2>10, ArmEarly
  <2> QED
    BY <1>2, <2>4, <2>10, <2>11, <2>12
<1> QED
  BY <1>4, <1>5 DEF RunEnd

-----------------------------------------------------------------------------
(* Every step keeps the invariant.                                         *)
LEMMA NextStep ==
    ASSUME IInv, [Next]_vars
    PROVE  IInv'
<1>1. ASSUME NEW t \in Timers, tmr_cancel(t)
      PROVE  IInv'
  BY <1>1, CancelStep
<1>2. ASSUME NEW t \in Timers, NEW n \in Asks[t], tmr_start(t, n)
      PROVE  IInv'
  BY <1>2, StartStep
<1>3. CASE Tick
  BY <1>3, TickStep
<1>4. CASE nsftmr_wake
  BY <1>4, WakeStep
<1>5. CASE RunFire
  BY <1>5, FireStep
<1>6. CASE CallbackReturns
  BY <1>6, ReturnStep
<1>7. CASE RunEnd
  BY <1>7, EndStep
<1>8. CASE UNCHANGED vars
  <2>1. UNCHANGED <<g_tmrq, g_armed, hw, ival, ecb, pc, remaining, cb, asked, age, slack>>
    BY <1>8 DEF vars, hardware, history
  <2>2. Pending' = Pending /\ Ahead' = Ahead
    BY <2>1 DEF Pending, Ahead, Untold
  <2> QED
    BY <2>1, <2>2 DEF IInv, TypeOK, HardwareOK, RunOK, ArmedForHead, EarlyOK
<1> QED
  BY <1>1, <1>2, <1>3, <1>4, <1>5, <1>6, <1>7, <1>8 DEF Next, Run

(* The invariant holds in every state the timer manager reaches, for any   *)
(* set of timers and any intervals.                                        *)
THEOREM Inductive == Spec => []IInv
<1>1. Init => IInv
  BY InitStep
<1>2. IInv /\ [Next]_vars => IInv'
  BY NextStep
<1> QED
  BY <1>1, <1>2, PTL DEF Spec

(* g_tmrq is a queue of differences that holds a timer at most once, as    *)
(* tmr_start's cancel-first leaves it, and every counter keeps its range.  *)
THEOREM TypeCorrect == Spec => []TypeOK
<1>1. IInv => TypeOK
  BY DEF IInv
<1> QED
  BY <1>1, Inductive, PTL

(* Outside nsftmr_run the STIMER is disarmed exactly when nothing is       *)
(* queued, and is never armed for longer than the head has to go (tmr_arm's*)
(* callers).                                                               *)
THEOREM ArmsForHead == Spec => []ArmedForHead
<1>1. IInv => ArmedForHead
  BY DEF IInv
<1> QED
  BY <1>1, Inductive, PTL

(* Only nsftmr_run calls a callback, and then for a head that EarlyOK      *)
(* covers.                                                                 *)
LEMMA FiresOnTime ==
    ASSUME IInv, [Next]_vars, NEW t \in Timers, Fires(t)
    PROVE  age[t] + slack[t] >= asked[t]
<1>1. cb' = t /\ cb # t /\ t # NONE
  BY TmrAssumption DEF Fires
<1>2. CASE RunFire
  <2>1. t = Head(g_tmrq).tmr
    BY <1>1, <1>2 DEF RunFire
  <2>2. asked[t] <= age[t] + slack[t]
    BY <1>2, <2>1, FireStep
  <2>3. asked[t] \in Nat /\ age[t] \in Nat /\ slack[t] \in Nat
    BY DEF IInv, TypeOK
  <2> QED
    BY <2>2, <2>3
<1>3. CASE ~ RunFire
  BY <1>1, <1>3 DEF Next, Run, tmr_start, tmr_cancel, Tick, nsftmr_wake, CallbackReturns, RunEnd, vars
<1> QED
  BY <1>2, <1>3

(* No callback runs before its time by more than the part of the armed     *)
(* interval that had passed when tmr_start queued it behind another timer, *)
(* and what a stray exit posted for.                                       *)
THEOREM NeverTooEarly == Spec => EarlyBounded
<1>1. IInv /\ [Next]_vars => [\A t \in Timers : Fires(t) => age[t] + slack[t] >= asked[t]]_vars
  BY FiresOnTime
<1> QED
  BY <1>1, Inductive, PTL DEF Spec, EarlyBounded

-----------------------------------------------------------------------------
(* The timers that NsfTmrSpec sees running are the queued ones.            *)
LEMMA PassesRunning ==
    ASSUME TypeOK
    PROVE  Deadlines!Running = Pending /\ Togo(g_tmrq) \in [Timers -> Int]
<1>1. /\ Togo(g_tmrq) \in [Timers -> Int] /\ Pending \subseteq Timers
      /\ \A t \in Pending : Togo(g_tmrq)[t] \in Nat
      /\ \A t \in Timers \ Pending : Togo(g_tmrq)[t] = -1
  BY TogoType, QueuedAt DEF TypeOK, Pending
<1>2. \A t \in Timers : Togo(g_tmrq)[t] # -1 <=> t \in Pending
  BY <1>1
<1> QED
  BY <1>1, <1>2 DEF Deadlines!Running, Deadlines!Off

(* tmr_start is a Start of the deadlines.                                  *)
LEMMA StartRefines ==
    ASSUME IInv, NEW t \in Timers, NEW n \in Asks[t], tmr_start(t, n)
    PROVE  Deadlines!Start(t)
<1>1. cb' = cb
  BY DEF tmr_start
<1>2. \E k \in 1 .. MaxTicks : Togo(g_tmrq') = [Togo(g_tmrq) EXCEPT ![t] = k]
  BY StartQueue DEF IInv
<1> QED
  BY <1>1, <1>2 DEF Deadlines!Start

(* tmr_cancel is a Cancel.                                                 *)
LEMMA CancelRefines ==
    ASSUME IInv, NEW t \in Timers, tmr_cancel(t)
    PROVE  Deadlines!Cancel(t)
<1>1. cb' = cb /\ g_tmrq' = Unlink(g_tmrq, t)
  BY DEF tmr_cancel
<1>2. Togo(g_tmrq') = [Togo(g_tmrq) EXCEPT ![t] = -1]
  BY <1>1, UnlinkTogo DEF IInv, TypeOK
<1> QED
  BY <1>1, <1>2 DEF Deadlines!Cancel, Deadlines!Off

(* A callback of nsftmr_run is a Fire, of a timer that is due first.       *)
LEMMA FireRefines ==
    ASSUME IInv, RunFire
    PROVE  \E t \in Timers : Deadlines!Fire(t)
<1>1. PICK h : h = Head(g_tmrq)
  OBVIOUS
<1>2. cb = NONE /\ g_tmrq # <<>> /\ g_tmrq' = Tail(g_tmrq) /\ cb' = h.tmr /\ DeltaQueue(g_tmrq) /\ TypeOK
  BY <1>1 DEF RunFire, IInv, TypeOK
<1>3. /\ h.tmr \in Pending /\ h.tmr \in Timers /\ h.delta \in Nat /\ Togo(g_tmrq)[h.tmr] = h.delta
      /\ \A u \in Pending : Togo(g_tmrq)[h.tmr] <= Togo(g_tmrq)[u]
  BY <1>1, <1>2, HeadFirst, QueuedAt DEF Pending
<1>4. /\ DeltaQueue(g_tmrq') /\ Queued(g_tmrq') = Pending \ {h.tmr}
      /\ \A u \in Pending \ {h.tmr} : Togo(g_tmrq')[u] = Togo(g_tmrq)[u] - h.delta
  BY <1>1, <1>2, TailTogo DEF Pending
<1>5. Deadlines!Running = Pending
  BY <1>2, PassesRunning
<1>6. PICK e : e = [t \in Timers |-> IF t \in Pending THEN Togo(g_tmrq)[t] - h.delta ELSE -1]
  OBVIOUS
<1>7. Deadlines!Elapse(Togo(g_tmrq)[h.tmr]) = e
  BY <1>3, <1>5, <1>6 DEF Deadlines!Elapse, Deadlines!Off
<1>8. Togo(g_tmrq') = [e EXCEPT ![h.tmr] = -1]
  <2>1. PICK d : d = Togo(g_tmrq')
    OBVIOUS
  <2>2. d = [t \in Timers |-> d[t]]
    BY <2>1 DEF Togo
  <2>3. ASSUME NEW t \in Timers
        PROVE  d[t] = [e EXCEPT ![h.tmr] = -1][t]
    <3>1. CASE t \in Pending \ {h.tmr}
      BY <1>4, <1>6, <2>1, <3>1
    <3>2. CASE t \notin Pending \ {h.tmr}
      <4>1. d[t] = -1
        BY <1>4, <2>1, <3>2, TogoType
      <4> QED
        BY <1>3, <1>6, <3>2, <4>1
    <3> QED
      BY <3>1, <3>2
  <2>4. [e EXCEPT ![h.tmr] = -1] = [t \in Timers |-> [e EXCEPT ![h.tmr] = -1][t]]
    BY <1>6
  <2>5. d = [e EXCEPT ![h.tmr] = -1]
    BY <2>2, <2>3, <2>4
  <2> QED
    BY <2>1, <2>5
<1> QED
  BY <1>2, <1>3, <1>5, <1>7, <1>8 DEF Deadlines!Fire, Deadlines!Off

(* The ticks nsftmr_run has left when nothing is due any more are a Pass.  *)
LEMMA EndRefines ==
    ASSUME IInv, RunEnd
    PROVE  Deadlines!Pass \/ UNCHANGED <<Togo(g_tmrq), cb>>
<1>1. cb = NONE /\ cb' = cb /\ TypeOK
  BY DEF RunEnd, IInv
<1>2. CASE UNCHANGED g_tmrq
  BY <1>1, <1>2
<1>3. CASE /\ g_tmrq # <<>> /\ Head(g_tmrq).delta > remaining
           /\ g_tmrq' = [g_tmrq EXCEPT ![1].delta = @ - remaining]
  <2>1. /\ DeltaQueue(g_tmrq') /\ Pending' = Pending
        /\ \A u \in Pending : /\ Togo(g_tmrq')[u] = Togo(g_tmrq)[u] - remaining
                              /\ remaining < Togo(g_tmrq)[u]
    BY <1>1, <1>3, EndQueue
  <2>2. Deadlines!Running = Pending
    BY <1>1, PassesRunning
  <2>3. Togo(g_tmrq') = [t \in Timers |-> IF t \in Pending THEN Togo(g_tmrq)[t] - remaining ELSE -1]
    <3>1. PICK d : d = Togo(g_tmrq')
      OBVIOUS
    <3>2. d = [t \in Timers |-> d[t]]
      BY <3>1 DEF Togo
    <3>3. Queued(g_tmrq') = Pending
      BY <2>1 DEF Pending
    <3>4. \A t \in Timers : d[t] = IF t \in Pending THEN Togo(g_tmrq)[t] - remaining ELSE -1
      BY <2>1, <3>1, <3>3, TogoType
    <3> QED
      BY <3>1, <3>2, <3>4
  <2>4. remaining \in 0 .. MaxTicks
    BY <1>1 DEF TypeOK
  <2>5. Togo(g_tmrq') = Deadlines!Elapse(remaining)
    BY <2>2, <2>3 DEF Deadlines!Elapse, Deadlines!Off
  <2>6. PICK k : k = remaining
    OBVIOUS
  <2>7. Togo(g_tmrq') = Deadlines!Elapse(k)
    BY <2>2, <2>3, <2>6 DEF Deadlines!Elapse, Deadlines!Off
  <2> QED
    BY <1>1, <2>1, <2>2, <2>4, <2>6, <2>7 DEF Deadlines!Pass
<1> QED
  BY <1>2, <1>3 DEF RunEnd

(* The delta queue keeps what NsfTmrSpec promises: tmr_start and tmr_cancel*)
(* move one deadline and no other, and nsftmr_run calls callbacks in the   *)
(* order of the deadlines, whatever they start and cancel themselves.      *)
THEOREM Refines == Spec => KeepsDeadlines
<1>1. Init => Deadlines!Init
  <2>1. SUFFICES ASSUME Init
                 PROVE  Deadlines!Init
    OBVIOUS
  <2>2. cb = NONE /\ g_tmrq = <<>>
    BY <2>1 DEF Init
  <2>3. Togo(<<>>) = [t \in Timers |-> -1]
    BY DEF Togo, Queued
  <2> QED
    BY <2>2, <2>3 DEF Deadlines!Init, Deadlines!Off
<1>2. IInv /\ [Next]_vars => [Deadlines!Next]_<<Togo(g_tmrq), cb>>
  <2>1. SUFFICES ASSUME IInv, [Next]_vars
                 PROVE  [Deadlines!Next]_<<Togo(g_tmrq), cb>>
    OBVIOUS
  <2>2. ASSUME NEW t \in Timers, tmr_cancel(t)
        PROVE  Deadlines!Next
    BY <2>1, <2>2, CancelRefines DEF Deadlines!Next
  <2>3. ASSUME NEW t \in Timers, NEW n \in Asks[t], tmr_start(t, n)
        PROVE  Deadlines!Next
    BY <2>1, <2>3, StartRefines DEF Deadlines!Next
  <2>4. CASE Tick \/ nsftmr_wake \/ UNCHANGED vars
    BY <2>4 DEF Tick, nsftmr_wake, vars
  <2>5. CASE RunFire
    BY <2>1, <2>5, FireRefines DEF Deadlines!Next
  <2>6. CASE CallbackReturns
    <3>1. cb # NONE /\ cb' = NONE /\ UNCHANGED g_tmrq
      BY <2>6 DEF CallbackReturns
    <3>2. Deadlines!Return
      BY <3>1 DEF Deadlines!Return
    <3> QED
      BY <3>2 DEF Deadlines!Next
  <2>7. CASE RunEnd
    BY <2>1, <2>7, EndRefines DEF Deadlines!Next
  <2> QED
    BY <2>1, <2>2, <2>3, <2>4, <2>5, <2>6, <2>7 DEF Next, Run
<1> QED
  BY <1>1, <1>2, Inductive, PTL DEF Spec, KeepsDeadlines, Deadlines!Spec
=============================================================================
