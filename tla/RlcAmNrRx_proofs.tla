-------------------------- MODULE RlcAmNrRx_proofs --------------------------
(***************************************************************************)
(* The two entities of RLC AM, one call at a time, when the grants hold a  *)
(* whole SDU: what each method of the sender and of the receiver keeps,    *)
(* for every SN length.  Positions in the SN space are compared by how far *)
(* they are behind TX_Next.                                                *)
(***************************************************************************)
EXTENDS RlcAmNrRx, FiniteSetTheorems, TLAPS

-----------------------------------------------------------------------------
(* Sequences: the facts cited below.                                       *)

\* Sequences are functions on 1..n.
LEMMA SeqIs == \A S : Seq(S) = UNION {[1..n -> S] : n \in Nat}
  OBVIOUS

\* A function on 1..n is a sequence.
LEMMA FcnIsSeq ==
  ASSUME NEW S, NEW n \in Nat, NEW f \in [1..n -> S]
  PROVE  f \in Seq(S)
  BY SeqIs

\* The items of a sequence are in its set.
LEMMA SeqItem ==
  ASSUME NEW S, NEW q \in Seq(S), NEW i \in 1..Len(q)
  PROVE  q[i] \in S
  OBVIOUS

\* A sequence is a function on its positions.
LEMMA SeqDomain ==
  ASSUME NEW S, NEW q \in Seq(S)
  PROVE  Len(q) \in Nat /\ q \in [1..Len(q) -> S] /\ DOMAIN q = 1..Len(q)
  OBVIOUS

\* The empty sequence is the one of length 0.
LEMMA NoItems ==
  ASSUME NEW S
  PROVE  /\ <<>> \in Seq(S) /\ Len(<<>>) = 0
         /\ \A q \in Seq(S) : q # <<>> => Len(q) \in Nat \ {0}
  OBVIOUS

\* Sequences with the same items are equal.
LEMMA SameItems ==
  ASSUME NEW S, NEW q \in Seq(S), NEW r \in Seq(S), Len(q) = Len(r), \A i \in 1..Len(q) : q[i] = r[i]
  PROVE  q = r
  OBVIOUS

\* The items of a concatenation.
LEMMA Joined ==
  ASSUME NEW S, NEW q \in Seq(S), NEW r \in Seq(S)
  PROVE  /\ q \o r \in Seq(S) /\ Len(q \o r) = Len(q) + Len(r)
         /\ \A i \in 1..(Len(q) + Len(r)) : (q \o r)[i] = IF i <= Len(q) THEN q[i] ELSE r[i - Len(q)]
  OBVIOUS

\* The items of a part of a sequence.
LEMMA Part ==
  ASSUME NEW S, NEW q, NEW m \in Int, NEW n \in Int, \A i \in m..n : q[i] \in S
  PROVE  /\ SubSeq(q, m, n) \in Seq(S)
         /\ Len(SubSeq(q, m, n)) = IF m <= n THEN n - m + 1 ELSE 0
         /\ \A i \in 1..(n - m + 1) : SubSeq(q, m, n)[i] = q[m + i - 1]
  OBVIOUS

\* The items of a sequence that was appended to.
LEMMA Appended ==
  ASSUME NEW S, NEW q \in Seq(S), NEW e \in S
  PROVE  /\ Append(q, e) \in Seq(S) /\ Append(q, e) # <<>> /\ Len(Append(q, e)) = Len(q) + 1
         /\ \A i \in 1..Len(q) : Append(q, e)[i] = q[i]
         /\ Append(q, e)[Len(q) + 1] = e
  OBVIOUS

-----------------------------------------------------------------------------
(* Arithmetic of sequence numbers.                                         *)

\* The window is half the SN space and has more than one SN.
LEMMA WindowIsHalf ==
  am_window_size \in Nat /\ am_window_size >= 2 /\ ModNr = 2 * am_window_size /\ ModNr \in Nat
  BY RlcAmAssumption DEF am_window_size

\* Reduction modulo the SN space of a number near it.
LEMMA Reduce ==
  ASSUME NEW x \in Int
  PROVE  /\ x \in 0..(ModNr - 1) => x % ModNr = x
         /\ x \in (0 - ModNr)..(0 - 1) => x % ModNr = x + ModNr
         /\ x \in ModNr..(2 * ModNr - 1) => x % ModNr = x - ModNr
         /\ x % ModNr \in SNs
  BY WindowIsHalf DEF SNs

\* The distance of two SNs.
LEMMA Distance ==
  ASSUME NEW s \in SNs, NEW b \in SNs
  PROVE  /\ s >= b => ModBase(s, b) = s - b
         /\ s < b => ModBase(s, b) = s - b + ModNr
         /\ ModBase(s, b) \in SNs /\ ModBase(s, b) \in Nat /\ ModBase(s, b) < ModNr
<1>1. PICK x : x = s - b
  OBVIOUS
<1>2. x \in Int /\ (s >= b => x \in 0..(ModNr - 1)) /\ (s < b => x \in (0 - ModNr)..(0 - 1))
  BY <1>1, WindowIsHalf DEF SNs
<1>3. PICK m : m = x % ModNr
  OBVIOUS
<1>4. (s >= b => m = x) /\ (s < b => m = x + ModNr) /\ m \in SNs
  BY <1>2, <1>3, Reduce, Zenon
<1>5. (s >= b => m = s - b) /\ (s < b => m = s - b + ModNr) /\ m \in Nat /\ m < ModNr
  BY <1>1, <1>4, WindowIsHalf DEF SNs
<1>6. ModBase(s, b) = m
  BY <1>1, <1>3, Zenon DEF ModBase
<1> QED
  BY <1>4, <1>5, <1>6, Zenon

\* An SN is known by its distance from another one.
LEMMA SameDistance ==
  ASSUME NEW n \in SNs, NEW s \in SNs, NEW u \in SNs, ModBase(n, s) = ModBase(n, u)
  PROVE  s = u
<1>1. /\ n >= s => ModBase(n, s) = n - s
      /\ n < s => ModBase(n, s) = n - s + ModNr
      /\ n >= u => ModBase(n, u) = n - u
      /\ n < u => ModBase(n, u) = n - u + ModNr
  BY Distance, Zenon
<1> QED
  BY <1>1, WindowIsHalf DEF SNs

\* The distance of two SNs from how far both are behind a third.
LEMMA Between ==
  ASSUME NEW n \in SNs, NEW s \in SNs, NEW b \in SNs
  PROVE  /\ ModBase(n, b) >= ModBase(n, s) => ModBase(s, b) = ModBase(n, b) - ModBase(n, s)
         /\ ModBase(n, b) < ModBase(n, s) => ModBase(s, b) = ModBase(n, b) - ModBase(n, s) + ModNr
<1>1. /\ n >= s => ModBase(n, s) = n - s
      /\ n < s => ModBase(n, s) = n - s + ModNr
      /\ n >= b => ModBase(n, b) = n - b
      /\ n < b => ModBase(n, b) = n - b + ModNr
      /\ s >= b => ModBase(s, b) = s - b
      /\ s < b => ModBase(s, b) = s - b + ModNr
  BY Distance, Zenon
<1> QED
  BY <1>1, WindowIsHalf DEF SNs

\* The SN a number of SNs further on.
LEMMA Reduced ==
  ASSUME NEW s \in SNs, NEW d \in 0..ModNr
  PROVE  /\ (s + d) % ModNr \in SNs
         /\ s + d < ModNr => (s + d) % ModNr = s + d
         /\ s + d >= ModNr => (s + d) % ModNr = s + d - ModNr
<1>1. PICK x : x = s + d
  OBVIOUS
<1>2. x \in Int /\ (x < ModNr => x \in 0..(ModNr - 1)) /\ (x >= ModNr => x \in ModNr..(2 * ModNr - 1))
  BY <1>1, WindowIsHalf DEF SNs
<1>3. PICK m : m = x % ModNr
  OBVIOUS
<1>4. (x < ModNr => m = x) /\ (x >= ModNr => m = x - ModNr) /\ m \in SNs
  BY <1>2, <1>3, Reduce, Zenon
<1>5. (s + d < ModNr => m = s + d) /\ (s + d >= ModNr => m = s + d - ModNr)
  BY <1>1, <1>4, WindowIsHalf DEF SNs
<1>6. m = (s + d) % ModNr
  BY <1>1, <1>3, Zenon
<1> QED
  BY <1>4, <1>5, <1>6, Zenon

\* d SNs further on is d less behind.
LEMMA Further ==
  ASSUME NEW n \in SNs, NEW s \in SNs, NEW d \in SNs
  PROVE  /\ (s + d) % ModNr \in SNs
         /\ d <= ModBase(n, s) => ModBase(n, (s + d) % ModNr) = ModBase(n, s) - d
         /\ d > ModBase(n, s) => ModBase(n, (s + d) % ModNr) = ModBase(n, s) - d + ModNr
<1>1. PICK m : m = (s + d) % ModNr
  OBVIOUS
<1>2. d \in 0..ModNr
  BY WindowIsHalf DEF SNs
<1>3. m \in SNs /\ (s + d < ModNr => m = s + d) /\ (s + d >= ModNr => m = s + d - ModNr)
  BY <1>1, <1>2, Reduced, Zenon
<1>4. /\ n >= s => ModBase(n, s) = n - s
      /\ n < s => ModBase(n, s) = n - s + ModNr
      /\ n >= m => ModBase(n, m) = n - m
      /\ n < m => ModBase(n, m) = n - m + ModNr
  BY <1>3, Distance, Zenon
<1>5. /\ d <= ModBase(n, s) => ModBase(n, m) = ModBase(n, s) - d
      /\ d > ModBase(n, s) => ModBase(n, m) = ModBase(n, s) - d + ModNr
  BY <1>3, <1>4, WindowIsHalf DEF SNs
<1> QED
  BY <1>1, <1>3, <1>5, Zenon

\* A distance does not depend on whether its end was reduced.
LEMMA Unreduced ==
  ASSUME NEW s \in SNs, NEW b \in SNs, NEW d \in SNs
  PROVE  ModBase(s + d, b) = ModBase((s + d) % ModNr, b)
<1>1. PICK m : m = (s + d) % ModNr
  OBVIOUS
<1>2. d \in 0..ModNr
  BY WindowIsHalf DEF SNs
<1>3. m \in SNs /\ (s + d < ModNr => m = s + d) /\ (s + d >= ModNr => m = s + d - ModNr)
  BY <1>1, <1>2, Reduced, Zenon
<1>4. /\ m >= b => ModBase(m, b) = m - b
      /\ m < b => ModBase(m, b) = m - b + ModNr
  BY <1>3, Distance, Zenon
<1>0. PICK y : y = s + d
  OBVIOUS
<1>5. PICK x : x = y - b
  OBVIOUS
<1>6. /\ x \in Int
      /\ x < 0 => x \in (0 - ModNr)..(0 - 1)
      /\ x >= 0 /\ x < ModNr => x \in 0..(ModNr - 1)
      /\ x >= ModNr => x \in ModNr..(2 * ModNr - 1)
  BY <1>0, <1>5, WindowIsHalf DEF SNs
<1>7. PICK k : k = x % ModNr
  OBVIOUS
<1>8. /\ x < 0 => k = x + ModNr
      /\ x >= 0 /\ x < ModNr => k = x
      /\ x >= ModNr => k = x - ModNr
  BY <1>6, <1>7, Reduce, Zenon
<1>9. k = ModBase(m, b)
  BY <1>0, <1>3, <1>4, <1>5, <1>8, WindowIsHalf DEF SNs
<1>10. ModBase(y, b) = k
  BY <1>5, <1>7, Zenon DEF ModBase
<1> QED
  BY <1>0, <1>1, <1>9, <1>10, Zenon

\* When TX_Next advances, every SN is one further behind.
LEMMA OneFurther ==
  ASSUME NEW n \in SNs, NEW s \in SNs
  PROVE  /\ (n + 1) % ModNr \in SNs
         /\ ModBase(n, s) < ModNr - 1 => ModBase((n + 1) % ModNr, s) = ModBase(n, s) + 1
         /\ ModBase(n, s) = ModNr - 1 => ModBase((n + 1) % ModNr, s) = 0
<1>1. PICK m : m = (n + 1) % ModNr
  OBVIOUS
<1>2. 1 \in 0..ModNr
  BY WindowIsHalf
<1>3. m \in SNs /\ (n + 1 < ModNr => m = n + 1) /\ (n + 1 >= ModNr => m = n + 1 - ModNr)
  BY <1>1, <1>2, Reduced, Zenon
<1>4. /\ m >= s => ModBase(m, s) = m - s
      /\ m < s => ModBase(m, s) = m - s + ModNr
      /\ n >= s => ModBase(n, s) = n - s
      /\ n < s => ModBase(n, s) = n - s + ModNr
  BY <1>3, Distance, Zenon
<1>5. /\ ModBase(n, s) < ModNr - 1 => ModBase(m, s) = ModBase(n, s) + 1
      /\ ModBase(n, s) = ModNr - 1 => ModBase(m, s) = 0
  BY <1>3, <1>4, WindowIsHalf DEF SNs
<1> QED
  BY <1>1, <1>3, <1>5, Zenon

\* There is an SN at every distance behind another.
LEMMA Behind ==
  ASSUME NEW n \in SNs, NEW d \in SNs
  PROVE  \E s \in SNs : ModBase(n, s) = d
<1>1. CASE n >= d
  <2>1. PICK s : s = n - d
    OBVIOUS
  <2>2. s \in SNs /\ n >= s /\ n - s = d
    BY <1>1, <2>1, WindowIsHalf DEF SNs
  <2>3. ModBase(n, s) = n - s
    BY <2>2, Distance, Zenon
  <2> QED
    BY <2>2, <2>3, Zenon
<1>2. CASE n < d
  <2>1. PICK s : s = n - d + ModNr
    OBVIOUS
  <2>2. s \in SNs /\ n < s /\ n - s + ModNr = d
    BY <1>2, <2>1, WindowIsHalf DEF SNs
  <2>3. ModBase(n, s) = n - s + ModNr
    BY <2>2, Distance, Zenon
  <2> QED
    BY <2>2, <2>3, Zenon
<1> QED
  BY <1>1, <1>2, WindowIsHalf DEF SNs

-----------------------------------------------------------------------------
(* Induction and folds.                                                    *)

\* A set of natural numbers that is not empty has a least one.
LEMMA LeastOf ==
  ASSUME NEW S, S \subseteq Nat, S # {}
  PROVE  \E n \in S : n \in Nat /\ \A m \in S : n <= m
<1>1. PICK n \in S : \A m \in S : ~(<<m, n>> \in OpToRel(<, Nat))
  BY WFMin, NatLessThanWellFounded, Zenon
<1>2. n \in Nat /\ \A m \in S : m \in Nat /\ ~(m < n)
  BY <1>1, Zenon DEF OpToRel
<1> QED
  BY <1>2

\* Counting up.
LEMMA UpTo ==
  ASSUME NEW n \in Nat, NEW G, 0 \in G, \A k \in 1..n : k - 1 \in G => k \in G
  PROVE  \A k \in 0..n : k \in G
<1> SUFFICES ASSUME NEW k \in 0..n, k \notin G PROVE FALSE
  OBVIOUS
<1> DEFINE S == (0..n) \ G
<1>1. S \subseteq Nat /\ S # {}
  OBVIOUS
<1>2. PICK m \in S : m \in Nat /\ \A j \in S : m <= j
  BY <1>1, LeastOf, Zenon
<1>3. m # 0 /\ m \in 1..n /\ m \notin G
  BY <1>2
<1>4. m - 1 \in 0..n /\ ~(m <= m - 1)
  BY <1>3
<1>5. m - 1 \in G
  BY <1>2, <1>4
<1> QED
  BY <1>3, <1>5

\* A set of numbers up to n that is not empty has a greatest one.
LEMMA GreatestOf ==
  ASSUME NEW n \in Nat, NEW S, S \subseteq 0..n, S # {}
  PROVE  Max(S) \in S /\ \A m \in S : m <= Max(S)
<1> DEFINE D == {d \in 0..n : n - d \in S}
<1>1. D \subseteq Nat
  OBVIOUS
<1>2. D # {}
  <2>1. PICK s \in S : s \in 0..n
    BY Zenon
  <2>2. PICK d : d = n - s
    OBVIOUS
  <2>3. d \in 0..n /\ n - d = s
    BY <2>1, <2>2
  <2> QED
    BY <2>1, <2>3, Zenon
<1>3. PICK d \in D : d \in Nat /\ \A e \in D : d <= e
  BY <1>1, <1>2, LeastOf, Zenon
<1>4. PICK m : m = n - d
  OBVIOUS
<1>5. m \in S
  BY <1>3, <1>4
<1>6. ASSUME NEW k \in S PROVE m >= k
  <2>1. k \in 0..n
    OBVIOUS
  <2>2. PICK e : e = n - k
    OBVIOUS
  <2>3. e \in 0..n /\ n - e = k
    BY <2>1, <2>2
  <2>4. e \in D
    BY <2>3
  <2>5. d <= e /\ d \in 0..n
    BY <1>3, <2>4
  <2> QED
    BY <1>4, <2>1, <2>2, <2>5
<1>7. Max(S) \in S /\ \A k \in S : Max(S) >= k
  BY <1>5, <1>6, Zenon DEF Max
<1>8. \A k \in S : k \in Nat
  OBVIOUS
<1> QED
  BY <1>7, <1>8

\* The greatest number of a set.
LEMMA MaxIs ==
  ASSUME NEW n \in Nat, NEW S, S \subseteq 0..n, NEW k \in S, \A m \in S : m <= k
  PROVE  Max(S) = k
<1>1. PICK g : g = Max(S)
  OBVIOUS
<1>2. g \in S /\ k <= g
  BY <1>1, GreatestOf, Zenon
<1>3. g = k
  BY <1>2
<1> QED
  BY <1>1, <1>3, Zenon

\* it is the recursive function a fold from b with the functions F[1] .. F[n] is defined by.
IsFold(n, b, F, it) ==
  \A s \in SUBSET (1..n) : it[s] = IF s = {} THEN b ELSE F[Max(s)][it[s \ {Max(s)}]]

\* What folding over the indices of a sequence looks for exists.
LEMMA FoldExists ==
  ASSUME NEW n \in Nat, NEW T, NEW b \in T, NEW F \in [1..n -> [T -> T]]
  PROVE  \E it : it \in [SUBSET (1..n) -> T] /\ IsFold(n, b, F, it)
<1> DEFINE Ok(k, it) == /\ it \in [SUBSET (1..k) -> T]
                        /\ \A s \in SUBSET (1..k) :
                             it[s] = IF s = {} THEN b ELSE F[Max(s)][it[s \ {Max(s)}]]
           G == {k \in 0..n : \E it : Ok(k, it)}
<1>1. 0 \in G
  <2>1. Ok(0, [s \in SUBSET (1..0) |-> b])
    <3>1. \A s \in SUBSET (1..0) : s = {}
      OBVIOUS
    <3> QED
      BY <3>1, Zenon
  <2>2. 0 \in 0..n
    OBVIOUS
  <2> QED
    BY <2>1, <2>2, Zenon
<1>2. ASSUME NEW k \in 1..n, k - 1 \in G PROVE k \in G
  <2>1. PICK g : Ok(k - 1, g)
    BY <1>2, Zenon
  <2>2. PICK j : j = k - 1
    OBVIOUS
  <2>3. /\ g \in [SUBSET (1..j) -> T]
        /\ \A s \in SUBSET (1..j) : g[s] = IF s = {} THEN b ELSE F[Max(s)][g[s \ {Max(s)}]]
    BY <2>1, <2>2, Zenon
  <2>4. \A s \in SUBSET (1..k) : /\ k \in s => s \ {k} \in SUBSET (1..j)
                                 /\ k \notin s => s \in SUBSET (1..j)
    BY <2>2
  <2> DEFINE h == [s \in SUBSET (1..k) |-> IF k \in s THEN F[k][g[s \ {k}]] ELSE g[s]]
  <2>5. h \in [SUBSET (1..k) -> T]
    <3> SUFFICES ASSUME NEW s \in SUBSET (1..k)
                 PROVE  (IF k \in s THEN F[k][g[s \ {k}]] ELSE g[s]) \in T
      BY Zenon
    <3>1. F[k] \in [T -> T]
      BY Zenon
    <3> QED
      BY <2>3, <2>4, <3>1, Zenon
  <2>6. ASSUME NEW s \in SUBSET (1..k)
        PROVE  h[s] = IF s = {} THEN b ELSE F[Max(s)][h[s \ {Max(s)}]]
    <3>0. k \in Nat /\ s \subseteq 0..k
      OBVIOUS
    <3>1. CASE k \in s
      <4>1. \A m \in s : m <= k
        OBVIOUS
      <4>2. Max(s) = k
        BY <3>0, <3>1, <4>1, MaxIs, Zenon
      <4>3. s \ {k} \in SUBSET (1..k) /\ k \notin s \ {k}
        OBVIOUS
      <4>4. h[s \ {k}] = g[s \ {k}] /\ h[s] = F[k][g[s \ {k}]]
        BY <3>1, <4>3, Zenon
      <4>5. s # {}
        BY <3>1
      <4> QED
        BY <4>2, <4>4, <4>5, Zenon
    <3>2. CASE k \notin s
      <4>1. h[s] = g[s] /\ s \in SUBSET (1..j)
        BY <2>4, <3>2, Zenon
      <4>2. CASE s = {}
        BY <2>3, <4>1, <4>2, Zenon
      <4>3. CASE s # {}
        <5>1. PICK m : m = Max(s)
          OBVIOUS
        <5>2. m \in s
          BY <3>0, <4>3, <5>1, GreatestOf, Zenon
        <5>3. s \ {m} \in SUBSET (1..k) /\ k \notin s \ {m}
          BY <3>2, Zenon
        <5>4. h[s \ {m}] = g[s \ {m}]
          BY <5>3, Zenon
        <5>5. g[s] = F[m][g[s \ {m}]]
          BY <2>3, <4>1, <4>3, <5>1, Zenon
        <5> QED
          BY <4>1, <4>3, <5>1, <5>4, <5>5, Zenon
      <4> QED
        BY <4>2, <4>3, Zenon
    <3> QED
      BY <3>1, <3>2, Zenon
  <2> HIDE DEF h
  <2>7. Ok(k, h)
    BY <2>5, <2>6, Zenon
  <2> HIDE DEF Ok
  <2>8. k \in 0..n
    OBVIOUS
  <2> QED
    BY <2>7, <2>8, Zenon
<1> HIDE DEF G
<1>3. n \in G
  <2>1. n \in 0..n
    OBVIOUS
  <2> QED
    BY <1>1, <1>2, <2>1, UpTo, Zenon
<1> QED
  BY <1>3, Zenon DEF G, IsFold

\* The sets of indices a fold over a sequence goes through.
LEMMA FirstIndices ==
  ASSUME NEW n \in Nat
  PROVE  /\ 1..0 = {} /\ {} \in SUBSET (1..n)
         /\ \A k \in 1..n : /\ Max(1..k) = k /\ (1..k) \ {k} = 1..(k - 1)
                            /\ 1..k # {} /\ 1..k \in SUBSET (1..n) /\ k \in Nat
<1>1. ASSUME NEW k \in 1..n PROVE Max(1..k) = k
  <2>1. k \in Nat /\ 1..k \subseteq 0..k /\ k \in 1..k /\ \A m \in 1..k : m <= k
    OBVIOUS
  <2> QED
    BY <2>1, MaxIs, Zenon
<1>2. \A k \in 1..n : (1..k) \ {k} = 1..(k - 1) /\ 1..k # {} /\ 1..k \in SUBSET (1..n) /\ k \in Nat
  OBVIOUS
<1>3. 1..0 = {} /\ {} \in SUBSET (1..n)
  OBVIOUS
<1> QED
  BY <1>1, <1>2, <1>3, Zenon

\* The queue without a whole entry of it.
LEMMA RemoveOne ==
  ASSUME NEW S, NEW q \in Seq(S), NEW sn
  PROVE  RemoveSN(q, sn) \in Seq(S)
<1> DEFINE idx == {i \in DOMAIN q : q[i].sn = sn}
<1>1. CASE idx = {}
  BY <1>1 DEF RemoveSN
<1>2. CASE idx # {}
  <2>1. idx \subseteq Nat
    OBVIOUS
  <2>2. \E i \in idx : \A j \in idx : i <= j
    BY <1>2, <2>1, LeastOf, Zenon
  <2>3. PICK i : i = CHOOSE k \in idx : \A j \in idx : k <= j
    OBVIOUS
  <2>4. i \in idx
    BY <2>2, <2>3, Zenon
  <2>5. RemoveSN(q, sn) = RemoveAt(q, i)
    BY <1>2, <2>3, Zenon DEF RemoveSN
  <2>6. i \in 1..Len(q)
    BY <2>4
  <2>7. SubSeq(q, 1, i - 1) \in Seq(S) /\ SubSeq(q, i + 1, Len(q)) \in Seq(S)
    BY <2>6, Part
  <2> QED
    BY <2>5, <2>7, Joined, Zenon DEF RemoveAt
<1> QED
  BY <1>1, <1>2

\* Acknowledged SNs leave retx_queue one after the other.
LEMMA RemoveAll ==
  ASSUME NEW S, NEW q \in Seq(S), NEW n \in Nat, NEW sns, DOMAIN sns = 1..n
  PROVE  FoldLeft(RemoveSN, q, sns) \in Seq(S)
<1>0. PICK T : T = Seq(S)
  OBVIOUS
<1> DEFINE F == [i \in 1..n |-> [x \in T |-> RemoveSN(x, sns[i])]]
<1>1. F \in [1..n -> [T -> T]] /\ q \in T
  BY <1>0, RemoveOne, Zenon
<1>11. \A i \in 1..n : \A x \in T : F[i][x] = RemoveSN(x, sns[i])
  BY Zenon
<1> HIDE DEF F
<1>2. PICK g : g \in [SUBSET (1..n) -> T] /\ IsFold(n, q, F, g)
  BY <1>1, FoldExists, Zenon
<1>3. ASSUME NEW s \in SUBSET (1..n)
      PROVE  g[s] = IF s = {} THEN q ELSE RemoveSN(g[s \ {Max(s)}], sns[Max(s)])
  <2>1. CASE s = {}
    BY <1>2, <2>1, Zenon DEF IsFold
  <2>2. CASE s # {}
    <3>1. PICK m : m = Max(s)
      OBVIOUS
    <3>2. s \subseteq 0..n
      OBVIOUS
    <3>3. m \in s
      BY <2>2, <3>1, <3>2, GreatestOf, Zenon
    <3>4. m \in 1..n /\ s \ {m} \in SUBSET (1..n)
      BY <3>3
    <3>5. F[m][g[s \ {m}]] = RemoveSN(g[s \ {m}], sns[m])
      BY <1>2, <1>11, <3>4, Zenon
    <3> QED
      BY <1>2, <2>2, <3>1, <3>5, Zenon DEF IsFold
  <2> QED
    BY <2>1, <2>2, Zenon
<1>4. g = [s \in SUBSET DOMAIN sns |-> IF s = {} THEN q ELSE RemoveSN(g[s \ {Max(s)}], sns[Max(s)])]
  BY <1>2, <1>3, Zenon
<1>5. PICK it : /\ it = [s \in SUBSET DOMAIN sns |-> IF s = {} THEN q ELSE RemoveSN(it[s \ {Max(s)}], sns[Max(s)])]
                /\ FoldLeft(RemoveSN, q, sns) = it[DOMAIN sns]
  BY <1>4, Zenon DEF FoldLeft, MapThenFoldSet
<1> DEFINE G == {k \in 0..n : it[1..k] \in Seq(S)}
<1>6. 0 \in G
  <2>1. it[{}] = q /\ 1..0 = {} /\ 0 \in 0..n
    BY <1>5
  <2> QED
    BY <2>1, Zenon
<1>7. ASSUME NEW k \in 1..n, k - 1 \in G PROVE k \in G
  <2>1. Max(1..k) = k /\ (1..k) \ {k} = 1..(k - 1) /\ 1..k # {} /\ 1..k \in SUBSET (1..n)
    BY FirstIndices, Zenon
  <2>2. it[1..k] = RemoveSN(it[1..(k - 1)], sns[k])
    BY <1>5, <2>1, Zenon
  <2>3. k \in 0..n
    OBVIOUS
  <2>4. PICK p : p = it[1..(k - 1)] /\ p \in Seq(S)
    BY <1>7
  <2>5. it[1..k] \in Seq(S)
    BY <2>2, <2>4, RemoveOne
  <2> QED
    BY <2>3, <2>5
<1> HIDE DEF G
<1>8. n \in G
  <2>1. n \in 0..n
    OBVIOUS
  <2> QED
    BY <1>6, <1>7, <2>1, UpTo, Zenon
<1> QED
  BY <1>5, <1>8, Zenon DEF G

\* it is the recursive function FlattenSeq is defined by.
IsFlatten(q, it) == it = [i \in 1..Len(q) |-> IF i = 1 THEN q[i] ELSE it[i - 1] \o q[i]]

\* What flattening a sequence of sequences looks for exists.
LEMMA FlattenExists ==
  ASSUME NEW S, NEW q \in Seq(Seq(S)), Len(q) # 0
  PROVE  \E it : IsFlatten(q, it) /\ FlattenSeq(q) = it[Len(q)]
<1> DEFINE n == Len(q)
<1>1. n \in Nat /\ DOMAIN q = 1..n /\ \A i \in 1..n : q[i] \in Seq(S)
  OBVIOUS
<1> HIDE DEF n
<1> DEFINE Ok(k, f) == \A i \in 1..k : f[i] = IF i = 1 THEN q[i] ELSE f[i - 1] \o q[i]
           G == {k \in 0..n : \E f : Ok(k, f)}
<1>2. 0 \in G
  <2>1. Ok(0, <<>>) /\ 0 \in 0..n
    BY <1>1
  <2> QED
    BY <2>1, Zenon
<1>3. ASSUME NEW k \in 1..n, k - 1 \in G PROVE k \in G
  <2>1. PICK j : j = k - 1
    OBVIOUS
  <2>2. PICK f : Ok(j, f)
    BY <1>3, <2>1
  <2> DEFINE h == [i \in 1..k |-> IF i = k THEN (IF i = 1 THEN q[i] ELSE f[i - 1] \o q[i]) ELSE f[i]]
  <2>3. ASSUME NEW i \in 1..k PROVE h[i] = IF i = 1 THEN q[i] ELSE h[i - 1] \o q[i]
    <3>1. CASE i = 1 /\ k = 1
      BY <3>1
    <3>2. CASE i = 1 /\ k # 1
      <4>1. i \in 1..j /\ h[i] = f[i]
        BY <1>1, <2>1, <3>2
      <4> QED
        BY <2>2, <3>2, <4>1
    <3>3. CASE i # 1
      <4>1. i - 1 \in 1..k /\ i - 1 # k /\ (i # k => i \in 1..j)
        BY <1>1, <2>1, <3>3
      <4>2. PICK e : e = i - 1
        OBVIOUS
      <4>3. h[e] = f[e]
        BY <4>1, <4>2, Zenon
      <4>4. CASE i = k
        BY <3>3, <4>2, <4>3, <4>4, Zenon
      <4>5. CASE i # k
        <5>1. h[i] = f[i] /\ f[i] = f[e] \o q[i]
          BY <2>2, <3>3, <4>1, <4>2, <4>5, Zenon
        <5> QED
          BY <3>3, <4>2, <4>3, <5>1, Zenon
      <4> QED
        BY <4>4, <4>5, Zenon
    <3> QED
      BY <3>1, <3>2, <3>3, Zenon
  <2> HIDE DEF h
  <2>4. Ok(k, h)
    BY <2>3, Zenon
  <2>5. k \in 0..n
    OBVIOUS
  <2> HIDE DEF Ok
  <2> QED
    BY <2>4, <2>5, Zenon
<1> HIDE DEF G
<1>4. n \in G
  <2>1. n \in 0..n
    BY <1>1
  <2> QED
    BY <1>1, <1>2, <1>3, <2>1, UpTo, Zenon
<1>5. PICK f : Ok(n, f)
  BY <1>4, Zenon DEF G
<1> DEFINE g == [i \in 1..n |-> f[i]]
<1>6. g = [i \in 1..n |-> IF i = 1 THEN q[i] ELSE g[i - 1] \o q[i]]
  <2>1. ASSUME NEW i \in 1..n PROVE g[i] = IF i = 1 THEN q[i] ELSE g[i - 1] \o q[i]
    <3>1. i # 1 => i - 1 \in 1..n
      BY <1>1
    <3>2. i # 1 => g[i - 1] = f[i - 1]
      BY <3>1, Zenon
    <3> QED
      BY <1>5, <3>2, Zenon
  <2>2. g = [i \in 1..n |-> g[i]]
    OBVIOUS
  <2> HIDE DEF g
  <2> QED
    BY <2>1, <2>2, Zenon
<1> HIDE DEF g
<1>7. \E it : it = [i \in 1..Len(q) |-> IF i = 1 THEN q[i] ELSE it[i - 1] \o q[i]]
  BY <1>6, Zenon DEF n
<1> QED
  BY <1>7, Zenon DEF FlattenSeq, IsFlatten

\* Flattening from the front: the first part, and each one after it.
LEMMA FlattenSteps ==
  ASSUME NEW S, NEW q \in Seq(Seq(S)), NEW it, IsFlatten(q, it), Len(q) # 0
  PROVE  /\ it[1] = q[1] /\ it[1] \in Seq(S)
         /\ \A k \in 1..Len(q) : it[k] \in Seq(S) /\ (k # 1 => it[k] = it[k - 1] \o q[k])
<1> DEFINE n == Len(q)
           G == {k \in 0..n : k = 0 \/ it[k] \in Seq(S)}
<1>1. n \in Nat /\ DOMAIN q = 1..n /\ (\A i \in 1..n : q[i] \in Seq(S)) /\ n # 0
  OBVIOUS
<1>2. \A k \in 1..n : it[k] = IF k = 1 THEN q[k] ELSE it[k - 1] \o q[k]
  BY Zenon DEF IsFlatten
<1> HIDE DEF n
<1>3. 0 \in G
  BY <1>1
<1>4. ASSUME NEW k \in 1..n, k - 1 \in G PROVE k \in G
  <2>1. CASE k = 1
    BY <1>1, <1>2, <2>1
  <2>2. CASE k # 1
    <3>1. PICK p : p = it[k - 1] /\ p \in Seq(S)
      BY <1>1, <1>4, <2>2
    <3>2. it[k] = p \o q[k] /\ q[k] \in Seq(S)
      BY <1>1, <1>2, <2>2, <3>1, Zenon
    <3>3. it[k] \in Seq(S)
      BY <3>1, <3>2, Joined, Zenon
    <3> QED
      BY <1>1, <3>3
  <2> QED
    BY <2>1, <2>2
<1> HIDE DEF G
<1>5. \A k \in 0..n : k \in G
  BY <1>1, <1>3, <1>4, UpTo, Zenon
<1>6. \A k \in 1..n : it[k] \in Seq(S)
  BY <1>1, <1>5 DEF G
<1>7. 1 \in 1..n
  BY <1>1
<1> QED
  BY <1>2, <1>6, <1>7, Zenon DEF n

-----------------------------------------------------------------------------
(* The sender.                                                             *)

\* An SDU to retransmit as a whole.
WholeRetx == {Retx(s, FALSE, 0, SduBytes) : s \in SNs}

\* The sender's object with the window W and no SDU under segmentation.
TxRec(W) ==
  [tx_next_ack : SNs, tx_next : SNs, poll_sn : SNs, pdu_without_poll : Nat, byte_without_poll : Nat,
   queue : Seq(Nat), window : {W}, retx : Seq(WholeRetx),
   sdu_under_segmentation_sn : {NoSN}, poll_retransmit : BOOLEAN]

\* The SNs from TX_Next_Ack on that were sent, and the window with the SDUs they carry when sent
\* SDUs were sent in all.
Unacked(n, a) == {s \in SNs : 1 <= ModBase(n, s) /\ ModBase(n, s) <= ModBase(n, a)}
Window(n, a, sent) == [s \in Unacked(n, a) |-> [sdu |-> sent - ModBase(n, s) + 1, segs |-> <<>>]]

\* The sender: its window is what it sent and was not acknowledged, at most half the SN space, the
\* queue the SDUs after that, and what it retransmits are whole SDUs.
TxOK(t, sent) ==
  /\ t \in TxRec(Window(t.tx_next, t.tx_next_ack, sent))
  /\ ModBase(t.tx_next, t.tx_next_ack) <= am_window_size
  /\ ModBase(t.tx_next, t.tx_next_ack) <= sent
  /\ \A i \in 1..Len(t.queue) : t.queue[i] = sent + i

\* u differs from t at most in what is retransmitted and in polling.
SameWindow(t, u) == u.tx_next = t.tx_next /\ u.tx_next_ack = t.tx_next_ack /\ u.queue = t.queue

\* g is t after polling or not.
Polled(W, t, g) == g.p \in BOOLEAN /\ g.tx \in TxRec(W) /\ SameWindow(t, g.tx)

\* Polling touches the counters, POLL_SN and the timer only.
LEMMA PollKeeps ==
  ASSUME NEW W, NEW t \in TxRec(W), NEW sn \in SNs, NEW bytes \in Nat, NEW g,
         \E is_retx \in BOOLEAN : g = get_pdu_poll(t, sn, is_retx, bytes)
  PROVE  Polled(W, t, g)
<1> PICK is_retx \in BOOLEAN : g = get_pdu_poll(t, sn, is_retx, bytes)
  OBVIOUS
<1> DEFINE pdus == t.pdu_without_poll + 1
           sum  == t.byte_without_poll + bytes
           due  == ~is_retx /\ (\/ PollPdu > 0 /\ pdus >= PollPdu
                                \/ PollByte > 0 /\ sum >= PollByte)
           dry  == t.queue = <<>> /\ t.retx = <<>> /\ t.sdu_under_segmentation_sn = NoSN
           poll == due \/ dry \/ Full(t)
           psn  == IF is_retx THEN t.poll_sn ELSE sn
           yes  == [t EXCEPT !.pdu_without_poll = 0, !.byte_without_poll = 0,
                             !.poll_sn = psn, !.poll_retransmit = TRUE]
           no   == [t EXCEPT !.pdu_without_poll = pdus, !.byte_without_poll = sum]
           next == IF poll THEN yes ELSE IF is_retx THEN t ELSE no
<1>1. g = [p |-> poll, tx |-> next]
  BY Zenon DEF get_pdu_poll
<1>0. psn \in SNs
  <2>1. t.poll_sn \in SNs
    BY DEF TxRec
  <2> QED
    BY <2>1, Zenon
<1>7. pdus \in Nat /\ sum \in Nat
  BY DEF TxRec
<1> HIDE DEF psn, pdus, sum
<1>2. yes \in TxRec(W) /\ SameWindow(t, yes)
  BY <1>0, Zenon DEF TxRec, SameWindow
<1>3. no \in TxRec(W) /\ SameWindow(t, no) /\ SameWindow(t, t)
  BY <1>7, Zenon DEF TxRec, SameWindow
<1>4. poll \in BOOLEAN
  BY Zenon
<1> HIDE DEF yes, no, poll
<1>5. next = yes \/ next = t \/ next = no
  BY Zenon
<1> HIDE DEF next
<1>6. g.p = poll /\ g.tx = next
  BY <1>1
<1> QED
  BY <1>2, <1>3, <1>4, <1>5, <1>6, Zenon DEF Polled

\* As many SNs as they are far apart lie between two SNs.
LEMMA UnackedCount ==
  ASSUME NEW n \in SNs, NEW a \in SNs
  PROVE  Cardinality(Unacked(n, a)) = ModBase(n, a)
<1>1. PICK k : k = ModBase(n, a)
  OBVIOUS
<1>2. k \in Nat /\ k < ModNr
  BY <1>1, Distance, Zenon
<1> DEFINE f == [s \in Unacked(n, a) |-> ModBase(n, s)]
<1>3. f \in [Unacked(n, a) -> 1..k]
  <2> SUFFICES ASSUME NEW s \in Unacked(n, a) PROVE ModBase(n, s) \in 1..k
    BY Zenon
  <2>1. s \in SNs /\ 1 <= ModBase(n, s) /\ ModBase(n, s) <= k
    BY <1>1, Zenon DEF Unacked
  <2>2. ModBase(n, s) \in Nat
    BY <2>1, Distance, Zenon
  <2> QED
    BY <1>2, <2>1, <2>2
<1>4. \A s, u \in Unacked(n, a) : f[s] = f[u] => s = u
  BY SameDistance, Zenon DEF Unacked
<1>5. ASSUME NEW d \in 1..k PROVE \E s \in Unacked(n, a) : f[s] = d
  <2>1. d \in SNs /\ 1 <= d /\ d <= k
    BY <1>2, WindowIsHalf DEF SNs
  <2>2. PICK s \in SNs : ModBase(n, s) = d
    BY <2>1, Behind, Zenon
  <2>3. s \in Unacked(n, a)
    BY <1>1, <2>1, <2>2, Zenon DEF Unacked
  <2> QED
    BY <2>2, <2>3, Zenon
<1>6. f \in Injection(Unacked(n, a), 1..k) /\ f \in Surjection(Unacked(n, a), 1..k)
  BY <1>3, <1>4, <1>5, Zenon DEF Injection, Surjection, IsInjective
<1> HIDE DEF f
<1>7. IsFiniteSet(1..k) /\ Cardinality(1..k) = k
  BY <1>2, FS_Interval
<1>8. Cardinality(Unacked(n, a)) = Cardinality(1..k)
  BY <1>6, <1>7, FS_Injection, Zenon
<1> QED
  BY <1>1, <1>7, <1>8, Zenon

\* A data PDU with the whole SDU of SN s, and where it can be while it is on its way.
FullPdu(n, sent, s, poll) ==
  [sn |-> s, sdu |-> sent - ModBase(n, s) + 1, si |-> "full", so |-> 0, len |-> SduBytes, p |-> poll]
PduOK(n, sent, p) ==
  \E s \in SNs, poll \in BOOLEAN : /\ p = FullPdu(n, sent, s, poll)
                                   /\ 1 <= ModBase(n, s) /\ ModBase(n, s) <= am_window_size
                                   /\ ModBase(n, s) <= sent

\* The window and the queue are what they were.
LEMMA TxKept ==
  ASSUME NEW t, NEW sent, TxOK(t, sent), NEW u,
         u \in TxRec(Window(t.tx_next, t.tx_next_ack, sent)), SameWindow(t, u)
  PROVE  TxOK(u, sent)
  BY Zenon DEF TxOK, SameWindow

\* The fields of the sender's object.
LEMMA TxFields ==
  ASSUME NEW W, NEW t \in TxRec(W)
  PROVE  /\ t.tx_next \in SNs /\ t.tx_next_ack \in SNs /\ t.poll_sn \in SNs
         /\ t.queue \in Seq(Nat) /\ t.window = W /\ t.retx \in Seq(WholeRetx)
         /\ t.sdu_under_segmentation_sn = NoSN /\ t.poll_retransmit \in BOOLEAN
  BY DEF TxRec

\* A PDU with a whole SDU is a PDU.
LEMMA FullIsPdu ==
  ASSUME NEW n \in SNs, NEW sent \in Nat, NEW s \in SNs, NEW poll \in BOOLEAN, ModBase(n, s) <= sent
  PROVE  FullPdu(n, sent, s, poll) # NoPdu
<1>1. ModBase(n, s) \in Nat
  BY Distance, Zenon
<1>2. sent - ModBase(n, s) + 1 \in Nat /\ s \in Nat /\ 0 \in Nat /\ SduBytes \in Nat
  BY <1>1, WindowIsHalf, RlcAmAssumption DEF SNs
<1>3. FullPdu(n, sent, s, poll) \in [sn : Nat, sdu : Nat, so : Nat, len : Nat, p : BOOLEAN,
                                     si : {"full", "first", "middle", "last"}]
  BY <1>2 DEF FullPdu
<1> QED
  BY <1>3, RlcAmAssumption, Zenon

\* The rest of a sequence from its k-th element on.
LEMMA RestOf ==
  ASSUME NEW S, NEW q \in Seq(S), NEW k \in 1..Len(q)
  PROVE  SubSeq(q, k, Len(q)) \in Seq(S) /\ SubSeq(q, k, Len(q)) # <<>>
<1>1. PICK n : n = Len(q)
  OBVIOUS
<1>2. n \in Int /\ k \in Int /\ k <= n /\ n - k + 1 # 0
  BY <1>1
<1>3. \A i \in k..n : q[i] \in S
  BY <1>1
<1>4. SubSeq(q, k, n) \in Seq(S) /\ Len(SubSeq(q, k, n)) = n - k + 1
  BY <1>2, <1>3, Part, Zenon
<1>5. SubSeq(q, k, n) # <<>>
  BY <1>2, <1>4, NoItems, Zenon
<1> QED
  BY <1>1, <1>4, <1>5, Zenon

\* Nothing, or an SDU that is not acknowledged, was sent.
Resent(t, sent, b) ==
  /\ TxOK(b.tx, sent) /\ SameWindow(t, b.tx)
  /\ \/ b.pdu = NoPdu
     \/ \E s \in Unacked(t.tx_next, t.tx_next_ack), poll \in BOOLEAN :
           b.pdu = FullPdu(t.tx_next, sent, s, poll)

\* A retransmission carries the whole SDU of an SN that is not acknowledged.
LEMMA Retransmit ==
  ASSUME NEW sent \in Nat, NEW t, TxOK(t, sent), NEW g \in Nat, g >= SduBytes + min_hdr_size,
         NEW b, b = build_retx_pdu(t, g)
  PROVE  Resent(t, sent, b)
<1> DEFINE W    == Window(t.tx_next, t.tx_next_ack, sent)
           live == {i \in DOMAIN t.retx : HasSN(t, t.retx[i].sn)}
           k    == CHOOSE i \in live : \A j \in live : i <= j
           t1   == [t EXCEPT !.retx = SubSeq(@, k, Len(@))]
           r    == t.retx[k]
<1>1. t \in TxRec(W)
  BY Zenon DEF TxOK
<1>2. t.retx \in Seq(WholeRetx) /\ t.window = W
  BY <1>1, TxFields, Zenon
<1>3. CASE live = {}
  <2>1. b = Built([t EXCEPT !.retx = <<>>], NoPdu)
    BY <1>3, Zenon DEF build_retx_pdu
  <2>2. /\ [t EXCEPT !.retx = <<>>] \in TxRec(W)
        /\ SameWindow(t, [t EXCEPT !.retx = <<>>])
    <3>1. <<>> \in Seq(WholeRetx)
      BY NoItems, Zenon
    <3> QED
      BY <1>1, <3>1, Zenon DEF TxRec, SameWindow
  <2>3. b.tx = [t EXCEPT !.retx = <<>>] /\ b.pdu = NoPdu
    BY <2>1 DEF Built
  <2> QED
    BY <2>2, <2>3, TxKept, Zenon DEF Resent
<1>4. CASE live # {}
  <2>1. live \subseteq Nat
    BY <1>2
  <2>2. \E i \in live : \A j \in live : i <= j
    BY <1>4, <2>1, LeastOf, Zenon
  <2>3. k \in live
    BY <2>2, Zenon
  <2> HIDE DEF k
  <2>4. k \in 1..Len(t.retx) /\ HasSN(t, r.sn)
    BY <1>2, <2>3
  <2>5. r \in WholeRetx
    BY <1>2, <2>4
  <2>6. PICK s \in SNs : r = Retx(s, FALSE, 0, SduBytes)
    BY <2>5, Zenon DEF WholeRetx
  <2> HIDE DEF r
  <2>7. r.sn = s /\ r.is_segment = FALSE /\ r.current_so = 0 /\ r.so_start = 0 /\ r.len = SduBytes
    BY <2>6 DEF Retx
  <2>8. RetxLen(r) = SduBytes /\ RetxHdr(r) = min_hdr_size
    BY <2>7, Zenon DEF RetxLen, RetxHdr
  <2>9. ~is_retx_segmentation_required(r, g)
    <3>1. ~(g < SduBytes + min_hdr_size)
      BY RlcAmAssumption DEF min_hdr_size
    <3> QED
      BY <2>8, <3>1, Zenon DEF is_retx_segmentation_required
  <2>10. b = build_retx_pdu_without_segmentation(t1, r)
    BY <1>4, <2>9, Zenon DEF build_retx_pdu, r, k
  <2>11. SubSeq(t.retx, k, Len(t.retx)) \in Seq(WholeRetx) /\ SubSeq(t.retx, k, Len(t.retx)) # <<>>
    BY <1>2, <2>4, RestOf, Zenon
  <2>12. t1 \in TxRec(W) /\ SameWindow(t, t1) /\ t1.retx = SubSeq(t.retx, k, Len(t.retx))
    BY <1>1, <2>11, Zenon DEF TxRec, SameWindow
  <2> DEFINE t2   == [t1 EXCEPT !.retx = Tail(@)]
  <2> HIDE DEF t1
  <2>13. Tail(t1.retx) \in Seq(WholeRetx)
    BY <2>11, <2>12
  <2>14. t2 \in TxRec(W) /\ SameWindow(t, t2)
    BY <2>12, <2>13, Zenon DEF TxRec, SameWindow
  <2> HIDE DEF t2
  <2>0. PICK poll : poll = get_pdu_poll(t2, s, TRUE, 0)
    BY Zenon
  <2>15. /\ poll.p \in BOOLEAN /\ poll.tx \in TxRec(W) /\ SameWindow(t2, poll.tx)
    <3>1. 0 \in Nat /\ \E is_retx \in BOOLEAN : poll = get_pdu_poll(t2, s, is_retx, 0)
      BY <2>0, Zenon
    <3>2. Polled(W, t2, poll)
      BY <2>14, <3>1, PollKeeps, Zenon
    <3> QED
      BY <3>2, Zenon DEF Polled
  <2>16. SameWindow(t, poll.tx)
    BY <2>14, <2>15, Zenon DEF SameWindow
  <2>17. b = Built(poll.tx, Pdu(t1, s, "full", 0, SduBytes, poll.p))
    BY <2>0, <2>7, <2>8, <2>10, Zenon DEF build_retx_pdu_without_segmentation, t2
  <2>18. b.tx = poll.tx /\ b.pdu = Pdu(t1, s, "full", 0, SduBytes, poll.p)
    BY <2>17 DEF Built
  <2>19. TxOK(b.tx, sent) /\ SameWindow(t, b.tx)
    BY <2>15, <2>16, <2>18, TxKept, Zenon
  <2>20. s \in Unacked(t.tx_next, t.tx_next_ack) /\ t1.window = W
    <3>1. t1.window = W
      BY <2>12, TxFields, Zenon
    <3>2. s \in DOMAIN W
      BY <1>2, <2>4, <2>7, Zenon DEF HasSN
    <3> QED
      BY <3>1, <3>2, Zenon DEF Window
  <2>21. W[s].sdu = sent - ModBase(t.tx_next, s) + 1
    BY <2>20 DEF Window
  <2>22. b.pdu = FullPdu(t.tx_next, sent, s, poll.p)
    BY <2>18, <2>20, <2>21, Zenon DEF Pdu, FullPdu
  <2> QED
    BY <2>15, <2>19, <2>20, <2>22, Zenon DEF Resent
<1> QED
  BY <1>3, <1>4, Zenon

\* With TX_Next = m instead of n the SN n is not acknowledged either.
Grown(n, a, m) ==
  /\ m \in SNs /\ Unacked(m, a) = Unacked(n, a) \cup {n} /\ n \notin Unacked(n, a)
  /\ ModBase(m, n) = 1 /\ ModBase(m, a) = ModBase(n, a) + 1
  /\ \A s \in Unacked(n, a) : ModBase(m, s) = ModBase(n, s) + 1

\* TX_Next joins the SNs that are not acknowledged when it is sent.
LEMMA WindowGrows ==
  ASSUME NEW n \in SNs, NEW a \in SNs, ModBase(n, a) < am_window_size, NEW m, m = (n + 1) % ModNr
  PROVE  Grown(n, a, m)
<1>1. /\ m \in SNs
      /\ \A s \in SNs : /\ ModBase(n, s) < ModNr - 1 => ModBase(m, s) = ModBase(n, s) + 1
                        /\ ModBase(n, s) = ModNr - 1 => ModBase(m, s) = 0
  BY OneFurther, Zenon
<1>2. \A s \in SNs : ModBase(n, s) \in Nat /\ ModBase(n, s) < ModNr
  BY Distance, Zenon
<1>3. ModBase(n, n) = 0
  <2>1. n >= n /\ n - n = 0
    BY WindowIsHalf DEF SNs
  <2> QED
    BY <2>1, Distance, Zenon
<1>4. ModBase(m, n) = 1
  BY <1>1, <1>3, WindowIsHalf
<1>5. ModBase(m, a) = ModBase(n, a) + 1
  BY <1>1, <1>2, WindowIsHalf
<1>6. ASSUME NEW s \in Unacked(n, a)
      PROVE  ModBase(m, s) = ModBase(n, s) + 1 /\ s \in Unacked(m, a) /\ s # n
  <2>1. s \in SNs /\ 1 <= ModBase(n, s) /\ ModBase(n, s) <= ModBase(n, a)
    BY Zenon DEF Unacked
  <2>2. ModBase(m, s) = ModBase(n, s) + 1
    BY <1>1, <1>2, <2>1, WindowIsHalf
  <2>3. 1 <= ModBase(m, s) /\ ModBase(m, s) <= ModBase(m, a) /\ s # n
    BY <1>2, <1>3, <1>5, <2>1, <2>2
  <2> QED
    BY <2>1, <2>2, <2>3, Zenon DEF Unacked
<1>7. n \in Unacked(m, a)
  <2>1. 1 <= ModBase(m, n) /\ ModBase(m, n) <= ModBase(m, a)
    BY <1>2, <1>4, <1>5
  <2> QED
    BY <2>1, Zenon DEF Unacked
<1>8. ASSUME NEW s \in Unacked(m, a), s # n PROVE s \in Unacked(n, a)
  <2>1. s \in SNs /\ 1 <= ModBase(m, s) /\ ModBase(m, s) <= ModBase(m, a)
    BY Zenon DEF Unacked
  <2>2. ModBase(n, s) # 0
    BY <1>3, <1>8, <2>1, SameDistance, Zenon
  <2>3. 1 <= ModBase(n, s) /\ ModBase(n, s) <= ModBase(n, a)
    BY <1>1, <1>2, <1>5, <2>1, <2>2, WindowIsHalf
  <2> QED
    BY <2>1, <2>3, Zenon DEF Unacked
<1>9. Unacked(m, a) = Unacked(n, a) \cup {n}
  BY <1>6, <1>7, <1>8
<1> QED
  BY <1>1, <1>4, <1>5, <1>6, <1>9, Zenon DEF Grown

\* The next SDU was sent with TX_Next.
NewSent(t, sent, b) ==
  /\ TxOK(b.tx, sent + 1) /\ ModBase(t.tx_next, t.tx_next_ack) < am_window_size
  /\ b.tx.tx_next = (t.tx_next + 1) % ModNr /\ b.tx.tx_next_ack = t.tx_next_ack
  /\ t.queue # <<>> /\ b.tx.queue = Tail(t.queue)
  /\ \E poll \in BOOLEAN : b.pdu = FullPdu((t.tx_next + 1) % ModNr, sent + 1, t.tx_next, poll)

\* The next SDU is sent as a whole, unless the window is full.
LEMMA SendNew ==
  ASSUME NEW sent \in Nat, NEW t, TxOK(t, sent), NEW g \in Nat, g >= SduBytes + min_hdr_size,
         t.queue # <<>>, NEW b, b = build_new_pdu(t, g)
  PROVE  Resent(t, sent, b) \/ NewSent(t, sent, b)
<1> DEFINE W  == Window(t.tx_next, t.tx_next_ack, sent)
<1>1. t \in TxRec(W)
  BY Zenon DEF TxOK
<1>2. PICK n, a, q : n = t.tx_next /\ a = t.tx_next_ack /\ q = t.queue
  OBVIOUS
<1>3. n \in SNs /\ a \in SNs /\ q \in Seq(Nat) /\ t.window = W
  BY <1>1, <1>2, TxFields, Zenon
<1>4. CASE Full(t)
  <2>1. b = Built(t, NoPdu)
    BY <1>4, Zenon DEF build_new_pdu
  <2>2. b.tx = t /\ b.pdu = NoPdu
    BY <2>1 DEF Built
  <2> QED
    BY <2>2, Zenon DEF Resent, SameWindow
<1>5. CASE ~Full(t)
  <2>1. ModBase(n, a) < am_window_size /\ ModBase(n, a) \in Nat
    <3>1. Cardinality(DOMAIN t.window) # am_window_size
      BY <1>5, Zenon DEF Full
    <3>2. DOMAIN t.window = Unacked(n, a)
      BY <1>2, <1>3, Zenon DEF Window
    <3>3. Cardinality(Unacked(n, a)) = ModBase(n, a)
      BY <1>3, UnackedCount, Zenon
    <3>4. ModBase(n, a) <= am_window_size /\ ModBase(n, a) \in Nat
      BY <1>2, <1>3, Distance, Zenon DEF TxOK
    <3> QED
      BY <3>1, <3>2, <3>3, <3>4, WindowIsHalf
  <2>2. PICK m : m = (n + 1) % ModNr
    OBVIOUS
  <2>3. /\ m \in SNs /\ Unacked(m, a) = Unacked(n, a) \cup {n} /\ n \notin Unacked(n, a)
        /\ ModBase(m, n) = 1 /\ ModBase(m, a) = ModBase(n, a) + 1
        /\ \A s \in Unacked(n, a) : ModBase(m, s) = ModBase(n, s) + 1
    <3>1. Grown(n, a, m)
      BY <1>3, <2>1, <2>2, WindowGrows, Zenon
    <3> QED
      BY <3>1, Zenon DEF Grown
  <2>4. q # <<>> /\ Head(q) = sent + 1 /\ Tail(q) \in Seq(Nat) /\ Len(Tail(q)) = Len(q) - 1
        /\ \A i \in 1..Len(Tail(q)) : Tail(q)[i] = (sent + 1) + i
    <3>1. \A i \in 1..Len(q) : q[i] = sent + i
      BY <1>2, Zenon DEF TxOK
    <3>2. q # <<>>
      BY <1>2, Zenon
    <3> QED
      BY <1>3, <3>1, <3>2
  <2> DEFINE t0 == [t EXCEPT !.queue = Tail(@)]
             t1 == AddPdu(t0, n, Head(t.queue))
             V  == Window(m, a, sent + 1)
  <2>5. t0 \in TxRec(W) /\ t0.window = W /\ t0.queue = Tail(q)
        /\ t0.tx_next = n /\ t0.tx_next_ack = a
    BY <1>1, <1>2, <2>4, Zenon DEF TxRec
  <2> HIDE DEF t0
  <2>6. [s \in DOMAIN t0.window \cup {n} |->
           IF s = n THEN [sdu |-> sent + 1, segs |-> <<>>] ELSE t0.window[s]] = V
    <3>1. DOMAIN W = Unacked(n, a)
      BY <1>2, Zenon DEF Window
    <3>2. \A s \in Unacked(n, a) : W[s] = [sdu |-> sent - ModBase(n, s) + 1, segs |-> <<>>]
      BY <1>2, Zenon DEF Window
    <3>3. (sent + 1) - ModBase(m, n) + 1 = sent + 1
      BY <2>3
    <3>4. ASSUME NEW s \in Unacked(n, a)
          PROVE  sent - ModBase(n, s) + 1 = (sent + 1) - ModBase(m, s) + 1
      <4>1. ModBase(n, s) \in Nat /\ ModBase(m, s) = ModBase(n, s) + 1
        BY <1>3, <2>3, Distance, Zenon DEF Unacked
      <4> QED
        BY <4>1
    <3>5. V = [s \in Unacked(n, a) \cup {n} |-> [sdu |-> (sent + 1) - ModBase(m, s) + 1, segs |-> <<>>]]
      <4>1. Unacked(m, a) = Unacked(n, a) \cup {n}
        BY <2>3
      <4> QED
        BY <4>1 DEF Window
    <3> HIDE DEF V
    <3>6. ASSUME NEW s \in Unacked(n, a) \cup {n}
          PROVE  (IF s = n THEN [sdu |-> sent + 1, segs |-> <<>>] ELSE W[s])
                   = [sdu |-> (sent + 1) - ModBase(m, s) + 1, segs |-> <<>>]
      <4>1. CASE s = n
        BY <3>3, <4>1, Zenon
      <4>2. CASE s # n
        <5>1. s \in Unacked(n, a)
          BY <4>2
        <5> QED
          BY <3>2, <3>4, <4>2, <5>1, Zenon
      <4> QED
        BY <4>1, <4>2, Zenon
    <3>7. DOMAIN t0.window \cup {n} = Unacked(n, a) \cup {n} /\ t0.window = W
      BY <2>5, <3>1, Zenon
    <3> HIDE DEF W
    <3> QED
      BY <3>5, <3>6, <3>7, Zenon
  <2>7. t1 = [t0 EXCEPT !.window = V]
    BY <1>2, <2>4, <2>6, Zenon DEF AddPdu
  <2>8. t1 \in TxRec(V) /\ t1.queue = Tail(q) /\ t1.tx_next = n /\ t1.tx_next_ack = a /\ t1.window = V
    BY <2>5, <2>7, Zenon DEF TxRec
  <2> HIDE DEF t1
  <2>9. PICK poll : poll = get_pdu_poll(t1, n, FALSE, SduBytes)
    BY Zenon
  <2>10. Polled(V, t1, poll)
    <3>1. SduBytes \in Nat
      BY RlcAmAssumption
    <3>2. \E is_retx \in BOOLEAN : poll = get_pdu_poll(t1, n, is_retx, SduBytes)
      BY <2>9, Zenon
    <3> QED
      BY <1>3, <2>8, <3>1, <3>2, PollKeeps, Zenon
  <2>11. b = Built(AdvanceTxNext(poll.tx), Pdu(t1, n, "full", 0, SduBytes, poll.p))
    <3>1. ~(g <= min_hdr_size) /\ ~(SduBytes + min_hdr_size > g)
      BY RlcAmAssumption DEF min_hdr_size
    <3> QED
      BY <1>2, <1>5, <2>9, <3>1, Zenon DEF build_new_pdu, t0, t1
  <2>12. b.tx = AdvanceTxNext(poll.tx) /\ b.pdu = Pdu(t1, n, "full", 0, SduBytes, poll.p)
    BY <2>11 DEF Built
  <2>13. poll.p \in BOOLEAN /\ poll.tx \in TxRec(V) /\ poll.tx.tx_next = n
         /\ poll.tx.tx_next_ack = a /\ poll.tx.queue = Tail(q)
    BY <2>8, <2>10, Zenon DEF Polled, SameWindow
  <2>14. b.tx = [poll.tx EXCEPT !.tx_next = m]
    BY <2>2, <2>12, <2>13, Zenon DEF AdvanceTxNext
  <2>15. b.tx \in TxRec(V) /\ b.tx.tx_next = m /\ b.tx.tx_next_ack = a /\ b.tx.queue = Tail(q)
    BY <2>3, <2>13, <2>14, Zenon DEF TxRec
  <2>16. TxOK(b.tx, sent + 1)
    <3>1. ModBase(m, a) <= am_window_size /\ ModBase(m, a) <= sent + 1
      <4>1. ModBase(n, a) <= sent
        BY <1>2, Zenon DEF TxOK
      <4> QED
        BY <2>1, <2>3, <4>1, WindowIsHalf
    <3> QED
      BY <2>4, <2>15, <3>1, Zenon DEF TxOK
  <2>17. b.pdu = FullPdu(m, sent + 1, n, poll.p)
    <3>1. n \in Unacked(m, a)
      BY <2>3, Zenon
    <3>2. V[n] = [sdu |-> (sent + 1) - ModBase(m, n) + 1, segs |-> <<>>]
      BY <3>1 DEF Window
    <3>3. t1.window[n].sdu = (sent + 1) - ModBase(m, n) + 1
      BY <2>8, <3>2
    <3> QED
      BY <2>12, <3>3 DEF Pdu, FullPdu
  <2> QED
    BY <1>2, <2>1, <2>2, <2>4, <2>13, <2>15, <2>16, <2>17, Zenon DEF NewSent
<1> QED
  BY <1>4, <1>5, Zenon

\* What a grant for a whole SDU makes the sender do.
LEMMA ReadData ==
  ASSUME NEW sent \in Nat, NEW t, TxOK(t, sent), NEW g \in Nat, g >= SduBytes + min_hdr_size,
         NEW b, b = read_data_pdu(t, g)
  PROVE  Resent(t, sent, b) \/ NewSent(t, sent, b)
<1>1. t.sdu_under_segmentation_sn = NoSN
  BY TxFields, Zenon DEF TxOK
<1>2. CASE t.retx # <<>>
  BY <1>2, Retransmit, Zenon DEF read_data_pdu
<1>3. CASE t.retx = <<>> /\ t.queue # <<>>
  BY <1>1, <1>3, SendNew, Zenon DEF read_data_pdu
<1>4. CASE t.retx = <<>> /\ t.queue = <<>>
  <2>1. b = Built(t, NoPdu)
    BY <1>1, <1>4, Zenon DEF read_data_pdu
  <2>2. b.tx = t /\ b.pdu = NoPdu
    BY <2>1 DEF Built
  <2> QED
    BY <2>2, Zenon DEF Resent, SameWindow
<1> QED
  BY <1>2, <1>3, <1>4, Zenon

\* x is d SNs from TX_Next_Ack on, at most as far as stop.
AckStep(n, a, stop, d, x) ==
  /\ x \in SNs /\ ModBase(n, x) = ModBase(n, a) - d
  /\ ModBase(a + d, stop) = 0 <=> d = ModBase(n, a) - ModBase(n, stop)

\* The SNs from TX_Next_Ack on, one by one, seen from stop.
LEMMA AckSteps ==
  ASSUME NEW n \in SNs, NEW a \in SNs, NEW stop \in SNs, ModBase(n, stop) <= ModBase(n, a),
         NEW d \in Nat, d <= ModBase(n, a) - ModBase(n, stop), NEW x, x = (a + d) % ModNr
  PROVE  AckStep(n, a, stop, d, x)
<1>1. ModBase(n, a) \in Nat /\ ModBase(n, a) < ModNr /\ ModBase(n, stop) \in Nat
  BY Distance, Zenon
<1>2. d \in SNs /\ d <= ModBase(n, a)
  BY <1>1, WindowIsHalf DEF SNs
<1>3. x \in SNs /\ ModBase(n, x) = ModBase(n, a) - d
  BY <1>2, Further, ZenonT(30)
<1>4. ModBase(a + d, stop) = ModBase(x, stop)
  BY <1>2, Unreduced, Zenon
<1>5. /\ ModBase(n, stop) >= ModBase(n, x) => ModBase(x, stop) = ModBase(n, stop) - ModBase(n, x)
      /\ ModBase(n, stop) < ModBase(n, x) => ModBase(x, stop) = ModBase(n, stop) - ModBase(n, x) + ModNr
  BY <1>3, Between
<1>6. ModBase(x, stop) = 0 <=> d = ModBase(n, a) - ModBase(n, stop)
  BY <1>1, <1>2, <1>3, <1>5, WindowIsHalf
<1> QED
  BY <1>3, <1>4, <1>6, Zenon DEF AckStep

\* Acknowledging goes from TX_Next_Ack to stop: all SNs before it are in the window.
LEMMA NofAckedIs ==
  ASSUME NEW sent \in Nat, NEW t, TxOK(t, sent), NEW n, NEW a, n = t.tx_next, a = t.tx_next_ack,
         NEW stop \in SNs, ModBase(n, stop) <= ModBase(n, a),
         NEW m, m = ModBase(n, a) - ModBase(n, stop)
  PROVE  NofAcked(t, stop) = m
<1>1. n \in SNs /\ a \in SNs /\ t.window = Window(n, a, sent)
  BY TxFields, Zenon DEF TxOK
<1>2. DOMAIN t.window = Unacked(n, a)
  BY <1>1, Zenon DEF Window
<1>3. ModBase(n, a) \in Nat /\ ModBase(n, a) < ModNr /\ ModBase(n, stop) \in Nat
  BY <1>1, Distance, Zenon
<1>4. m \in Nat /\ m < ModNr /\ m \in 0..ModNr
  BY <1>3, WindowIsHalf
<1> DEFINE Ok(k) == /\ \A d \in 0..(k - 1) : /\ ModBase(a + d, stop) # 0
                                             /\ HasSN(t, (a + d) % ModNr)
                    /\ \/ ModBase(a + k, stop) = 0
                       \/ ~HasSN(t, (a + k) % ModNr)
<1>5. ModBase(a + m, stop) = 0
  <2>1. m <= ModBase(n, a) - ModBase(n, stop)
    BY <1>3
  <2>2. PICK x : x = (a + m) % ModNr
    OBVIOUS
  <2>3. AckStep(n, a, stop, m, x)
    BY <1>1, <1>4, <2>1, <2>2, AckSteps, Zenon
  <2> QED
    BY <2>3, Zenon DEF AckStep
<1>6. ASSUME NEW d \in Nat, d < m PROVE ModBase(a + d, stop) # 0 /\ HasSN(t, (a + d) % ModNr)
  <2>1. PICK x : x = (a + d) % ModNr
    OBVIOUS
  <2>2. d <= ModBase(n, a) - ModBase(n, stop) /\ d # ModBase(n, a) - ModBase(n, stop)
    BY <1>3, <1>6
  <2>3. x \in SNs /\ ModBase(n, x) = ModBase(n, a) - d /\ ModBase(a + d, stop) # 0
    <3>1. AckStep(n, a, stop, d, x)
      BY <1>1, <2>1, <2>2, AckSteps, Zenon
    <3> QED
      BY <2>2, <3>1, Zenon DEF AckStep
  <2>4. 1 <= ModBase(n, x) /\ ModBase(n, x) <= ModBase(n, a)
    BY <1>3, <1>6, <2>3
  <2> QED
    BY <1>2, <2>1, <2>3, <2>4, Zenon DEF HasSN, Unacked
<1>7. Ok(m)
  <2>1. \A d \in 0..(m - 1) : d \in Nat /\ d < m
    BY <1>4
  <2> QED
    BY <1>5, <1>6, <2>1, Zenon
<1>8. ASSUME NEW k \in 0..ModNr, Ok(k) PROVE k = m
  <2>1. CASE k < m
    <3>1. k \in Nat
      OBVIOUS
    <3> QED
      BY <1>6, <1>8, <2>1, <3>1, Zenon
  <2>2. CASE m < k
    <3>1. m \in 0..(k - 1)
      BY <1>4, <2>2, WindowIsHalf
    <3> QED
      BY <1>5, <1>8, <3>1, Zenon
  <2> HIDE DEF Ok
  <2> QED
    BY <1>4, <2>1, <2>2, WindowIsHalf
<1>9. NofAcked(t, stop) = CHOOSE k \in 0..ModNr : Ok(k)
  BY Zenon DEF NofAcked
<1> HIDE DEF Ok
<1> QED
  BY <1>4, <1>7, <1>8, <1>9, Zenon

\* The sender after the SDUs up to stop were acknowledged.
Released(t, sent, stop, u) ==
  /\ TxOK(u, sent) /\ u.tx_next = t.tx_next /\ u.tx_next_ack = stop /\ u.queue = t.queue

\* The acknowledged SDUs leave the window and retx_queue.
LEMMA AcknowledgeIs ==
  ASSUME NEW sent \in Nat, NEW t, TxOK(t, sent), NEW n, NEW a, n = t.tx_next, a = t.tx_next_ack,
         NEW stop \in SNs, ModBase(n, stop) <= ModBase(n, a),
         NEW m, m = ModBase(n, a) - ModBase(n, stop), NEW u, u = Acknowledge(t, m)
  PROVE  Released(t, sent, stop, u)
<1> DEFINE W == Window(n, a, sent)
           acked == [d \in 1..m |-> (a + d - 1) % ModNr]
<1>1. t \in TxRec(W) /\ ModBase(n, a) <= am_window_size /\ ModBase(n, a) <= sent
      /\ \A i \in 1..Len(t.queue) : t.queue[i] = sent + i
  BY Zenon DEF TxOK
<1>2. n \in SNs /\ a \in SNs /\ t.window = W /\ t.retx \in Seq(WholeRetx)
  BY <1>1, TxFields, Zenon
<1>3. ModBase(n, a) \in Nat /\ ModBase(n, a) < ModNr /\ ModBase(n, stop) \in Nat
  BY <1>2, Distance, Zenon
<1>4. m \in Nat /\ m <= ModBase(n, a) - ModBase(n, stop)
  BY <1>3
<1>5. (a + m) % ModNr = stop
  <2>1. PICK x : x = (a + m) % ModNr
    OBVIOUS
  <2>2. x \in SNs /\ ModBase(n, x) = ModBase(n, a) - m
    <3>1. AckStep(n, a, stop, m, x)
      BY <1>2, <1>4, <2>1, AckSteps, Zenon
    <3> QED
      BY <3>1, Zenon DEF AckStep
  <2>3. ModBase(n, x) = ModBase(n, stop)
    BY <1>3, <2>2
  <2>4. n \in SNs /\ x \in SNs /\ stop \in SNs
    BY <1>2, <2>2, Zenon
  <2>5. x = stop
    BY <2>3, <2>4, SameDistance, Zenon
  <2> QED
    BY <2>1, <2>5, Zenon
<1>6. ASSUME NEW s \in Unacked(n, a) PROVE s \in Range(acked) <=> ModBase(n, s) > ModBase(n, stop)
  <2>1. s \in SNs /\ ModBase(n, s) \in Nat /\ 1 <= ModBase(n, s) /\ ModBase(n, s) <= ModBase(n, a)
    BY <1>2, Distance, Zenon DEF Unacked
  <2>2. ASSUME NEW d \in 1..m
        PROVE  acked[d] \in SNs /\ ModBase(n, acked[d]) = ModBase(n, a) - (d - 1)
    <3>1. PICK e : e = d - 1
      OBVIOUS
    <3>2. e \in Nat /\ e <= ModBase(n, a) - ModBase(n, stop)
      BY <1>3, <1>4, <3>1
    <3>3. acked[d] = (a + e) % ModNr
      BY <3>1, Zenon
    <3>4. PICK x : x = (a + e) % ModNr
      OBVIOUS
    <3>5. AckStep(n, a, stop, e, x)
      BY <1>2, <3>2, <3>4, AckSteps, Zenon
    <3> QED
      BY <3>1, <3>3, <3>4, <3>5, Zenon DEF AckStep
  <2>5. DOMAIN acked = 1..m
    BY Zenon
  <2> HIDE DEF acked
  <2>3. ASSUME ModBase(n, s) > ModBase(n, stop) PROVE s \in Range(acked)
    <3>1. PICK d : d = ModBase(n, a) - ModBase(n, s) + 1
      OBVIOUS
    <3>2. d \in 1..m /\ ModBase(n, a) - (d - 1) = ModBase(n, s)
      BY <1>3, <2>1, <2>3, <3>1
    <3>3. acked[d] = s
      <4>1. PICK x : x = acked[d]
        OBVIOUS
      <4>2. x \in SNs /\ ModBase(n, x) = ModBase(n, s)
        BY <2>2, <3>2, <4>1, Zenon
      <4> QED
        BY <1>2, <2>1, <4>1, <4>2, SameDistance, Zenon
    <3> QED
      BY <2>5, <3>2, <3>3, Zenon DEF Range
  <2>4. ASSUME s \in Range(acked) PROVE ModBase(n, s) > ModBase(n, stop)
    <3>1. PICK d \in 1..m : s = acked[d]
      BY <2>4, <2>5, Zenon DEF Range
    <3>2. ModBase(n, s) = ModBase(n, a) - (d - 1)
      BY <2>2, <3>1, Zenon
    <3> QED
      BY <1>3, <2>1, <3>2
  <2> QED
    BY <2>3, <2>4, Zenon
<1>7. Unacked(n, a) \ Range(acked) = Unacked(n, stop)
  <2>1. \A s \in SNs : ModBase(n, s) \in Nat
    BY <1>2, Distance, Zenon
  <2>2. ASSUME NEW s \in SNs
        PROVE  s \in Unacked(n, a) \ Range(acked) <=> s \in Unacked(n, stop)
    <3>1. s \in Unacked(n, a) <=> 1 <= ModBase(n, s) /\ ModBase(n, s) <= ModBase(n, a)
      BY Zenon DEF Unacked
    <3>2. s \in Unacked(n, stop) <=> 1 <= ModBase(n, s) /\ ModBase(n, s) <= ModBase(n, stop)
      BY Zenon DEF Unacked
    <3> HIDE DEF acked
    <3>3. ModBase(n, s) \in Nat
      BY <2>1, Zenon
    <3> QED
      BY <1>3, <1>6, <3>1, <3>2, <3>3
  <2> HIDE DEF acked
  <2> QED
    BY <2>2, Zenon DEF Unacked
<1>8. [s \in DOMAIN t.window \ Range(acked) |-> t.window[s]] = Window(n, stop, sent)
  <2>1. DOMAIN W = Unacked(n, a)
    BY Zenon DEF Window
  <2>2. \A s \in Unacked(n, stop) : W[s] = [sdu |-> sent - ModBase(n, s) + 1, segs |-> <<>>]
    BY <1>7, Zenon DEF Window
  <2>3. DOMAIN t.window \ Range(acked) = Unacked(n, stop)
    BY <1>2, <1>7, <2>1, Zenon
  <2> HIDE DEF W
  <2> QED
    BY <1>2, <2>2, <2>3, Zenon DEF Window
<1>9. FoldLeft(RemoveSN, t.retx, acked) \in Seq(WholeRetx)
  <2>1. DOMAIN acked = 1..m
    BY Zenon
  <2> HIDE DEF acked
  <2> QED
    BY <1>2, <1>4, <2>1, RemoveAll, Zenon
<1>10. u = [t EXCEPT !.window = Window(n, stop, sent), !.retx = FoldLeft(RemoveSN, t.retx, acked),
                     !.tx_next_ack = stop]
  BY <1>5, <1>8, Zenon DEF Acknowledge
<1>11. u \in TxRec(Window(n, stop, sent)) /\ u.tx_next = n /\ u.tx_next_ack = stop /\ u.queue = t.queue
  <2> HIDE DEF acked
  <2>1. PICK q : q = FoldLeft(RemoveSN, t.retx, acked)
    OBVIOUS
  <2>2. q \in Seq(WholeRetx) /\ u = [t EXCEPT !.window = Window(n, stop, sent), !.retx = q, !.tx_next_ack = stop]
    BY <1>9, <1>10, <2>1, Zenon
  <2> QED
    BY <1>1, <2>2, Zenon DEF TxRec
<1>12. ModBase(n, stop) <= am_window_size /\ ModBase(n, stop) <= sent
  BY <1>1, <1>3, WindowIsHalf
<1> QED
  BY <1>1, <1>11, <1>12, Zenon DEF Released, TxOK

\* The NACKs of receivers that get whole SDUs, and the objects that differ from t in retx_queue only.
Nacks == [sn : Int, has_range : BOOLEAN, range : Nat, has_so : {FALSE}, so_start : Nat, so_end : Nat]
WithRetx(t) == {[t EXCEPT !.retx = q] : q \in Seq(WholeRetx)}

\* A NACK adds at most a whole SDU of the window to retx_queue.
LEMMA NackOne ==
  ASSUME NEW sent \in Nat, NEW t, TxOK(t, sent), NEW v \in WithRetx(t), NEW nack \in Nacks
  PROVE  handle_nack(v, nack) \in WithRetx(t)
<1>1. PICK n, a : n = t.tx_next /\ a = t.tx_next_ack
  OBVIOUS
<1>2. t \in TxRec(Window(n, a, sent))
  BY <1>1, Zenon DEF TxOK
<1>3. PICK q \in Seq(WholeRetx) : v = [t EXCEPT !.retx = q]
  BY Zenon DEF WithRetx
<1>4. v.window = Window(n, a, sent) /\ v.retx = q
  BY <1>2, <1>3 DEF TxRec
<1>5. DOMAIN Window(n, a, sent) = Unacked(n, a)
      /\ \A s \in Unacked(n, a) : Window(n, a, sent)[s].segs = <<>>
  BY DEF Window
<1>6. nack.has_so = FALSE
  BY Zenon DEF Nacks
<1>7. CASE ~HasSN(v, nack.sn)
  BY <1>7, Zenon DEF handle_nack
<1>8. CASE HasSN(v, nack.sn)
  <2>1. nack.sn \in Unacked(n, a)
    BY <1>4, <1>5, <1>8, Zenon DEF HasSN
  <2>2. nack.sn \in SNs /\ v.window[nack.sn].segs = <<>>
    BY <1>4, <1>5, <2>1, Zenon DEF Unacked
  <2>3. handle_nack(v, nack) = v \/ handle_nack(v, nack) = PushRetx(v, Retx(nack.sn, FALSE, 0, SduBytes))
    BY <1>6, <2>2, Zenon DEF handle_nack
  <2>4. Retx(nack.sn, FALSE, 0, SduBytes) \in WholeRetx
    BY <2>2, Zenon DEF WholeRetx
  <2>5. Append(q, Retx(nack.sn, FALSE, 0, SduBytes)) \in Seq(WholeRetx)
    BY <2>4, Appended, Zenon
  <2>6. PICK z : z = Append(q, Retx(nack.sn, FALSE, 0, SduBytes)) /\ z \in Seq(WholeRetx)
    BY <2>5, Zenon
  <2>7. PushRetx(v, Retx(nack.sn, FALSE, 0, SduBytes)) = [v EXCEPT !.retx = z]
    BY <1>4, <2>6, Zenon DEF PushRetx
  <2>8. [v EXCEPT !.retx = z] = [t EXCEPT !.retx = z]
    BY <1>2, <1>3, Zenon DEF TxRec
  <2> QED
    BY <2>3, <2>6, <2>7, <2>8, Zenon DEF WithRetx
<1> QED
  BY <1>7, <1>8, Zenon

\* The NACKs of a report change retx_queue only.
LEMMA NackAll ==
  ASSUME NEW sent \in Nat, NEW t, TxOK(t, sent), NEW all \in Seq(Nacks)
  PROVE  FoldLeft(handle_nack, t, all) \in WithRetx(t)
<1>1. PICK n : n = Len(all)
  OBVIOUS
<1>2. n \in Nat /\ DOMAIN all = 1..n /\ \A i \in 1..n : all[i] \in Nacks
  BY <1>1
<1>3. PICK T : T = WithRetx(t)
  OBVIOUS
<1>4. t \in T
  <2>1. PICK W : t \in TxRec(W)
    BY Zenon DEF TxOK
  <2>2. t.retx \in Seq(WholeRetx) /\ t = [t EXCEPT !.retx = t.retx]
    BY <2>1 DEF TxRec
  <2> QED
    BY <1>3, <2>2, Zenon DEF WithRetx
<1>5. \A v \in T : \A i \in 1..n : handle_nack(v, all[i]) \in T
  BY <1>2, <1>3, NackOne, Zenon
<1> DEFINE F == [i \in 1..n |-> [v \in T |-> handle_nack(v, all[i])]]
<1>6. F \in [1..n -> [T -> T]] /\ \A i \in 1..n : \A v \in T : F[i][v] = handle_nack(v, all[i])
  BY <1>5, Zenon
<1> HIDE DEF F
<1>7. PICK g : g \in [SUBSET (1..n) -> T] /\ IsFold(n, t, F, g)
  BY <1>2, <1>4, <1>6, FoldExists, Zenon
<1>8. ASSUME NEW s \in SUBSET (1..n)
      PROVE  g[s] = IF s = {} THEN t ELSE handle_nack(g[s \ {Max(s)}], all[Max(s)])
  <2>1. CASE s = {}
    BY <1>7, <2>1, Zenon DEF IsFold
  <2>2. CASE s # {}
    <3>1. PICK m : m = Max(s)
      OBVIOUS
    <3>2. s \subseteq 0..n
      OBVIOUS
    <3>3. m \in s
      BY <1>2, <2>2, <3>1, <3>2, GreatestOf, Zenon
    <3>4. m \in 1..n /\ s \ {m} \in SUBSET (1..n)
      BY <3>3
    <3>5. F[m][g[s \ {m}]] = handle_nack(g[s \ {m}], all[m])
      BY <1>6, <1>7, <3>4, Zenon
    <3> QED
      BY <1>7, <2>2, <3>1, <3>5, Zenon DEF IsFold
  <2> QED
    BY <2>1, <2>2, Zenon
<1>9. g = [s \in SUBSET DOMAIN all |-> IF s = {} THEN t ELSE handle_nack(g[s \ {Max(s)}], all[Max(s)])]
  BY <1>2, <1>7, <1>8, Zenon
<1>10. PICK it : /\ it = [s \in SUBSET DOMAIN all |-> IF s = {} THEN t ELSE handle_nack(it[s \ {Max(s)}], all[Max(s)])]
                 /\ FoldLeft(handle_nack, t, all) = it[DOMAIN all]
  BY <1>9, Zenon DEF FoldLeft, MapThenFoldSet
<1> DEFINE G == {k \in 0..n : it[1..k] \in T}
<1>11. 0 \in G
  <2>1. it[{}] = t /\ 1..0 = {} /\ 0 \in 0..n
    BY <1>2, <1>10
  <2> QED
    BY <1>4, <2>1, Zenon
<1>12. ASSUME NEW k \in 1..n, k - 1 \in G PROVE k \in G
  <2>1. Max(1..k) = k /\ (1..k) \ {k} = 1..(k - 1) /\ 1..k # {} /\ 1..k \in SUBSET (1..n)
    BY <1>2, FirstIndices, Zenon
  <2>2. it[1..k] = handle_nack(it[1..(k - 1)], all[k])
    BY <1>2, <1>10, <2>1, Zenon
  <2>3. k \in 0..n
    BY <1>2
  <2>4. PICK p : p = it[1..(k - 1)] /\ p \in T
    BY <1>12
  <2>5. it[1..k] \in T
    BY <1>5, <2>2, <2>4, Zenon
  <2> QED
    BY <2>3, <2>5
<1> HIDE DEF G
<1>13. n \in G
  <2>1. n \in 0..n
    BY <1>2
  <2> QED
    BY <1>2, <1>11, <1>12, <2>1, UpTo, Zenon
<1> QED
  BY <1>2, <1>3, <1>10, <1>13, Zenon DEF G

\* The NACKs a NACK stands for have no offsets either.
LEMMA ExpandOne ==
  ASSUME NEW nack \in Nacks
  PROVE  ExpandNack(nack) \in Seq(Nacks)
<1>1. nack.has_so = FALSE /\ nack.range \in Nat /\ nack.sn \in Int
  BY Zenon DEF Nacks
<1>2. CASE ~nack.has_range
  <2>1. ExpandNack(nack) = <<nack>>
    BY <1>2, Zenon DEF ExpandNack
  <2> QED
    BY <2>1
<1>3. CASE nack.has_range
  <2>1. PICK e : e = ExpandNack(nack)
    OBVIOUS
  <2>2. e = [i \in 1..nack.range |-> [sn |-> nack.sn + i - 1, has_range |-> FALSE, range |-> 0,
                                      so_start |-> 0, so_end |-> so_end_of_sdu, has_so |-> FALSE]]
    BY <1>1, <1>3, <2>1, Zenon DEF ExpandNack
  <2>3. \A i \in 1..nack.range : e[i] \in Nacks
    BY <1>1, <2>2 DEF Nacks, so_end_of_sdu
  <2>4. DOMAIN e = 1..nack.range /\ e = [i \in 1..nack.range |-> e[i]]
    BY <2>2
  <2>5. e \in [1..nack.range -> Nacks]
    BY <2>3, <2>4, Zenon
  <2>6. e \in Seq(Nacks)
    BY <1>1, <2>5, SeqIs, Zenon
  <2> QED
    BY <2>1, <2>6, Zenon
<1> QED
  BY <1>2, <1>3

\* All NACKs of a report, the ranges expanded.
LEMMA ExpandAll ==
  ASSUME NEW nacks \in Seq(Nacks)
  PROVE  FlattenSeq([i \in DOMAIN nacks |-> ExpandNack(nacks[i])]) \in Seq(Nacks)
<1>1. PICK q : q = [i \in DOMAIN nacks |-> ExpandNack(nacks[i])]
  BY Zenon
<1>2. DOMAIN nacks = 1..Len(nacks) /\ Len(nacks) \in Nat /\ \A i \in 1..Len(nacks) : nacks[i] \in Nacks
  OBVIOUS
<1>3. PICK S, n : S = Seq(Nacks) /\ n = Len(nacks)
  OBVIOUS
<1>7. q \in [1..n -> S] /\ n \in Nat
  BY <1>1, <1>2, <1>3, ExpandOne, Zenon
<1>8. q \in Seq(S)
  BY <1>7, FcnIsSeq, Zenon
<1>4. q \in Seq(Seq(Nacks))
  BY <1>3, <1>8, Zenon
<1>5. CASE Len(q) = 0
  <2>1. FlattenSeq(q) = q
    BY <1>5, Zenon DEF FlattenSeq
  <2>2. q = <<>>
    BY <1>4, <1>5
  <2> QED
    BY <1>1, <2>1, <2>2, NoItems, Zenon
<1>6. CASE Len(q) # 0
  <2>1. PICK it : IsFlatten(q, it) /\ FlattenSeq(q) = it[Len(q)]
    BY <1>4, <1>6, FlattenExists, Zenon
  <2>2. \A k \in 1..Len(q) : it[k] \in Seq(Nacks)
    BY <1>4, <1>6, <2>1, FlattenSteps, Zenon
  <2>3. Len(q) \in 1..Len(q)
    BY <1>4, <1>6
  <2> QED
    BY <1>1, <2>1, <2>2, <2>3, Zenon
<1> QED
  BY <1>5, <1>6, Zenon

\* The m SDUs notify_delivery() is called for are those sent from a up to stop.
NotifiedFrom(t, sent, n, a, stop, m) ==
  Notified(t, m) = (sent - ModBase(n, a) + 1)..(sent - ModBase(n, stop))

\* A report that acknowledges up to stop notifies the SDUs sent from TX_Next_Ack up to stop.
LEMMA NotifiedIs ==
  ASSUME NEW sent \in Nat, NEW t, TxOK(t, sent), NEW n, NEW a, n = t.tx_next, a = t.tx_next_ack,
         NEW stop \in SNs, ModBase(n, stop) <= ModBase(n, a),
         NEW m, m = ModBase(n, a) - ModBase(n, stop)
  PROVE  NotifiedFrom(t, sent, n, a, stop, m)
<1>1. n \in SNs /\ a \in SNs /\ t.window = Window(n, a, sent)
  BY TxFields, Zenon DEF TxOK
<1>2. ModBase(n, a) \in Nat /\ ModBase(n, a) < ModNr /\ ModBase(n, stop) \in Nat
  BY <1>1, Distance, Zenon
<1>3. ASSUME NEW d \in 0..(m - 1)
      PROVE  t.window[(a + d) % ModNr].sdu = sent - ModBase(n, a) + d + 1
  <2>1. PICK x : x = (a + d) % ModNr
    OBVIOUS
  <2>2. d \in Nat /\ d <= ModBase(n, a) - ModBase(n, stop) /\ d < m
    BY <1>2
  <2>3. AckStep(n, a, stop, d, x)
    BY <1>1, <2>1, <2>2, AckSteps, Zenon
  <2>4. x \in SNs /\ ModBase(n, x) = ModBase(n, a) - d
    BY <2>3, Zenon DEF AckStep
  <2>5. 1 <= ModBase(n, x) /\ ModBase(n, x) <= ModBase(n, a)
    BY <1>2, <2>2, <2>4
  <2>6. x \in Unacked(n, a)
    BY <2>4, <2>5, Zenon DEF Unacked
  <2>7. t.window[x].sdu = sent - ModBase(n, x) + 1
    BY <1>1, <2>6 DEF Window
  <2>8. t.window[x].sdu = sent - ModBase(n, a) + d + 1
    BY <1>2, <2>4, <2>7
  <2> QED
    BY <2>1, <2>8, Zenon
<1>4. Notified(t, m) = {t.window[(a + d) % ModNr].sdu : d \in 0..(m - 1)}
  BY Zenon DEF Notified
<1>5. ASSUME NEW k \in (sent - ModBase(n, a) + 1)..(sent - ModBase(n, stop))
      PROVE  k \in Notified(t, m)
  <2>1. PICK d : d = k - (sent - ModBase(n, a) + 1)
    OBVIOUS
  <2>2. d \in 0..(m - 1) /\ k = sent - ModBase(n, a) + d + 1
    BY <1>2, <2>1
  <2>3. k = t.window[(a + d) % ModNr].sdu
    BY <1>3, <2>2, Zenon
  <2> QED
    BY <1>4, <2>2, <2>3, Zenon
<1>6. ASSUME NEW k \in Notified(t, m)
      PROVE  k \in (sent - ModBase(n, a) + 1)..(sent - ModBase(n, stop))
  <2>1. PICK d \in 0..(m - 1) : k = t.window[(a + d) % ModNr].sdu
    BY <1>4, Zenon
  <2>2. k = sent - ModBase(n, a) + d + 1
    BY <1>3, <2>1, Zenon
  <2> QED
    BY <1>2, <2>2
<1>7. Notified(t, m) = (sent - ModBase(n, a) + 1)..(sent - ModBase(n, stop))
  BY <1>5, <1>6, Zenon
<1> QED
  BY <1>7, Zenon DEF NotifiedFrom

\* The sender after a report that acknowledges up to stop, or is not accepted.
Confirms(t, sent, stop, h) ==
  \/ h.tx = t /\ h.delivered = {}
  \/ /\ Released(t, sent, stop, h.tx)
     /\ h.delivered = (sent - ModBase(t.tx_next, t.tx_next_ack) + 1)..(sent - ModBase(t.tx_next, stop))

\* A status PDU moves TX_Next_Ack to its first NACK, or to its ACK_SN.
LEMMA StatusConfirms ==
  ASSUME NEW sent \in Nat, NEW t, TxOK(t, sent), NEW status, status.nacks \in Seq(Nacks),
         NEW stop \in SNs, stop = StopSN(status),
         ModBase(t.tx_next, stop) <= ModBase(t.tx_next, t.tx_next_ack),
         NEW h, h = handle_control_pdu(t, status)
  PROVE  Confirms(t, sent, stop, h)
<1>1. PICK n, a : n = t.tx_next /\ a = t.tx_next_ack
  OBVIOUS
<1>2. PICK m : m = ModBase(n, a) - ModBase(n, stop)
  OBVIOUS
<1> DEFINE poll == /\ t.poll_retransmit
                   /\ ~(ModBase(t.poll_sn, a) < ModBase(status.ack_sn, a))
           t0   == [t EXCEPT !.poll_retransmit = poll]
           t1   == Acknowledge(t0, m)
           all  == FlattenSeq([i \in DOMAIN status.nacks |-> ExpandNack(status.nacks[i])])
<1>3. NofAcked(t, StopSN(status)) = m
  BY <1>1, <1>2, NofAckedIs, Zenon
<1>4. CASE ~Accepted(t, status)
  <2>1. h = [tx |-> t, delivered |-> {}]
    BY <1>4, Zenon DEF handle_control_pdu
  <2>2. h.tx = t /\ h.delivered = {}
    BY <2>1
  <2> QED
    BY <2>2, Zenon DEF Confirms
<1>5. CASE Accepted(t, status)
  <2>1. h = [tx |-> FoldLeft(handle_nack, t1, all), delivered |-> Notified(t, m)]
    BY <1>1, <1>3, <1>5, Zenon DEF handle_control_pdu
  <2>2. all \in Seq(Nacks)
    BY ExpandAll, Zenon
  <2> HIDE DEF all
  <2>3. poll \in BOOLEAN
    BY Zenon
  <2> HIDE DEF poll
  <2>4. t0 \in TxRec(Window(n, a, sent)) /\ SameWindow(t, t0)
    <3>1. t \in TxRec(Window(n, a, sent))
      BY <1>1, Zenon DEF TxOK
    <3> QED
      BY <2>3, <3>1 DEF TxRec, SameWindow
  <2> HIDE DEF t0
  <2>5. TxOK(t0, sent) /\ n = t0.tx_next /\ a = t0.tx_next_ack
    BY <1>1, <2>4, TxKept, Zenon DEF SameWindow
  <2>6. Released(t0, sent, stop, t1)
    BY <1>1, <1>2, <2>5, AcknowledgeIs, Zenon
  <2> HIDE DEF t1
  <2>7. TxOK(t1, sent) /\ t1.tx_next = n /\ t1.tx_next_ack = stop /\ t1.queue = t.queue
    BY <2>4, <2>5, <2>6, Zenon DEF Released, SameWindow
  <2>8. FoldLeft(handle_nack, t1, all) \in WithRetx(t1)
    BY <2>2, <2>7, NackAll, Zenon
  <2>9. PICK u : u = FoldLeft(handle_nack, t1, all) /\ u \in WithRetx(t1)
    BY <2>8, Zenon
  <2>10. PICK q \in Seq(WholeRetx) : u = [t1 EXCEPT !.retx = q]
    BY <2>9, Zenon DEF WithRetx
  <2>11. PICK W : W = Window(n, stop, sent)
    OBVIOUS
  <2>12. t1 \in TxRec(W)
    BY <2>7, <2>11, Zenon DEF TxOK
  <2>13. u \in TxRec(W) /\ SameWindow(t1, u)
    BY <2>10, <2>12, Zenon DEF TxRec, SameWindow
  <2>14. TxOK(u, sent)
    BY <2>7, <2>11, <2>13, TxKept, Zenon
  <2>15. h.tx = u /\ h.delivered = Notified(t, m)
    BY <2>1, <2>9
  <2>16. Released(t, sent, stop, u)
    BY <1>1, <2>7, <2>13, <2>14, Zenon DEF Released, SameWindow
  <2>17. NotifiedFrom(t, sent, n, a, stop, m)
    BY <1>1, <1>2, NotifiedIs, Zenon
  <2> QED
    BY <1>1, <2>15, <2>16, <2>17, Zenon DEF Confirms, NotifiedFrom
<1> QED
  BY <1>4, <1>5, Zenon

\* When t-PollRetransmit expires, at most a whole SDU of the window is queued again.
LEMMA PollExpires ==
  ASSUME NEW sent \in Nat, NEW t, TxOK(t, sent), NEW u, u = poll_retransmit_expired(t)
  PROVE  TxOK(u, sent) /\ SameWindow(t, u)
<1>1. PICK n, a, W : n = t.tx_next /\ a = t.tx_next_ack /\ W = Window(n, a, sent)
  OBVIOUS
<1>2. t \in TxRec(W)
  BY <1>1, Zenon DEF TxOK
<1>3. a \in SNs /\ t.window = W /\ t.retx \in Seq(WholeRetx)
  BY <1>1, <1>2, TxFields, Zenon
<1> DEFINE t1 == [t EXCEPT !.poll_retransmit = FALSE]
           r  == Retx(a, FALSE, 0, SduBytes)
<1>4. u = t1 \/ u = PushRetx(t1, r)
  <2>1. CASE ~((t.queue = <<>> /\ t.retx = <<>>) \/ Full(t)) \/ ~HasSN(t, t.tx_next_ack)
    BY <2>1, Zenon DEF poll_retransmit_expired
  <2>2. CASE ((t.queue = <<>> /\ t.retx = <<>>) \/ Full(t)) /\ HasSN(t, t.tx_next_ack)
    <3>1. a \in Unacked(n, a)
      BY <1>1, <1>3, <2>2, Zenon DEF HasSN, Window
    <3>2. t.window[a].segs = <<>>
      BY <1>1, <1>3, <3>1 DEF Window
    <3> QED
      BY <1>1, <2>2, <3>2, Zenon DEF poll_retransmit_expired
  <2> QED
    BY <2>1, <2>2, Zenon
<1>5. t1 \in TxRec(W) /\ SameWindow(t, t1) /\ t1.retx = t.retx
  BY <1>2, Zenon DEF TxRec, SameWindow
<1> HIDE DEF t1
<1>6. r \in WholeRetx
  BY <1>3, Zenon DEF WholeRetx
<1> HIDE DEF r
<1>7. PICK z : z = Append(t1.retx, r) /\ z \in Seq(WholeRetx)
  BY <1>3, <1>5, <1>6, Appended, Zenon
<1>8. PushRetx(t1, r) = [t1 EXCEPT !.retx = z]
  BY <1>7, Zenon DEF PushRetx
<1>9. [t1 EXCEPT !.retx = z] \in TxRec(W) /\ SameWindow(t, [t1 EXCEPT !.retx = z])
  BY <1>5, <1>7, Zenon DEF TxRec, SameWindow
<1>10. u \in TxRec(W) /\ SameWindow(t, u)
  BY <1>4, <1>5, <1>8, <1>9, Zenon
<1> QED
  BY <1>1, <1>10, TxKept, Zenon

-----------------------------------------------------------------------------
(* The receiver.  B(s) in the comments is how far s is behind TX_Next.     *)

\* The entry of an SDU that went up, and the window with the SDUs of the SNs D.
Done == [segs |-> {}, has_gap |-> FALSE, fully_received |-> TRUE]
Stored(D) == [s \in D |-> Done]

\* The receiver's object with this window and every check passed.
RxRec(D) ==
  [rx_next : SNs, rx_next_highest : SNs, rx_highest_status : SNs, rx_next_status_trigger : SNs,
   window : {Stored(D)}, do_status : BOOLEAN, reassembly : BOOLEAN, prohibit : BOOLEAN,
   asserts : {TRUE}]

\* Where RX_Next (R), RX_Highest_Status (H) and RX_Next_Highest (N) are when TX_Next is n: in this
\* order, at most half the SN space behind TX_Next; the SDUs received lie between RX_Next and
\* RX_Next_Highest, the last of them is the one before RX_Next_Highest, and the one
\* RX_Highest_Status names is missing.
RxPos(n, D, R, H, N) ==
  /\ D \subseteq SNs /\ R \in SNs /\ H \in SNs /\ N \in SNs
  /\ ModBase(n, N) <= ModBase(n, H) /\ ModBase(n, H) <= ModBase(n, R) /\ ModBase(n, R) <= am_window_size
  /\ \A s \in D : ModBase(n, N) < ModBase(n, s) /\ ModBase(n, s) < ModBase(n, R) /\ s # H
  /\ N # R => \E s \in D : ModBase(n, s) = ModBase(n, N) + 1

\* While t-Reassembly runs, RX_Next_Status_Trigger (T) is ahead of RX_Next and the SDU before it was
\* received.
Trigger(n, D, R, N, T) ==
  /\ ModBase(n, N) <= ModBase(n, T) /\ ModBase(n, T) < ModBase(n, R)
  /\ \E s \in D : ModBase(n, s) = ModBase(n, T) + 1

RxOK(n, D, r) ==
  /\ r \in RxRec(D) /\ RxPos(n, D, r.rx_next, r.rx_highest_status, r.rx_next_highest)
  /\ r.reassembly => Trigger(n, D, r.rx_next, r.rx_next_highest, r.rx_next_status_trigger)

\* The fields of the receiver's object.
LEMMA RxFields ==
  ASSUME NEW D, NEW r \in RxRec(D)
  PROVE  /\ r.rx_next \in SNs /\ r.rx_next_highest \in SNs /\ r.rx_highest_status \in SNs
         /\ r.rx_next_status_trigger \in SNs /\ r.window = Stored(D) /\ r.asserts = TRUE
         /\ r.reassembly \in BOOLEAN /\ r.prohibit \in BOOLEAN /\ r.do_status \in BOOLEAN
BY Zenon DEF RxRec

\* What the window has of an SN.
LEMMA StoredIs ==
  ASSUME NEW D, NEW r, r.window = Stored(D), NEW s
  PROVE  /\ Has(r, s) <=> s \in D
         /\ Complete(r, s) <=> s \in D
         /\ ~HasGap(r, s)
<1>1. DOMAIN Stored(D) = D /\ \A x \in D : Stored(D)[x] = Done
  BY Zenon DEF Stored
<1>2. Done.fully_received = TRUE /\ Done.has_gap = FALSE
  BY DEF Done
<1> QED
  BY <1>1, <1>2, Zenon DEF Has, Complete, HasGap

\* The distances from RX_Next the receiver computes, from those behind TX_Next.
LEMMA RxDistance ==
  ASSUME NEW n \in SNs, NEW r, r.rx_next \in SNs, NEW s \in SNs
  PROVE  /\ RxMod(r, s) \in Nat
         /\ ModBase(n, r.rx_next) >= ModBase(n, s) =>
              RxMod(r, s) = ModBase(n, r.rx_next) - ModBase(n, s)
         /\ ModBase(n, r.rx_next) < ModBase(n, s) =>
              RxMod(r, s) = ModBase(n, r.rx_next) - ModBase(n, s) + ModNr
<1> PICK R \in SNs : R = r.rx_next
  OBVIOUS
<1>1. RxMod(r, s) = ModBase(s, R)
  BY Zenon DEF RxMod
<1>2. ModBase(s, R) \in Nat
  BY Distance, Zenon
<1>3. /\ ModBase(n, R) >= ModBase(n, s) => ModBase(s, R) = ModBase(n, R) - ModBase(n, s)
      /\ ModBase(n, R) < ModBase(n, s) => ModBase(s, R) = ModBase(n, R) - ModBase(n, s) + ModNr
  BY Between
<1> QED
  BY <1>1, <1>2, <1>3

\* x is d SNs further than from, and the loop of FirstIncomplete stops there.
GapStep(n, D, R, N, from, d, x, stops) ==
  /\ x \in SNs /\ ModBase(n, x) = ModBase(n, from) - d
  /\ stops <=> (x = N \/ x \notin D)

\* One round of the loop that looks for the first incomplete SDU.
LEMMA GapSteps ==
  ASSUME NEW n \in SNs, NEW D, NEW r, r.window = Stored(D), NEW R \in SNs, R = r.rx_next,
         NEW N \in SNs, N = r.rx_next_highest, NEW from \in SNs,
         ModBase(n, N) <= ModBase(n, from), ModBase(n, from) <= ModBase(n, R),
         NEW d \in Nat, d <= ModBase(n, from) - ModBase(n, N),
         NEW x, x = (from + d) % ModNr, NEW stops,
         stops = (\/ RxMod(r, from + d) >= RxMod(r, r.rx_next_highest)
                  \/ ~Complete(r, (from + d) % ModNr))
  PROVE  GapStep(n, D, R, N, from, d, x, stops)
<1>1. /\ ModBase(n, from) \in Nat /\ ModBase(n, from) < ModNr /\ ModBase(n, N) \in Nat
      /\ ModBase(n, R) \in Nat
  BY Distance, Zenon
<1>2. d \in SNs /\ d <= ModBase(n, from)
  BY <1>1, WindowIsHalf DEF SNs
<1>3. x \in SNs /\ ModBase(n, x) = ModBase(n, from) - d
  <2>1. /\ (from + d) % ModNr \in SNs
        /\ d <= ModBase(n, from) => ModBase(n, (from + d) % ModNr) = ModBase(n, from) - d
    BY <1>2, Further
  <2> QED
    BY <1>2, <2>1, Zenon
<1>4. RxMod(r, from + d) = RxMod(r, x)
  BY <1>2, Unreduced, Zenon DEF RxMod
<1>5. ModBase(n, x) <= ModBase(n, R) /\ ModBase(n, N) <= ModBase(n, R)
  BY <1>1, <1>3
<1>6. RxMod(r, x) = ModBase(n, R) - ModBase(n, x) /\ RxMod(r, N) = ModBase(n, R) - ModBase(n, N)
  <2>1. ModBase(n, R) >= ModBase(n, x) /\ ModBase(n, R) >= ModBase(n, N)
    BY <1>1, <1>3
  <2> QED
    BY <1>3, <2>1, RxDistance
<1>7. RxMod(r, x) >= RxMod(r, N) <=> ModBase(n, x) = ModBase(n, N)
  BY <1>1, <1>3, <1>6
<1>8. ModBase(n, x) = ModBase(n, N) <=> x = N
  BY <1>3, SameDistance, Zenon
<1>9. Complete(r, x) <=> x \in D
  BY StoredIs, Zenon
<1> QED
  BY <1>3, <1>4, <1>7, <1>8, <1>9, Zenon DEF GapStep

\* h is the first SN from `from' on that was not received, or N.
FirstGap(n, D, N, from, h) ==
  /\ h \in SNs /\ ModBase(n, N) <= ModBase(n, h) /\ ModBase(n, h) <= ModBase(n, from)
  /\ h = N \/ h \notin D
  /\ \A s \in SNs : ModBase(n, h) < ModBase(n, s) /\ ModBase(n, s) <= ModBase(n, from) => s \in D

\* The loop finds it.
LEMMA FirstIncompleteIs ==
  ASSUME NEW n \in SNs, NEW D, NEW r, r.window = Stored(D), NEW R \in SNs, R = r.rx_next,
         NEW N \in SNs, N = r.rx_next_highest, NEW from \in SNs,
         ModBase(n, N) <= ModBase(n, from), ModBase(n, from) <= ModBase(n, R),
         NEW h, h = FirstIncomplete(r, from)
  PROVE  FirstGap(n, D, N, from, h)
<1> DEFINE Stops(d) == \/ RxMod(r, from + d) >= RxMod(r, r.rx_next_highest)
                       \/ ~Complete(r, (from + d) % ModNr)
           S == {d \in SNs : Stops(d)}
           X(d) == (from + d) % ModNr
<1>1. h = X(Min(S))
  BY Zenon DEF FirstIncomplete
<1>2. /\ ModBase(n, from) \in Nat /\ ModBase(n, from) < ModNr /\ ModBase(n, N) \in Nat
  BY Distance, Zenon
<1>3. PICK f : f = ModBase(n, from) - ModBase(n, N)
  OBVIOUS
<1>4. f \in SNs /\ f \in Nat
  BY <1>2, <1>3, WindowIsHalf DEF SNs
<1>5. ASSUME NEW d \in Nat, d <= f
      PROVE  /\ X(d) \in SNs /\ ModBase(n, X(d)) = ModBase(n, from) - d
             /\ Stops(d) <=> (X(d) = N \/ X(d) \notin D)
  <2>1. PICK stops : stops = Stops(d)
    BY Zenon
  <2>2. PICK x : x = X(d)
    OBVIOUS
  <2>3. d <= ModBase(n, from) - ModBase(n, N)
    BY <1>3, <1>5, Zenon
  <2>4. GapStep(n, D, R, N, from, d, x, stops)
    BY <2>1, <2>2, <2>3, GapSteps, Zenon
  <2> HIDE DEF X, Stops
  <2> QED
    BY <2>1, <2>2, <2>4, Zenon DEF GapStep
<1> HIDE DEF X, Stops
<1>6. X(f) = N
  <2>1. f <= f
    BY <1>4
  <2>2. X(f) \in SNs /\ ModBase(n, X(f)) = ModBase(n, from) - f
    BY <1>4, <1>5, <2>1, Zenon
  <2>3. ModBase(n, X(f)) = ModBase(n, N)
    BY <1>2, <1>3, <2>2
  <2> QED
    BY <2>2, <2>3, SameDistance, Zenon
<1>7. f \in S
  <2>1. f <= f
    BY <1>4
  <2> QED
    BY <1>4, <1>5, <1>6, <2>1, Zenon
<1>8. S \subseteq Nat /\ S # {}
  <2>1. SNs \subseteq Nat
    BY WindowIsHalf DEF SNs
  <2> QED
    BY <1>7, <2>1, Zenon
<1> HIDE DEF S
<1>9. PICK k : k \in S /\ \A d \in S : k <= d
  BY <1>8, LeastOf, Zenon
<1>10. PICK m : m = Min(S)
  OBVIOUS
<1>11. m \in S /\ \A d \in S : m <= d
  BY <1>9, <1>10, Zenon DEF Min
<1>12. m \in Nat /\ m <= f /\ m \in SNs /\ Stops(m)
  BY <1>7, <1>8, <1>11, Zenon DEF S
<1>13. /\ h \in SNs /\ ModBase(n, h) = ModBase(n, from) - m /\ (h = N \/ h \notin D)
  BY <1>1, <1>5, <1>10, <1>12, Zenon
<1>14. ASSUME NEW s \in SNs, ModBase(n, h) < ModBase(n, s), ModBase(n, s) <= ModBase(n, from)
       PROVE  s \in D
  <2>1. PICK d : d = ModBase(n, from) - ModBase(n, s)
    OBVIOUS
  <2>2. ModBase(n, s) \in Nat
    BY Distance, Zenon
  <2>7. d \in Nat /\ d < m /\ ModBase(n, from) - d = ModBase(n, s)
    BY <1>2, <1>12, <1>13, <1>14, <2>1, <2>2
  <2>3. d \in Nat /\ d <= f /\ d < m /\ ModBase(n, from) - d = ModBase(n, s)
    BY <1>4, <1>12, <2>7
  <2>4. X(d) = s
    BY <1>5, <2>3, SameDistance, Zenon
  <2>5. d \in SNs /\ ~(m <= d)
    BY <1>2, <1>4, <1>12, <2>3, WindowIsHalf DEF SNs
  <2>6. ~Stops(d)
    BY <1>11, <2>5, Zenon DEF S
  <2> QED
    BY <1>5, <2>3, <2>4, <2>6, Zenon
<1>15. ModBase(n, N) <= ModBase(n, h) /\ ModBase(n, h) <= ModBase(n, from)
  BY <1>2, <1>3, <1>12, <1>13
<1> QED
  BY <1>13, <1>14, <1>15, Zenon DEF FirstGap

\* The SDU of s was added to those received: D1 are the SNs in the window, N1 is RX_Next_Highest.
Arrived(n, D, R, N, s, D1, N1) ==
  /\ D1 = D \cup {s} /\ s \in SNs /\ N1 \in SNs /\ s \notin D /\ ModBase(n, s) <= ModBase(n, R)
  /\ ModBase(n, s) <= ModBase(n, N) => ModBase(n, N1) = ModBase(n, s) - 1
  /\ ModBase(n, s) > ModBase(n, N) => N1 = N

\* The SDUs received lie before RX_Next_Highest, the last of them just before it.
Topped(n, D1, R, N, s, N1) ==
  /\ D1 \subseteq SNs /\ ModBase(n, N1) <= ModBase(n, N) /\ ModBase(n, N1) < ModBase(n, s)
  /\ \A x \in D1 : ModBase(n, N1) < ModBase(n, x) /\ ModBase(n, x) <= ModBase(n, R)
  /\ \E y \in D1 : ModBase(n, y) = ModBase(n, N1) + 1

\* They do when another one was added.
LEMMA ArriveTops ==
  ASSUME NEW n \in SNs, NEW D, NEW R, NEW H, NEW N, RxPos(n, D, R, H, N),
         NEW s, NEW D1, NEW N1, Arrived(n, D, R, N, s, D1, N1)
  PROVE  Topped(n, D1, R, N, s, N1)
<1>1. /\ D1 = D \cup {s} /\ s \in SNs /\ N1 \in SNs /\ s \notin D /\ ModBase(n, s) <= ModBase(n, R)
      /\ ModBase(n, s) <= ModBase(n, N) => ModBase(n, N1) = ModBase(n, s) - 1
      /\ ModBase(n, s) > ModBase(n, N) => N1 = N
  BY Zenon DEF Arrived
<1>2. /\ D \subseteq SNs /\ R \in SNs /\ N \in SNs
      /\ \A x \in D : ModBase(n, N) < ModBase(n, x) /\ ModBase(n, x) < ModBase(n, R)
      /\ N # R => \E x \in D : ModBase(n, x) = ModBase(n, N) + 1
  BY Zenon DEF RxPos
<1>3. \A x \in SNs : ModBase(n, x) \in Nat
  BY Distance, Zenon
<1>4. ModBase(n, N1) <= ModBase(n, N) /\ ModBase(n, N1) < ModBase(n, s)
  BY <1>1, <1>2, <1>3
<1>5. \A x \in D1 : ModBase(n, N1) < ModBase(n, x) /\ ModBase(n, x) <= ModBase(n, R)
  BY <1>1, <1>2, <1>3, <1>4
<1>6. \E y \in D1 : ModBase(n, y) = ModBase(n, N1) + 1
  <2>1. CASE ModBase(n, s) <= ModBase(n, N)
    BY <1>1, <1>2, <1>3, <2>1
  <2>2. CASE ModBase(n, s) > ModBase(n, N)
    BY <1>1, <1>2, <1>3, <2>2
  <2> QED
    BY <1>1, <1>2, <1>3, <2>1, <2>2
<1> QED
  BY <1>1, <1>2, <1>4, <1>5, <1>6, Zenon DEF Topped

\* RX_Next moved from R to R2 over SDUs that were received; D2 are the SNs that stay in the window.
Moved(n, D1, R, N1, R2, D2) ==
  /\ R2 \in SNs /\ R2 \notin D1
  /\ ModBase(n, N1) <= ModBase(n, R2) /\ ModBase(n, R2) <= ModBase(n, R)
  /\ \A x \in SNs : ModBase(n, R2) < ModBase(n, x) /\ ModBase(n, x) <= ModBase(n, R) => x \in D1
  /\ D2 = {x \in D1 : ModBase(n, x) <= ModBase(n, R2)}

\* RX_Next moves to the first SDU that is missing.
LEMMA NextMoves ==
  ASSUME NEW n \in SNs, NEW D, NEW R, NEW H, NEW N, RxPos(n, D, R, H, N),
         NEW s, NEW D1, NEW N1, Arrived(n, D, R, N, s, D1, N1),
         NEW R2, s = R => FirstGap(n, D1, N1, s, R2), s # R => R2 = R,
         NEW D2, D2 = {x \in D1 : ModBase(n, x) <= ModBase(n, R2)}
  PROVE  Moved(n, D1, R, N1, R2, D2)
<1>1. Topped(n, D1, R, N, s, N1)
  BY ArriveTops, Zenon
<1>2. \A x \in SNs : ModBase(n, x) \in Nat
  BY Distance, Zenon
<1>3. /\ D1 = D \cup {s} /\ s \in SNs /\ N1 \in SNs /\ R \in SNs
      /\ \A x \in D : ModBase(n, x) < ModBase(n, R)
      /\ \A x \in D1 : ModBase(n, N1) < ModBase(n, x) /\ ModBase(n, x) <= ModBase(n, R)
      /\ ModBase(n, N1) < ModBase(n, s) /\ ModBase(n, s) <= ModBase(n, R)
  BY <1>1, Zenon DEF Topped, Arrived, RxPos
<1>4. CASE s = R
  <2>1. FirstGap(n, D1, N1, s, R2)
    BY <1>4, Zenon
  <2>2. N1 \notin D1
    BY <1>2, <1>3
  <2>3. R2 \notin D1
    BY <2>1, <2>2, Zenon DEF FirstGap
  <2> QED
    BY <1>4, <2>1, <2>3, Zenon DEF FirstGap, Moved
<1>5. CASE s # R
  <2>1. R2 = R /\ R \notin D1
    BY <1>2, <1>3, <1>5
  <2>2. ModBase(n, N1) <= ModBase(n, R) /\ ModBase(n, R) <= ModBase(n, R)
    BY <1>2, <1>3
  <2>3. \A x \in SNs : ~(ModBase(n, R) < ModBase(n, x) /\ ModBase(n, x) <= ModBase(n, R))
    BY <1>2, <1>3
  <2> QED
    BY <1>3, <2>1, <2>2, <2>3, Zenon DEF Moved
<1> QED
  BY <1>4, <1>5, Zenon

\* The receiver's positions after RX_Highest_Status and RX_Next moved.
LEMMA PosMoves ==
  ASSUME NEW n \in SNs, NEW D, NEW R, NEW H, NEW N, RxPos(n, D, R, H, N),
         NEW s, NEW D1, NEW N1, Arrived(n, D, R, N, s, D1, N1),
         NEW R2, s = R => FirstGap(n, D1, N1, s, R2), s # R => R2 = R,
         NEW s1 \in SNs, ModBase(n, s1) = ModBase(n, s) - 1,
         NEW H2, s = H => FirstGap(n, D1, N1, s1, H2), s # H => H2 = H,
         NEW D2, D2 = {x \in D1 : ModBase(n, x) <= ModBase(n, R2)}
  PROVE  RxPos(n, D2, R2, H2, N1)
<1>1. Topped(n, D1, R, N, s, N1)
  BY ArriveTops, Zenon
<1>2. Moved(n, D1, R, N1, R2, D2)
  BY NextMoves, Zenon
<1>3. \A x \in SNs : ModBase(n, x) \in Nat
  BY Distance, Zenon
<1>4. /\ D1 = D \cup {s} /\ s \in SNs /\ N1 \in SNs /\ R \in SNs /\ H \in SNs /\ N \in SNs
      /\ ModBase(n, N) <= ModBase(n, H) /\ ModBase(n, H) <= ModBase(n, R)
      /\ ModBase(n, R) <= am_window_size
      /\ \A x \in D : x # H
  BY Zenon DEF Arrived, RxPos
<1>5. /\ D1 \subseteq SNs /\ ModBase(n, N1) <= ModBase(n, N) /\ ModBase(n, N1) < ModBase(n, s)
      /\ \A x \in D1 : ModBase(n, N1) < ModBase(n, x) /\ ModBase(n, x) <= ModBase(n, R)
      /\ ModBase(n, s) <= ModBase(n, R)
  BY <1>1, <1>4, Zenon DEF Topped, Arrived
<1>6. /\ R2 \in SNs /\ R2 \notin D1 /\ ModBase(n, R2) <= ModBase(n, R) /\ ModBase(n, N1) <= ModBase(n, R2)
      /\ \A x \in SNs : ModBase(n, R2) < ModBase(n, x) /\ ModBase(n, x) <= ModBase(n, R) => x \in D1
  BY <1>2, Zenon DEF Moved
<1>7. N1 \notin D1 /\ s \in D1
  BY <1>3, <1>4, <1>5
<1>8. H2 \in SNs /\ H2 \notin D1 /\ ModBase(n, N1) <= ModBase(n, H2) /\ ModBase(n, H2) <= ModBase(n, R)
  <2>1. CASE s = H
    <3>1. /\ H2 \in SNs /\ ModBase(n, N1) <= ModBase(n, H2) /\ ModBase(n, H2) <= ModBase(n, s1)
          /\ H2 = N1 \/ H2 \notin D1
      BY <2>1, Zenon DEF FirstGap
    <3>2. H2 \notin D1
      BY <1>7, <3>1, Zenon
    <3> QED
      BY <1>3, <1>4, <1>5, <3>1, <3>2
  <2>2. CASE s # H
    <3>1. H2 = H /\ H \notin D1
      BY <1>4, <2>2, Zenon
    <3> QED
      BY <1>3, <1>4, <1>5, <3>1
  <2> QED
    BY <2>1, <2>2, Zenon
<1>9. ModBase(n, H2) <= ModBase(n, R2)
  <2>1. ~(ModBase(n, R2) < ModBase(n, H2))
    BY <1>6, <1>8, Zenon
  <2> QED
    BY <1>3, <1>6, <1>8, <2>1
<1>10. ModBase(n, R2) <= am_window_size
  BY <1>3, <1>4, <1>6, WindowIsHalf
<1>11. ASSUME NEW x \in D2
       PROVE  ModBase(n, N1) < ModBase(n, x) /\ ModBase(n, x) < ModBase(n, R2) /\ x # H2
  <2>1. x \in D1 /\ x \in SNs /\ ModBase(n, x) <= ModBase(n, R2) /\ x # R2
    BY <1>5, <1>6, <1>11, Zenon
  <2>2. ModBase(n, x) # ModBase(n, R2)
    BY <1>6, <2>1, SameDistance, Zenon
  <2> QED
    BY <1>3, <1>5, <1>6, <1>8, <2>1, <2>2
<1>12. ASSUME N1 # R2
       PROVE  \E x \in D2 : ModBase(n, x) = ModBase(n, N1) + 1
  <2>1. PICK y \in D1 : ModBase(n, y) = ModBase(n, N1) + 1
    BY <1>1, Zenon DEF Topped
  <2>2. ModBase(n, N1) # ModBase(n, R2)
    BY <1>4, <1>6, <1>12, SameDistance, Zenon
  <2>3. ModBase(n, y) <= ModBase(n, R2)
    BY <1>2, <1>3, <1>4, <1>6, <2>1, <2>2
  <2> QED
    BY <2>1, <2>3, Zenon
<1>13. D2 \subseteq SNs
  BY <1>5, Zenon
<1> QED
  BY <1>4, <1>6, <1>8, <1>9, <1>10, <1>11, <1>12, <1>13, Zenon DEF RxPos

\* The SDUs that went up: all before RX_Next, and those in the window.
Delivered(n, sent, D, R) == 1..(sent - ModBase(n, R)) \cup {sent - ModBase(n, x) + 1 : x \in D}

\* Exactly the SDU of s was added to those.
GoesUp(n, sent, D, R, s, D2, R2) ==
  /\ Delivered(n, sent, D2, R2) = Delivered(n, sent, D, R) \cup {sent - ModBase(n, s) + 1}
  /\ sent - ModBase(n, s) + 1 \notin Delivered(n, sent, D, R)
  /\ ModBase(n, R2) <= ModBase(n, R)

\* It is when RX_Next moves over SDUs that were received.
LEMMA DeliveredMoves ==
  ASSUME NEW n \in SNs, NEW sent \in Nat, NEW D, NEW R, NEW H, NEW N, RxPos(n, D, R, H, N),
         NEW s, NEW D1, NEW N1, Arrived(n, D, R, N, s, D1, N1), ModBase(n, R) <= sent,
         NEW R2, NEW D2, Moved(n, D1, R, N1, R2, D2)
  PROVE  GoesUp(n, sent, D, R, s, D2, R2)
<1>1. \A x \in SNs : ModBase(n, x) \in Nat /\ ModBase(n, x) < ModNr
  BY Distance, Zenon
<1>2. /\ D1 = D \cup {s} /\ s \in SNs /\ s \notin D /\ R \in SNs /\ D \subseteq SNs
      /\ ModBase(n, s) <= ModBase(n, R) /\ \A x \in D : ModBase(n, x) < ModBase(n, R)
  BY Zenon DEF Arrived, RxPos
<1>3. /\ R2 \in SNs /\ ModBase(n, R2) <= ModBase(n, R)
      /\ \A x \in SNs : ModBase(n, R2) < ModBase(n, x) /\ ModBase(n, x) <= ModBase(n, R) => x \in D1
      /\ D2 = {x \in D1 : ModBase(n, x) <= ModBase(n, R2)}
  BY Zenon DEF Moved
<1>4. \A x \in D1 : x \in SNs /\ ModBase(n, x) <= ModBase(n, R) /\ ModBase(n, x) \in Nat
  BY <1>1, <1>2
<1> DEFINE k == sent - ModBase(n, s) + 1
           A == Delivered(n, sent, D, R)
           Z == Delivered(n, sent, D2, R2)
<1>5. ASSUME NEW i \in A PROVE i \in Z
  <2>1. CASE i \in 1..(sent - ModBase(n, R))
    <3>1. i \in 1..(sent - ModBase(n, R2))
      BY <1>1, <1>2, <1>3, <2>1
    <3> QED
      BY <3>1, Zenon DEF Delivered
  <2>2. CASE \E x \in D : i = sent - ModBase(n, x) + 1
    <3>1. PICK x \in D1 : i = sent - ModBase(n, x) + 1
      BY <1>2, <2>2, Zenon
    <3>2. CASE ModBase(n, x) <= ModBase(n, R2)
      BY <1>3, <3>1, <3>2, Zenon DEF Delivered
    <3>3. CASE ~(ModBase(n, x) <= ModBase(n, R2))
      <4>1. i \in 1..(sent - ModBase(n, R2))
        BY <1>1, <1>2, <1>3, <1>4, <3>1, <3>3
      <4> QED
        BY <4>1, Zenon DEF Delivered
    <3> QED
      BY <3>2, <3>3, Zenon
  <2> QED
    BY <2>1, <2>2, Zenon DEF Delivered
<1>6. k \in Z
  <2>1. CASE ModBase(n, s) <= ModBase(n, R2)
    BY <1>2, <1>3, <2>1, Zenon DEF Delivered
  <2>2. CASE ~(ModBase(n, s) <= ModBase(n, R2))
    <3>1. k \in 1..(sent - ModBase(n, R2))
      BY <1>1, <1>2, <1>3, <2>2
    <3> QED
      BY <3>1, Zenon DEF Delivered
  <2> QED
    BY <2>1, <2>2, Zenon
<1>7. ASSUME NEW i \in Z PROVE i \in A \/ i = k
  <2>1. ASSUME NEW x \in D1, i = sent - ModBase(n, x) + 1
        PROVE  i \in A \/ i = k
    BY <1>2, <2>1, Zenon DEF Delivered
  <2>2. CASE \E x \in D2 : i = sent - ModBase(n, x) + 1
    BY <1>3, <2>1, <2>2, Zenon
  <2>3. CASE i \in 1..(sent - ModBase(n, R2))
    <3>1. CASE i \in 1..(sent - ModBase(n, R))
      BY <3>1, Zenon DEF Delivered
    <3>2. CASE i \notin 1..(sent - ModBase(n, R))
      <4>1. PICK d : d = sent - i + 1
        OBVIOUS
      <4>2. /\ d \in SNs /\ i = sent - d + 1
            /\ ModBase(n, R2) < d /\ d <= ModBase(n, R)
        BY <1>1, <1>2, <1>3, <2>3, <3>2, <4>1, WindowIsHalf, SMTT(15) DEF SNs
      <4>3. PICK x \in SNs : ModBase(n, x) = d
        BY <4>2, Behind, Zenon
      <4> QED
        BY <1>3, <2>1, <4>2, <4>3, Zenon
    <3> QED
      BY <3>1, <3>2, Zenon
  <2> QED
    BY <2>2, <2>3, Zenon DEF Delivered
<1>8. k \notin A
  <2>1. k \notin 1..(sent - ModBase(n, R))
    BY <1>1, <1>2
  <2>2. ASSUME NEW x \in D, k = sent - ModBase(n, x) + 1
        PROVE  FALSE
    <3>1. ModBase(n, x) = ModBase(n, s)
      BY <1>1, <1>2, <2>2
    <3> QED
      BY <1>2, <3>1, SameDistance, Zenon
  <2> QED
    BY <2>1, <2>2, Zenon DEF Delivered
<1>9. Z = A \cup {k}
  BY <1>5, <1>6, <1>7, Zenon
<1> QED
  BY <1>3, <1>8, <1>9, Zenon DEF GoesUp

\* u is r except for the timers.
RxKept(n, D, r, u) == RxOK(n, D, u) /\ u.rx_next = r.rx_next

\* When t-Reassembly is started, an SDU is missing and the one before RX_Next_Highest was received.
LEMMA StartKeeps ==
  ASSUME NEW n \in SNs, NEW D, NEW r, RxOK(n, D, r), NEW sn \in SNs, NEW u, u = StartReassembly(r, sn)
  PROVE  RxKept(n, D, r, u)
<1>1. PICK R, H, N : R = r.rx_next /\ H = r.rx_highest_status /\ N = r.rx_next_highest
  OBVIOUS
<1>2. r \in RxRec(D) /\ RxPos(n, D, R, H, N)
  BY <1>1, Zenon DEF RxOK
<1>3. R \in SNs /\ N \in SNs /\ r.window = Stored(D)
  BY <1>1, <1>2, RxFields, Zenon
<1>4. CASE u = r
  BY <1>4, Zenon DEF RxKept
<1>5. CASE u # r
  <2>1. ~HasGap(r, sn)
    BY <1>3, StoredIs, Zenon
  <2>2. /\ RxMod(r, N) > RxMod(r, sn + 1)
        /\ u = [r EXCEPT !.reassembly = TRUE, !.rx_next_status_trigger = N]
    BY <1>1, <1>5, <2>1, Zenon DEF StartReassembly
  <2>3. RxMod(r, sn + 1) \in Nat
    <3>1. PICK x : x = (sn + 1) - R
      OBVIOUS
    <3>2. x \in Int
      BY <1>3, <3>1 DEF SNs
    <3>3. x % ModNr \in SNs
      BY <3>2, Reduce, Zenon
    <3>4. SNs \subseteq Nat
      BY WindowIsHalf DEF SNs
    <3> QED
      BY <1>1, <3>1, <3>3, <3>4, Zenon DEF RxMod, ModBase
  <2>4. ModBase(n, N) <= ModBase(n, R) /\ ModBase(n, R) \in Nat /\ ModBase(n, N) \in Nat
    <3>1. /\ ModBase(n, R) \in Nat /\ ModBase(n, N) \in Nat
          /\ H \in SNs /\ ModBase(n, N) <= ModBase(n, H) /\ ModBase(n, H) <= ModBase(n, R)
      BY <1>2, <1>3, Distance, Zenon DEF RxPos
    <3>2. ModBase(n, H) \in Nat
      BY <3>1, Distance, Zenon
    <3> QED
      BY <3>1, <3>2
  <2>5. RxMod(r, N) = ModBase(n, R) - ModBase(n, N)
    BY <1>1, <1>3, <2>4, RxDistance, Zenon
  <2>6. ModBase(n, N) < ModBase(n, R) /\ ModBase(n, N) <= ModBase(n, N)
    BY <2>2, <2>3, <2>4, <2>5
  <2>7. N # R
    BY <2>4, <2>6
  <2>8. Trigger(n, D, R, N, N)
    BY <1>2, <2>6, <2>7, Zenon DEF Trigger, RxPos
  <2>9. /\ u \in RxRec(D) /\ u.rx_next = R /\ u.rx_highest_status = H /\ u.rx_next_highest = N
        /\ u.rx_next_status_trigger = N
    BY <1>1, <1>2, <1>3, <2>2, Zenon DEF RxRec
  <2> QED
    BY <1>1, <1>2, <2>8, <2>9, Zenon DEF RxKept, RxOK
<1> QED
  BY <1>4, <1>5, Zenon

\* When t-Reassembly is not stopped, RX_Next is behind RX_Next_Status_Trigger and not next to it: the
\* SDU before RX_Next_Status_Trigger was received, that of RX_Next was not.
LEMMA StopKeeps ==
  ASSUME NEW n \in SNs, NEW D1, NEW R, NEW N, NEW D, NEW r, r \in RxRec(D),
         RxPos(n, D, r.rx_next, r.rx_highest_status, r.rx_next_highest),
         Moved(n, D1, R, r.rx_next_highest, r.rx_next, D), D1 \subseteq SNs, R \in SNs, N \in SNs,
         ModBase(n, R) <= am_window_size, ModBase(n, r.rx_next_highest) <= ModBase(n, N),
         r.reassembly => Trigger(n, D1, R, N, r.rx_next_status_trigger),
         NEW u, u = StopReassembly(r)
  PROVE  RxKept(n, D, r, u)
<1>1. PICK T, R2, N1 : T = r.rx_next_status_trigger /\ R2 = r.rx_next /\ N1 = r.rx_next_highest
  OBVIOUS
<1>2. T \in SNs /\ R2 \in SNs /\ N1 \in SNs /\ r.window = Stored(D) /\ r.asserts = TRUE
  BY <1>1, RxFields, Zenon
<1>3. CASE ~r.reassembly
  <2>1. u = r
    BY <1>3, Zenon DEF StopReassembly
  <2> QED
    BY <1>3, <2>1, Zenon DEF RxKept, RxOK
<1>4. CASE r.reassembly
  <2> DEFINE isNext == RxMod(r, r.rx_next_status_trigger) = RxMod(r, r.rx_next + 1)
             stops  == \/ r.rx_next_status_trigger = r.rx_next
                       \/ isNext /\ ~HasGap(r, r.rx_next)
                       \/ ~inside_rx_window(r, r.rx_next_status_trigger)
  <2>1. \A x \in SNs : ModBase(n, x) \in Nat /\ ModBase(n, x) < ModNr
    BY Distance, Zenon
  <2>2. /\ ModBase(n, N) <= ModBase(n, T) /\ ModBase(n, T) < ModBase(n, R)
        /\ \E y \in D1 : ModBase(n, y) = ModBase(n, T) + 1
    BY <1>1, <1>4, Zenon DEF Trigger
  <2>3. PICK y \in D1 : ModBase(n, y) = ModBase(n, T) + 1
    BY <2>2, Zenon
  <2>4. R2 \notin D1 /\ D = {x \in D1 : ModBase(n, x) <= ModBase(n, R2)}
    BY <1>1, Zenon DEF Moved
  <2>5. ModBase(n, R2) # ModBase(n, T) + 1
    BY <1>2, <2>3, <2>4, SameDistance, Zenon
  <2>6. /\ ModBase(n, R2) >= ModBase(n, T) => RxMod(r, T) = ModBase(n, R2) - ModBase(n, T)
        /\ ModBase(n, R2) < ModBase(n, T) => RxMod(r, T) = ModBase(n, R2) - ModBase(n, T) + ModNr
    BY <1>1, <1>2, RxDistance
  <2>7. RxMod(r, R2 + 1) = 1
    <3>1. PICK x : x = (R2 + 1) - R2
      OBVIOUS
    <3>2. x = 1 /\ x \in Int /\ x \in 0..(ModNr - 1)
      BY <1>2, <3>1, WindowIsHalf DEF SNs
    <3>3. x % ModNr = x
      BY <3>2, Reduce, Zenon
    <3> QED
      BY <1>1, <3>1, <3>2, <3>3, Zenon DEF RxMod, ModBase
  <2>8. ModBase(n, T) < am_window_size
    BY <1>2, <2>1, <2>2, WindowIsHalf
  <2>9. RxMod(r, T) # 1
    BY <1>2, <2>1, <2>5, <2>6, <2>8, WindowIsHalf
  <2>10. ~isNext
    BY <1>1, <2>7, <2>9, Zenon
  <2>11. u = [r EXCEPT !.reassembly = ~stops, !.asserts = r.asserts /\ (isNext => Has(r, r.rx_next))]
    BY <1>4, Zenon DEF StopReassembly
  <2>12. (r.asserts /\ (isNext => Has(r, r.rx_next))) = TRUE
    BY <1>2, <2>10, Zenon
  <2> HIDE DEF isNext
  <2>13. ASSUME ~stops PROVE Trigger(n, D, R2, N1, T)
    <3>1. T # R2 /\ RxMod(r, T) < am_window_size
      BY <1>1, <2>13, Zenon DEF inside_rx_window
    <3>2. ModBase(n, T) # ModBase(n, R2)
      BY <1>2, <3>1, SameDistance, Zenon
    <3>3. ModBase(n, T) < ModBase(n, R2)
      BY <1>2, <2>1, <2>6, <2>8, <3>1, <3>2, WindowIsHalf, SMTT(15)
    <3>4. ModBase(n, y) <= ModBase(n, R2)
      BY <1>2, <2>1, <2>3, <3>3, SMTT(15)
    <3>5. ModBase(n, N1) <= ModBase(n, T)
      BY <1>1, <1>2, <2>1, <2>2
    <3> QED
      BY <2>3, <2>4, <3>3, <3>4, <3>5, Zenon DEF Trigger
  <2> HIDE DEF stops
  <2>14. PICK st \in BOOLEAN : st = ~stops
    BY Zenon
  <2>15. u = [r EXCEPT !.reassembly = st, !.asserts = TRUE]
    BY <2>11, <2>12, <2>14, Zenon
  <2>16. /\ u \in RxRec(D) /\ u.rx_next = r.rx_next /\ u.rx_highest_status = r.rx_highest_status
         /\ u.rx_next_highest = N1 /\ u.rx_next_status_trigger = T /\ u.reassembly = st
    BY <1>1, <2>14, <2>15, Zenon DEF RxRec
  <2> QED
    BY <1>1, <2>13, <2>14, <2>16, Zenon DEF RxKept, RxOK
<1> QED
  BY <1>3, <1>4, Zenon

\* The upper layer gets the SDU that was sent.
Assembles(p, k) == Assembled({SegmentOf(p)}) # NoPdu /\ SduOf(Assembled({SegmentOf(p)})) = k

\* A PDU with a whole SDU is that SDU.
LEMMA FullAssembles ==
  ASSUME NEW k \in Nat, NEW p, p.sdu = k, p.so = 0, p.len = SduBytes
  PROVE  Assembles(p, k)
<1>1. PICK e : e = SegmentOf(p)
  OBVIOUS
<1>2. e.sdu = k /\ e.so = 0 /\ e.len = SduBytes
  BY <1>1 DEF SegmentOf
<1>3. Cardinality({e}) = 1
  BY FS_Singleton, Zenon
<1>4. PICK q : q = BySO({e})
  OBVIOUS
<1>5. q \in [1..1 -> {e}]
  <2> DEFINE Q == {f \in [1..1 -> {e}] : \A i, j \in DOMAIN f : i < j => f[i].so < f[j].so}
  <2>1. [i \in 1..1 |-> e] \in [1..1 -> {e}]
    OBVIOUS
  <2>2. \A i, j \in 1..1 : ~(i < j)
    OBVIOUS
  <2>3. [i \in 1..1 |-> e] \in Q
    BY <2>1, <2>2, Zenon
  <2>4. q = CHOOSE f \in [1..1 -> {e}] : \A i, j \in DOMAIN f : i < j => f[i].so < f[j].so
    BY <1>3, <1>4, Zenon DEF BySO
  <2> QED
    BY <2>3, <2>4, Zenon
<1>6. DOMAIN q = 1..1 /\ q[1] = e
  BY <1>5
<1>7. PICK a : a = Assembled({e})
  OBVIOUS
<1>8. a = [i \in 1..1 |-> [sdu |-> q[i].sdu, so |-> q[i].so, len |-> q[i].len]]
  BY <1>4, <1>6, <1>7, Zenon DEF Assembled
<1>9. DOMAIN a = 1..1 /\ a[1] = [sdu |-> k, so |-> 0, len |-> SduBytes]
  BY <1>2, <1>6, <1>8, SMTT(15)
<1>10. a[1].sdu = k /\ a[1].so = 0 /\ a[1].len = SduBytes
  BY <1>9
<1>11. PICK S : S = [sdu : Nat, so : Nat, len : Nat]
  BY Zenon
<1>12. a[1] \in S
  BY <1>9, <1>11, RlcAmAssumption
<1>13. \A i \in 1..1 : i = 1
  OBVIOUS
<1>14. a \in [1..1 -> S]
  <2>1. a = [i \in 1..1 |-> a[i]]
    BY <1>8, <1>9, Zenon
  <2> QED
    BY <1>12, <1>13, <2>1, Zenon
<1>15. a \in Seq(S) /\ Len(a) = 1
  <2>1. 1 \in Nat
    OBVIOUS
  <2>2. a \in Seq(S)
    BY <1>14, <2>1, SeqIs, Zenon
  <2>3. Len(a) \in Nat /\ 1..Len(a) = 1..1
    BY <1>9, <2>2, SeqDomain, Zenon
  <2>7. 1 \in 1..1
    OBVIOUS
  <2>4. 1 \in 1..Len(a)
    BY <2>3, <2>7, Zenon
  <2>5. Len(a) \in 1..Len(a)
    BY <2>3, <2>4
  <2>6. Len(a) \in 1..1
    BY <2>3, <2>5, Zenon
  <2> QED
    BY <2>2, <2>6
<1>16. a # NoPdu
  BY <1>11, <1>15, RlcAmAssumption, Zenon
<1>17. ExpectedSO(a, 1) = 0
  BY Zenon DEF ExpectedSO
<1>18. ExpectedSO(a, Len(a) + 1) = SduBytes
  <2>1. Len(a) + 1 = 2 /\ 2 # 1 /\ 2 - 1 = 1
    BY <1>15
  <2>2. ExpectedSO(a, 2) = a[1].so + a[1].len
    BY <2>1, Zenon DEF ExpectedSO
  <2>3. a[1].so + a[1].len = SduBytes
    BY <1>10, RlcAmAssumption
  <2> QED
    BY <2>1, <2>2, <2>3, Zenon
<1>19. \A i \in DOMAIN a : a[i].sdu = a[1].sdu /\ a[i].so = ExpectedSO(a, i)
  BY <1>9, <1>10, <1>13, <1>17, Zenon
<1>20. SduOf(a) = k
  BY <1>10, <1>18, <1>19, Zenon DEF SduOf
<1> QED
  BY <1>1, <1>7, <1>16, <1>20, Zenon DEF Assembles

\* r1 is r with the window D1 and with N1 as RX_Next_Highest.
Holds(D, r, D1, N1, r1) ==
  /\ r1 \in RxRec(D1) /\ r1.rx_next = r.rx_next /\ r1.rx_highest_status = r.rx_highest_status
  /\ r1.rx_next_highest = N1 /\ r1.reassembly = r.reassembly
  /\ r1.rx_next_status_trigger = r.rx_next_status_trigger

\* AdvanceWindow after the SDU of s was stored.
Advances(n, sent, D, r, s, r3) ==
  \E D1, D2 : /\ D1 \subseteq SNs /\ D1 = D \cup {s} /\ r3 \in RxRec(D2)
              /\ RxPos(n, D2, r3.rx_next, r3.rx_highest_status, r3.rx_next_highest)
              /\ Moved(n, D1, r.rx_next, r3.rx_next_highest, r3.rx_next, D2)
              /\ GoesUp(n, sent, D, r.rx_next, s, D2, r3.rx_next)
              /\ ModBase(n, r3.rx_next_highest) <= ModBase(n, r.rx_next_highest)
              /\ r3.reassembly = r.reassembly
              /\ r3.rx_next_status_trigger = r.rx_next_status_trigger

\* RX_Highest_Status and RX_Next move to the next SDU that is missing, and what is behind RX_Next
\* leaves the window.
LEMMA WindowAdvances ==
  ASSUME NEW n \in SNs, NEW sent \in Nat, NEW D, NEW r, RxOK(n, D, r), ModBase(n, r.rx_next) <= sent,
         NEW s, NEW D1, NEW N1, Arrived(n, D, r.rx_next, r.rx_next_highest, s, D1, N1),
         NEW r1, Holds(D, r, D1, N1, r1), NEW r3, r3 = AdvanceWindow(r1, s)
  PROVE  Advances(n, sent, D, r, s, r3)
<1>1. PICK R, H, N : R = r.rx_next /\ H = r.rx_highest_status /\ N = r.rx_next_highest
  OBVIOUS
<1>2. r \in RxRec(D) /\ RxPos(n, D, R, H, N) /\ Arrived(n, D, R, N, s, D1, N1)
  BY <1>1, Zenon DEF RxOK
<1>3. /\ r1 \in RxRec(D1) /\ r1.rx_next = R /\ r1.rx_highest_status = H /\ r1.rx_next_highest = N1
      /\ r1.reassembly = r.reassembly /\ r1.rx_next_status_trigger = r.rx_next_status_trigger
  BY <1>1, Zenon DEF Holds
<1>4. R \in SNs /\ H \in SNs /\ N \in SNs /\ N1 \in SNs /\ s \in SNs /\ r1.window = Stored(D1)
  BY <1>1, <1>2, <1>3, RxFields, Zenon DEF Arrived
<1>5. \A x \in SNs : ModBase(n, x) \in Nat /\ ModBase(n, x) < ModNr
  BY Distance, Zenon
<1>6. Topped(n, D1, R, N, s, N1)
  BY <1>2, ArriveTops, Zenon
<1>7. /\ D1 \subseteq SNs /\ ModBase(n, N1) <= ModBase(n, N) /\ ModBase(n, N1) < ModBase(n, s)
      /\ \A x \in D1 : ModBase(n, x) <= ModBase(n, R)
      /\ ModBase(n, s) <= ModBase(n, R)
  BY <1>2, <1>6, Zenon DEF Topped, Arrived
<1>8. PICK s1 : s1 = (s + 1) % ModNr
  OBVIOUS
<1>9. s1 \in SNs /\ ModBase(n, s1) = ModBase(n, s) - 1
  <2>1. 1 \in SNs /\ 1 <= ModBase(n, s)
    BY <1>4, <1>5, <1>7, WindowIsHalf DEF SNs
  <2>2. /\ (s + 1) % ModNr \in SNs
        /\ 1 <= ModBase(n, s) => ModBase(n, (s + 1) % ModNr) = ModBase(n, s) - 1
    BY <1>4, <2>1, Further
  <2> QED
    BY <1>8, <2>1, <2>2, Zenon
<1> DEFINE highest == IF s = H THEN FirstIncomplete(r1, s1) ELSE H
           next    == IF s = R THEN FirstIncomplete(r1, s) ELSE R
           gone    == {x \in DOMAIN r1.window : RxMod(r1, x) < RxMod(r1, next)}
<1>10. PICK H2, R2 : H2 = highest /\ R2 = next
  OBVIOUS
<1>11. PICK G : G = gone
  BY Zenon
<1>12. r3 = [r1 EXCEPT !.rx_highest_status = H2, !.rx_next = R2,
                       !.window = [x \in DOMAIN r1.window \ G |-> r1.window[x]]]
  BY <1>3, <1>8, <1>10, <1>11, Zenon DEF AdvanceWindow
<1>13. s = R => FirstGap(n, D1, N1, s, R2)
  <2>1. ModBase(n, N1) <= ModBase(n, s)
    BY <1>4, <1>5, <1>7
  <2>2. PICK f : f = FirstIncomplete(r1, s)
    OBVIOUS
  <2>3. FirstGap(n, D1, N1, s, f)
    BY <1>3, <1>4, <1>7, <2>1, <2>2, FirstIncompleteIs, Zenon
  <2> QED
    BY <1>10, <2>2, <2>3, Zenon
<1>14. s = H => FirstGap(n, D1, N1, s1, H2)
  <2>1. ModBase(n, N1) <= ModBase(n, s1) /\ ModBase(n, s1) <= ModBase(n, R)
    BY <1>4, <1>5, <1>7, <1>9
  <2>2. PICK f : f = FirstIncomplete(r1, s1)
    OBVIOUS
  <2>3. FirstGap(n, D1, N1, s1, f)
    BY <1>3, <1>4, <1>9, <2>1, <2>2, FirstIncompleteIs, Zenon
  <2> QED
    BY <1>10, <2>2, <2>3, Zenon
<1>15. (s # R => R2 = R) /\ (s # H => H2 = H)
  BY <1>10, Zenon
<1>16. PICK D2 : D2 = {x \in D1 : ModBase(n, x) <= ModBase(n, R2)}
  BY Zenon
<1>17. Moved(n, D1, R, N1, R2, D2)
  BY <1>2, <1>13, <1>15, <1>16, NextMoves, Zenon
<1>18. RxPos(n, D2, R2, H2, N1)
  BY <1>2, <1>9, <1>13, <1>14, <1>15, <1>16, PosMoves, Zenon
<1>19. GoesUp(n, sent, D, R, s, D2, R2)
  BY <1>1, <1>2, <1>17, DeliveredMoves, Zenon
<1>20. D1 \ G = D2
  <2>1. R2 \in SNs /\ ModBase(n, R2) <= ModBase(n, R)
    BY <1>17, Zenon DEF Moved
  <2>2. RxMod(r1, R2) = ModBase(n, R) - ModBase(n, R2)
    <3>1. ModBase(n, R) >= ModBase(n, R2)
      BY <1>4, <1>5, <2>1, Zenon
    <3> QED
      BY <1>3, <1>4, <2>1, <3>1, RxDistance, Zenon
  <2>3. ASSUME NEW x \in D1
        PROVE  RxMod(r1, x) < RxMod(r1, R2) <=> ~(ModBase(n, x) <= ModBase(n, R2))
    <3>1. x \in SNs /\ ModBase(n, R) >= ModBase(n, x)
      BY <1>4, <1>5, <1>7, Zenon
    <3>2. RxMod(r1, x) = ModBase(n, R) - ModBase(n, x)
      BY <1>3, <1>4, <3>1, RxDistance
    <3> QED
      BY <1>4, <1>5, <2>1, <2>2, <3>1, <3>2, SMTT(15)
  <2>4. G = {x \in D1 : RxMod(r1, x) < RxMod(r1, R2)}
    BY <1>4, <1>10, <1>11, Zenon DEF Stored
  <2> QED
    BY <1>16, <2>3, <2>4, Zenon
<1>21. [x \in DOMAIN r1.window \ G |-> r1.window[x]] = Stored(D2)
  <2>1. DOMAIN r1.window = D1 /\ \A x \in D1 : r1.window[x] = Done
    BY <1>4, Zenon DEF Stored
  <2>2. [x \in D2 |-> r1.window[x]] = [x \in D2 |-> Done]
    BY <1>16, <2>1, Zenon
  <2> QED
    BY <1>20, <2>1, <2>2, Zenon DEF Stored
<1>22. r3 = [r1 EXCEPT !.rx_highest_status = H2, !.rx_next = R2, !.window = Stored(D2)]
  BY <1>12, <1>21, Zenon
<1>23. H2 \in SNs /\ R2 \in SNs
  BY <1>18, Zenon DEF RxPos
<1>24. /\ r3 \in RxRec(D2) /\ r3.rx_next = R2 /\ r3.rx_highest_status = H2 /\ r3.rx_next_highest = N1
       /\ r3.reassembly = r1.reassembly /\ r3.rx_next_status_trigger = r1.rx_next_status_trigger
  BY <1>3, <1>22, <1>23, Zenon DEF RxRec
<1>25. D1 = D \cup {s}
  BY <1>2, Zenon DEF Arrived
<1> QED
  BY <1>1, <1>3, <1>7, <1>17, <1>18, <1>19, <1>24, <1>25, Zenon DEF Advances

\* The PDU was dropped, or its SDU went up; it is the SDU that was sent and had not gone up before.
DataHandled(n, sent, D, r, s, h) ==
  \/ h.up = NoPdu /\ RxKept(n, D, r, h.rx)
  \/ /\ h.up # NoPdu /\ SduOf(h.up) = sent - ModBase(n, s) + 1
     /\ \E D2 : RxOK(n, D2, h.rx) /\ GoesUp(n, sent, D, r.rx_next, s, D2, h.rx.rx_next)

\* The SDU of s is stored in the window, where it loses its segments when it goes up.
Enters(D, r, p, s, r2) ==
  /\ Complete(r2, s) /\ r2.window[s].segs = {SegmentOf(p)} /\ r2.rx_next = r.rx_next
  /\ \E N1 : /\ Holds(D, r, D \cup {s}, N1, [r2 EXCEPT !.window[s].segs = {}])
             /\ N1 = IF RxMod(r, s) >= RxMod(r, r.rx_next_highest) THEN (s + 1) % ModNr
                     ELSE r.rx_next_highest

\* A PDU with a whole SDU and RX_Next_Highest.
LEMMA FullEnters ==
  ASSUME NEW D, NEW r \in RxRec(D), NEW r0 \in RxRec(D), NEW p, NEW s \in SNs, s = p.sn,
         \E b \in BOOLEAN : r0 = [r EXCEPT !.do_status = b],
         NEW r1, r1 = handle_full_data_sdu(r0, p),
         NEW r2, r2 = IF RxMod(r, s) >= RxMod(r, r.rx_next_highest)
                      THEN [r1 EXCEPT !.rx_next_highest = (s + 1) % ModNr] ELSE r1
  PROVE  Enters(D, r, p, s, r2)
<1>1. PICK E : E = [segs |-> {SegmentOf(p)}, has_gap |-> FALSE, fully_received |-> TRUE]
  BY Zenon
<1>2. PICK V : V = [x \in D \cup {s} |-> IF x = s THEN E ELSE Done]
  BY Zenon
<1>3. r0.window = Stored(D) /\ r0.rx_next_highest \in SNs
  BY RxFields, Zenon
<1>4. r1 = [r0 EXCEPT !.window = V]
  <2>1. DOMAIN r0.window = D /\ \A x \in D : r0.window[x] = Done
    BY <1>3, Zenon DEF Stored
  <2>2. [x \in DOMAIN r0.window \cup {s} |-> IF x = s THEN E ELSE r0.window[x]] = V
    <3>1. \A x \in D \cup {s} : (IF x = s THEN E ELSE r0.window[x]) = IF x = s THEN E ELSE Done
      BY <2>1, Zenon
    <3> QED
      BY <1>2, <2>1, <3>1, Zenon
  <2> QED
    BY <1>1, <2>2, Zenon DEF handle_full_data_sdu, SetEntry
<1>5. PICK N1 : N1 = IF RxMod(r, s) >= RxMod(r, r.rx_next_highest) THEN (s + 1) % ModNr
                     ELSE r.rx_next_highest
  OBVIOUS
<1>6. N1 \in SNs
  <2>1. s + 1 \in Int
    BY DEF SNs
  <2>2. (s + 1) % ModNr \in SNs
    BY <2>1, Reduce, Zenon
  <2>3. r.rx_next_highest \in SNs
    BY RxFields, Zenon
  <2> QED
    BY <1>5, <2>2, <2>3, Zenon
<1>7. PICK b \in BOOLEAN : r0 = [r EXCEPT !.do_status = b]
  OBVIOUS
<1>8. r0.rx_next_highest = r.rx_next_highest /\ r0 = [r0 EXCEPT !.rx_next_highest = r.rx_next_highest]
  BY <1>7, Zenon DEF RxRec
<1>9. r2 = [r0 EXCEPT !.window = V, !.rx_next_highest = N1]
  <2>1. CASE RxMod(r, s) >= RxMod(r, r.rx_next_highest)
    <3>1. N1 = (s + 1) % ModNr /\ r2 = [r1 EXCEPT !.rx_next_highest = (s + 1) % ModNr]
      BY <1>5, <2>1, Zenon
    <3>2. r2 = [[r0 EXCEPT !.window = V] EXCEPT !.rx_next_highest = N1]
      BY <1>4, <3>1, Zenon
    <3> QED
      BY <3>2, Zenon DEF RxRec
  <2>2. CASE ~(RxMod(r, s) >= RxMod(r, r.rx_next_highest))
    <3>1. N1 = r0.rx_next_highest /\ r2 = [r0 EXCEPT !.window = V]
      BY <1>4, <1>5, <1>8, <2>2, Zenon
    <3> QED
      BY <3>1, Zenon DEF RxRec
  <2> QED
    BY <2>1, <2>2, Zenon
<1>10. r2.window = V /\ r2.rx_next = r.rx_next
  BY <1>7, <1>9, Zenon DEF RxRec
<1>11. V[s] = E /\ s \in DOMAIN V /\ E.fully_received = TRUE /\ E.segs = {SegmentOf(p)}
  BY <1>1, <1>2, Zenon
<1>12. Complete(r2, s)
  BY <1>10, <1>11, Zenon DEF Complete, Has
<1>13. [V EXCEPT ![s].segs = {}] = Stored(D \cup {s})
  <2>1. [E EXCEPT !.segs = {}] = Done
    <3>1. PICK X, Z, f, t : X = {SegmentOf(p)} /\ Z = {} /\ f = FALSE /\ t = TRUE
      BY Zenon
    <3>2. E = [segs |-> X, has_gap |-> f, fully_received |-> t]
      BY <1>1, <3>1, Zenon
    <3>3. [E EXCEPT !.segs = Z] = [segs |-> Z, has_gap |-> f, fully_received |-> t]
      BY <3>2
    <3> QED
      BY <3>1, <3>3, Zenon DEF Done
  <2>2. [V EXCEPT ![s].segs = {}] = [V EXCEPT ![s] = Done]
    BY <1>11, <2>1, Zenon
  <2>3. [V EXCEPT ![s] = Done] = [x \in D \cup {s} |-> Done]
    BY <1>2, Zenon
  <2> QED
    BY <2>2, <2>3, Zenon DEF Stored
<1>14. PICK r3 : r3 = [r2 EXCEPT !.window[s].segs = {}]
  BY Zenon
<1>15. r3 = [r2 EXCEPT !.window = Stored(D \cup {s})]
  BY <1>10, <1>13, <1>14, Zenon
<1>16. r3 = [r0 EXCEPT !.window = Stored(D \cup {s}), !.rx_next_highest = N1]
  BY <1>9, <1>15, Zenon DEF RxRec
<1>17. Holds(D, r, D \cup {s}, N1, r3)
  <2>1. r3 \in RxRec(D \cup {s})
    BY <1>6, <1>16, Zenon DEF RxRec
  <2>2. /\ r3.rx_next = r0.rx_next /\ r3.rx_highest_status = r0.rx_highest_status
        /\ r3.rx_next_highest = N1 /\ r3.reassembly = r0.reassembly
        /\ r3.rx_next_status_trigger = r0.rx_next_status_trigger
    BY <1>16 DEF RxRec
  <2>3. /\ r0.rx_next = r.rx_next /\ r0.rx_highest_status = r.rx_highest_status
        /\ r0.reassembly = r.reassembly /\ r0.rx_next_status_trigger = r.rx_next_status_trigger
    BY <1>7 DEF RxRec
  <2> QED
    BY <2>1, <2>2, <2>3, Zenon DEF Holds
<1> QED
  BY <1>5, <1>10, <1>11, <1>12, <1>14, <1>17, Zenon DEF Enters

\* A data PDU with a whole SDU is dropped, or its SDU goes up for the first time.
LEMMA HandleData ==
  ASSUME NEW n \in SNs, NEW sent \in Nat, NEW D, NEW r, RxOK(n, D, r), ModBase(n, r.rx_next) <= sent,
         NEW s \in SNs, NEW poll \in BOOLEAN, NEW p, p = FullPdu(n, sent, s, poll),
         1 <= ModBase(n, s), ModBase(n, s) <= am_window_size, ModBase(n, s) <= sent,
         NEW h, h = handle_data_pdu(r, p)
  PROVE  DataHandled(n, sent, D, r, s, h)
<1>1. PICK R, H, N : R = r.rx_next /\ H = r.rx_highest_status /\ N = r.rx_next_highest
  OBVIOUS
<1>2. r \in RxRec(D) /\ RxPos(n, D, R, H, N)
  BY <1>1, Zenon DEF RxOK
<1>3. /\ R \in SNs /\ N \in SNs /\ H \in SNs /\ D \subseteq SNs /\ r.window = Stored(D)
      /\ ModBase(n, N) <= ModBase(n, H) /\ ModBase(n, H) <= ModBase(n, R)
      /\ ModBase(n, R) <= am_window_size
  BY <1>1, <1>2, RxFields, Zenon DEF RxPos
<1>4. /\ p.sn = s /\ p.si = "full" /\ p.p = poll /\ p.so = 0 /\ p.len = SduBytes
      /\ p.sdu = sent - ModBase(n, s) + 1
  BY DEF FullPdu
<1>5. \A x \in SNs : ModBase(n, x) \in Nat /\ ModBase(n, x) < ModNr
  BY Distance, Zenon
<1> DEFINE r0 == IF p.p THEN [r EXCEPT !.do_status = TRUE] ELSE r
<1>6. \E b \in BOOLEAN : r0 = [r EXCEPT !.do_status = b]
  <2>1. r.do_status \in BOOLEAN /\ r = [r EXCEPT !.do_status = r.do_status]
    BY <1>2 DEF RxRec
  <2>2. CASE p.p
    <3>1. r0 = [r EXCEPT !.do_status = TRUE]
      BY <2>2, Zenon
    <3> QED
      BY <3>1, Zenon
  <2>3. CASE ~p.p
    <3>1. r0 = r
      BY <2>3, Zenon
    <3> QED
      BY <2>1, <3>1, Zenon
  <2> QED
    BY <2>2, <2>3, Zenon
<1>7. r0 \in RxRec(D) /\ RxOK(n, D, r0) /\ r0.rx_next = r.rx_next
  <2>1. PICK b \in BOOLEAN : r0 = [r EXCEPT !.do_status = b]
    BY <1>6, Zenon
  <2> HIDE DEF r0
  <2>2. /\ r0 \in RxRec(D) /\ r0.rx_next = R /\ r0.rx_highest_status = H /\ r0.rx_next_highest = N
        /\ r0.reassembly = r.reassembly /\ r0.rx_next_status_trigger = r.rx_next_status_trigger
    BY <1>1, <1>2, <2>1, Zenon DEF RxRec
  <2> QED
    BY <1>1, <2>2, Zenon DEF RxOK
<1> DEFINE r1 == IF p.si = "full" THEN handle_full_data_sdu(r0, p) ELSE handle_segment_data_sdu(r0, p)
           r2 == IF RxMod(r, p.sn) >= RxMod(r, r.rx_next_highest)
                 THEN [r1 EXCEPT !.rx_next_highest = (p.sn + 1) % ModNr] ELSE r1
           up == IF Complete(r2, p.sn) THEN Assembled(r2.window[p.sn].segs) ELSE NoPdu
           r3 == IF Complete(r2, p.sn)
                 THEN AdvanceWindow([r2 EXCEPT !.window[p.sn].segs = {}], p.sn) ELSE r2
           r4 == StartReassembly(StopReassembly(r3), r3.rx_next)
<1> HIDE DEF r0
<1>8. Complete(r, s) <=> s \in D
  BY <1>3, StoredIs, Zenon
<1>9. CASE ~inside_rx_window(r, s) \/ Complete(r, s)
  <2>1. h = [rx |-> r0, up |-> NoPdu]
    BY <1>4, <1>9, Zenon DEF handle_data_pdu, r0
  <2>2. h.rx = r0 /\ h.up = NoPdu
    BY <2>1
  <2> QED
    BY <1>7, <2>2, Zenon DEF DataHandled, RxKept
<1>10. CASE inside_rx_window(r, s) /\ s \notin D
  <2>1. h = [rx |-> r4, up |-> up]
    <3>1. ~(\/ ~inside_rx_window(r, p.sn) \/ Complete(r, p.sn)
            \/ Has(r, p.sn) /\ p.si # "full" /\ Overlaps(p, r.window[p.sn].segs))
      BY <1>4, <1>8, <1>10, Zenon
    <3> QED
      BY <3>1, Zenon DEF handle_data_pdu, r0
  <2>2. h.rx = r4 /\ h.up = up
    BY <2>1
  <2> HIDE DEF r4, r3, up
  <2>3. Enters(D, r, p, s, r2)
    <3>1. r1 = handle_full_data_sdu(r0, p)
      BY <1>4, Zenon
    <3> HIDE DEF r1
    <3>2. r2 = IF RxMod(r, s) >= RxMod(r, r.rx_next_highest)
               THEN [r1 EXCEPT !.rx_next_highest = (s + 1) % ModNr] ELSE r1
      BY <1>4, Zenon
    <3> HIDE DEF r2
    <3> QED
      BY <1>2, <1>4, <1>6, <1>7, <3>1, <3>2, FullEnters, Zenon
  <2> HIDE DEF r1, r2
  <2>4. Complete(r2, s)
    BY <2>3, Zenon DEF Enters
  <2>5. up = Assembled({SegmentOf(p)})
    BY <1>4, <2>3, <2>4, Zenon DEF Enters, up
  <2>6. Assembles(p, sent - ModBase(n, s) + 1)
    <3>1. PICK k : k = sent - ModBase(n, s) + 1
      OBVIOUS
    <3>2. k \in Nat
      BY <1>5, <3>1
    <3>3. Assembles(p, k)
      BY <1>4, <3>1, <3>2, FullAssembles, Zenon
    <3> QED
      BY <3>1, <3>3, Zenon
  <2>7. up # NoPdu /\ SduOf(up) = sent - ModBase(n, s) + 1
    BY <2>5, <2>6, Zenon DEF Assembles
  <2>8. PICK q : q = [r2 EXCEPT !.window[s].segs = {}]
    BY Zenon
  <2>9. PICK N1 : /\ Holds(D, r, D \cup {s}, N1, q)
                  /\ N1 = IF RxMod(r, s) >= RxMod(r, r.rx_next_highest) THEN (s + 1) % ModNr
                          ELSE r.rx_next_highest
    BY <2>3, <2>8, Zenon DEF Enters
  <2>10. RxMod(r, s) < am_window_size
    BY <1>10, Zenon DEF inside_rx_window
  <2>11. ModBase(n, s) <= ModBase(n, R)
    <3>1. ModBase(n, R) < ModBase(n, s) => RxMod(r, s) = ModBase(n, R) - ModBase(n, s) + ModNr
      <4>1. n \in SNs /\ s \in SNs /\ r.rx_next \in SNs /\ R = r.rx_next
        BY <1>1, <1>3, Zenon
      <4> QED
        BY <4>1, RxDistance, Zenon
    <3> QED
      BY <1>3, <1>5, <2>10, <3>1, WindowIsHalf, SMTT(15)
  <2>12. RxMod(r, s) = ModBase(n, R) - ModBase(n, s) /\ RxMod(r, N) = ModBase(n, R) - ModBase(n, N)
    <3>1. ModBase(n, R) >= ModBase(n, s) /\ ModBase(n, R) >= ModBase(n, N)
      BY <1>3, <1>5, <2>11
    <3>2. n \in SNs /\ s \in SNs /\ N \in SNs /\ r.rx_next \in SNs /\ R = r.rx_next
      BY <1>1, <1>3, Zenon
    <3> QED
      BY <3>1, <3>2, RxDistance, Zenon
  <2>13. Arrived(n, D, R, N, s, D \cup {s}, N1)
    <3>1. RxMod(r, s) >= RxMod(r, N) <=> ModBase(n, s) <= ModBase(n, N)
      BY <1>3, <1>5, <2>12
    <3>2. /\ (s + 1) % ModNr \in SNs
          /\ 1 <= ModBase(n, s) => ModBase(n, (s + 1) % ModNr) = ModBase(n, s) - 1
      <4>1. 1 \in SNs
        BY WindowIsHalf DEF SNs
      <4> QED
        BY <4>1, Further, Zenon
    <3>3. CASE ModBase(n, s) <= ModBase(n, N)
      <4>1. N1 = (s + 1) % ModNr
        BY <1>1, <2>9, <3>1, <3>3, Zenon
      <4>2. ~(ModBase(n, s) > ModBase(n, N))
        BY <1>3, <1>5, <3>3
      <4> QED
        BY <1>10, <2>11, <3>2, <4>1, <4>2, Zenon DEF Arrived
    <3>4. CASE ~(ModBase(n, s) <= ModBase(n, N))
      <4>1. N1 = N
        BY <1>1, <2>9, <3>1, <3>4, Zenon
      <4> QED
        BY <1>3, <1>10, <2>11, <3>4, <4>1, Zenon DEF Arrived
    <3> QED
      BY <3>3, <3>4, Zenon
  <2>14. r3 = AdvanceWindow(q, s)
    BY <1>4, <2>4, <2>8, Zenon DEF r3
  <2>15. Advances(n, sent, D, r, s, r3)
    BY <1>1, <2>9, <2>13, <2>14, WindowAdvances, Zenon
  <2>16. PICK D1, D2 :
             /\ D1 \subseteq SNs /\ D1 = D \cup {s} /\ r3 \in RxRec(D2)
             /\ RxPos(n, D2, r3.rx_next, r3.rx_highest_status, r3.rx_next_highest)
             /\ Moved(n, D1, R, r3.rx_next_highest, r3.rx_next, D2)
             /\ GoesUp(n, sent, D, R, s, D2, r3.rx_next)
             /\ ModBase(n, r3.rx_next_highest) <= ModBase(n, N)
             /\ r3.reassembly = r.reassembly
             /\ r3.rx_next_status_trigger = r.rx_next_status_trigger
    BY <1>1, <2>15, Zenon DEF Advances
  <2>17. r3.reassembly => Trigger(n, D1, R, N, r3.rx_next_status_trigger)
    BY <1>1, <2>16, Zenon DEF RxOK, Trigger
  <2>18. PICK u : u = StopReassembly(r3)
    OBVIOUS
  <2>19. RxKept(n, D2, r3, u)
    BY <1>3, <2>16, <2>17, <2>18, StopKeeps, Zenon
  <2>20. RxOK(n, D2, u) /\ u.rx_next = r3.rx_next /\ r3.rx_next \in SNs
    BY <2>16, <2>19, RxFields, Zenon DEF RxKept
  <2>21. RxKept(n, D2, u, r4)
    BY <2>18, <2>20, StartKeeps, Zenon DEF r4
  <2>22. RxOK(n, D2, h.rx) /\ GoesUp(n, sent, D, r.rx_next, s, D2, h.rx.rx_next)
    BY <1>1, <2>2, <2>16, <2>20, <2>21, Zenon DEF RxKept
  <2> QED
    BY <2>2, <2>7, <2>22, Zenon DEF DataHandled
<1> QED
  BY <1>8, <1>9, <1>10, Zenon

\* When t-Reassembly expires, RX_Highest_Status moves to the first SDU missing from
\* RX_Next_Status_Trigger on, which is ahead of RX_Next.
LEMMA Expires ==
  ASSUME NEW n \in SNs, NEW D, NEW r, RxOK(n, D, r), r.reassembly, NEW u, u = reassembly_expired(r)
  PROVE  RxKept(n, D, r, u)
<1>1. PICK R, H, N, T : /\ R = r.rx_next /\ H = r.rx_highest_status /\ N = r.rx_next_highest
                        /\ T = r.rx_next_status_trigger
  OBVIOUS
<1>2. r \in RxRec(D) /\ RxPos(n, D, R, H, N) /\ Trigger(n, D, R, N, T)
  BY <1>1, Zenon DEF RxOK
<1>3. R \in SNs /\ N \in SNs /\ T \in SNs /\ r.window = Stored(D) /\ r.asserts = TRUE
  BY <1>1, <1>2, RxFields, Zenon
<1>4. /\ ModBase(n, N) <= ModBase(n, T) /\ ModBase(n, T) < ModBase(n, R)
      /\ ModBase(n, R) <= am_window_size /\ \A x \in D : x \in SNs /\ ModBase(n, N) < ModBase(n, x)
  BY <1>2, Zenon DEF Trigger, RxPos
<1>5. \A x \in SNs : ModBase(n, x) \in Nat
  BY Distance, Zenon
<1>6. PICK h : h = FirstIncomplete(r, T)
  OBVIOUS
<1>7. FirstGap(n, D, N, T, h)
  <2>1. ModBase(n, T) <= ModBase(n, R)
    BY <1>3, <1>4, <1>5
  <2> QED
    BY <1>1, <1>3, <1>4, <1>6, <2>1, FirstIncompleteIs, Zenon
<1>8. /\ h \in SNs /\ ModBase(n, N) <= ModBase(n, h) /\ ModBase(n, h) <= ModBase(n, T)
      /\ h = N \/ h \notin D
  BY <1>7, Zenon DEF FirstGap
<1>9. ModBase(n, h) < ModBase(n, R) /\ ModBase(n, h) <= ModBase(n, R) /\ h \notin D
  BY <1>3, <1>4, <1>5, <1>8
<1>10. RxPos(n, D, R, h, N)
  BY <1>2, <1>8, <1>9, Zenon DEF RxPos
<1>11. rx_valid_ack_sn(r, h)
  <2>1. ModBase(n, R) >= ModBase(n, h)
    BY <1>3, <1>5, <1>8, <1>9, Zenon
  <2>2. RxMod(r, h) = ModBase(n, R) - ModBase(n, h)
    BY <1>1, <1>3, <1>8, <2>1, RxDistance, Zenon
  <2>3. 0 < RxMod(r, h) /\ RxMod(r, h) <= am_window_size
    BY <1>3, <1>4, <1>5, <1>8, <1>9, <2>2, WindowIsHalf, SMTT(15)
  <2> QED
    BY <2>3, Zenon DEF rx_valid_ack_sn
<1>12. PICK ok : ok = (r.asserts /\ rx_valid_ack_sn(r, h)) /\ ok = TRUE
  BY <1>3, <1>11, Zenon
<1>13. PICK r1 : r1 = [r EXCEPT !.reassembly = FALSE, !.rx_highest_status = h, !.do_status = TRUE,
                                !.asserts = ok]
  OBVIOUS
<1>14. u = StartReassembly(r1, h)
  BY <1>1, <1>6, <1>12, <1>13, Zenon DEF reassembly_expired, HighestStatusAtExpiry
<1>15. /\ r1 \in RxRec(D) /\ r1.rx_next = R /\ r1.rx_highest_status = h /\ r1.rx_next_highest = N
       /\ r1.reassembly = FALSE
  BY <1>1, <1>2, <1>8, <1>12, <1>13, Zenon DEF RxRec
<1>16. RxOK(n, D, r1)
  BY <1>10, <1>15, Zenon DEF RxOK
<1>17. RxKept(n, D, r1, u)
  BY <1>8, <1>14, <1>16, StartKeeps, Zenon
<1> QED
  BY <1>1, <1>15, <1>17, Zenon DEF RxKept

-----------------------------------------------------------------------------
(* The status PDU.                                                         *)

\* A NACK of a whole SDU.
Missing == {Nack(s, FALSE, 0, so_end_of_sdu) : s \in SNs}

LEMMA MissingNack ==
  ASSUME NEW nack \in Missing
  PROVE  /\ nack \in Nacks /\ nack.sn \in SNs /\ nack.has_range = FALSE /\ nack.has_so = FALSE
         /\ nack.so_start <= nack.so_end
<1>1. PICK s \in SNs : nack = Nack(s, FALSE, 0, so_end_of_sdu)
  BY Zenon DEF Missing
<1>2. s \in Int
  BY DEF SNs
<1>3. nack.sn = s /\ nack.so_start = 0 /\ nack.so_end = 65535
  BY <1>1 DEF Nack, so_end_of_sdu
<1>4. nack \in Nacks
  BY <1>1, <1>2 DEF Nack, Nacks, so_end_of_sdu
<1>5. nack.has_so = FALSE
  BY <1>4, Zenon DEF Nacks
<1>6. nack.has_range = FALSE
  BY <1>1, Zenon DEF Nack
<1>7. nack.so_start <= nack.so_end /\ nack.sn \in SNs
  BY <1>3
<1> QED
  BY <1>4, <1>5, <1>6, <1>7, Zenon

\* What is reported: nothing when RX_Highest_Status is RX_Next, and else missing SDUs, the first of
\* them RX_Next.
Reported(R, q) == q \in Seq(Missing) /\ q # <<>> /\ q[1].sn = R

LEMMA AllNacksIs ==
  ASSUME NEW n \in SNs, NEW D, NEW r, RxOK(n, D, r), NEW q, q = AllNacks(r)
  PROVE  \/ q = <<>> /\ r.rx_highest_status = r.rx_next
         \/ Reported(r.rx_next, q)
<1>1. PICK R, H, N : R = r.rx_next /\ H = r.rx_highest_status /\ N = r.rx_next_highest
  OBVIOUS
<1>2. RxPos(n, D, R, H, N) /\ r.window = Stored(D)
  BY <1>1, RxFields, Zenon DEF RxOK
<1>3. R \in SNs /\ H \in SNs /\ ModBase(n, R) >= ModBase(n, H) /\ R \notin D
  <2>1. \A x \in SNs : ModBase(n, x) \in Nat
    BY Distance, Zenon
  <2> QED
    BY <1>2, <2>1 DEF RxPos
<1>4. PICK m : m = RxMod(r, H)
  OBVIOUS
<1>5. m \in Nat /\ m = ModBase(n, R) - ModBase(n, H)
  BY <1>1, <1>3, <1>4, RxDistance, Zenon
<1>6. ASSUME NEW s \in SNs
      PROVE  NacksOf(r, s) \in Seq(Missing) /\ (s \notin D => NacksOf(r, s) = <<Nack(s, FALSE, 0, so_end_of_sdu)>>)
  <2>1. (Complete(r, s) <=> s \in D) /\ (Has(r, s) <=> s \in D)
    BY <1>2, StoredIs, Zenon
  <2>2. CASE s \in D
    <3>1. NacksOf(r, s) = <<>>
      BY <2>1, <2>2, Zenon DEF NacksOf
    <3> QED
      BY <2>2, <3>1, NoItems, Zenon
  <2>3. CASE s \notin D
    <3>1. PICK x : x = Nack(s, FALSE, 0, so_end_of_sdu) /\ x \in Missing
      BY Zenon DEF Missing
    <3>2. NacksOf(r, s) = <<x>>
      BY <2>1, <2>3, <3>1, Zenon DEF NacksOf
    <3>4. x \in Missing
      BY <3>1, Zenon
    <3>3. <<x>> \in Seq(Missing)
      BY <3>4
    <3> QED
      BY <3>1, <3>2, <3>3, Zenon
  <2> QED
    BY <2>2, <2>3, Zenon
<1> DEFINE L == [i \in 1..m |-> NacksOf(r, (R + i - 1) % ModNr)]
<1>7. q = FlattenSeq(L)
  BY <1>1, <1>4, Zenon DEF AllNacks
<1>8. PICK S : S = Seq(Missing)
  OBVIOUS
<1>9. L \in Seq(S) /\ Len(L) = m
  <2>1. ASSUME NEW i \in 1..m PROVE NacksOf(r, (R + i - 1) % ModNr) \in S
    <3>1. PICK x : x = R + i - 1
      OBVIOUS
    <3>2. x \in Int
      BY <1>3, <3>1 DEF SNs
    <3>3. x % ModNr \in SNs
      BY <3>2, Reduce, Zenon
    <3> QED
      BY <1>6, <1>8, <3>1, <3>3, Zenon
  <2>2. L \in [1..m -> S]
    BY <2>1, Zenon
  <2> HIDE DEF L
  <2>3. L \in Seq(S)
    BY <1>5, <2>2, SeqIs, Zenon
  <2>4. Len(L) \in Nat /\ DOMAIN L = 1..Len(L) /\ DOMAIN L = 1..m
    BY <2>2, <2>3
  <2>5. Len(L) = m
    BY <1>5, <2>2, <2>3
  <2> QED
    BY <2>3, <2>5, Zenon
<1>10. CASE m = 0
  <2>1. L = <<>>
    BY <1>9, <1>10 
  <2>2. FlattenSeq(L) = L
    BY <1>9, <1>10, Zenon DEF FlattenSeq
  <2>3. ModBase(n, R) = ModBase(n, H)
    <3>1. ModBase(n, R) \in Nat /\ ModBase(n, H) \in Nat
      BY <1>3, Distance, Zenon
    <3> QED
      BY <1>5, <1>10, <3>1
  <2>4. R = H
    BY <1>3, <2>3, SameDistance, Zenon
  <2> QED
    BY <1>1, <1>7, <2>1, <2>2, <2>4, Zenon
<1>11. CASE m # 0
  <2>1. L[1] = <<Nack(R, FALSE, 0, so_end_of_sdu)>>
    <3>1. 1 \in 1..m
      BY <1>5, <1>11
    <3>2. R + 1 - 1 = R /\ R % ModNr = R
      <4>1. R + 1 - 1 = R /\ R \in Int /\ R \in 0..(ModNr - 1)
        BY <1>3, WindowIsHalf DEF SNs
      <4> QED
        BY <4>1, Reduce, Zenon
    <3> QED
      BY <1>3, <1>6, <3>1, <3>2, Zenon
  <2> HIDE DEF L
  <2>2. L \in Seq(Seq(Missing)) /\ Len(L) # 0
    BY <1>8, <1>9, <1>11, Zenon
  <2>3. PICK it : IsFlatten(L, it) /\ FlattenSeq(L) = it[Len(L)]
    BY <2>2, FlattenExists, Zenon
  <2>4. /\ it[1] = L[1] /\ it[1] \in Seq(Missing)
        /\ \A k \in 1..Len(L) : it[k] \in Seq(Missing) /\ (k # 1 => it[k] = it[k - 1] \o L[k])
    BY <2>2, <2>3, FlattenSteps, ZenonT(30)
  <2> DEFINE G == {k \in 0..m : k = 0 \/ (it[k] # <<>> /\ it[k][1].sn = R)}
  <2>5. 0 \in G
    BY <1>5
  <2>6. ASSUME NEW k \in 1..m, k - 1 \in G PROVE k \in G
    <3>1. k \in 0..m /\ k \in 1..Len(L)
      BY <1>5, <1>9
    <3>2. CASE k = 1
      <4>1. PICK x : x = Nack(R, FALSE, 0, so_end_of_sdu)
        BY Zenon
      <4>2. x.sn = R
        BY <4>1 DEF Nack
      <4>3. it[1] = <<x>>
        BY <2>1, <2>4, <4>1, Zenon
      <4>4. it[1] # <<>> /\ it[1][1] = x
        BY <4>3
      <4> QED
        BY <3>1, <3>2, <4>2, <4>4, Zenon
    <3>3. CASE k # 1
      <4>1. k - 1 \in 1..Len(L) /\ k - 1 # 0
        BY <1>5, <1>9, <3>3
      <4>2. PICK a, b : a = it[k - 1] /\ b = L[k]
        OBVIOUS
      <4>3. a \in Seq(Missing) /\ b \in Seq(Missing) /\ it[k] = a \o b
        <5>1. L[k] \in Seq(Missing)
          BY <2>2, <3>1, SeqItem, Zenon
        <5> QED
          BY <2>4, <3>1, <3>3, <4>1, <4>2, <5>1, Zenon
      <4>4. a # <<>> /\ a[1].sn = R
        BY <2>6, <4>1, <4>2, Zenon
      <4>5. a \o b # <<>> /\ (a \o b)[1] = a[1]
        BY <4>3, <4>4
      <4> QED
        BY <3>1, <4>3, <4>4, <4>5, Zenon
    <3> QED
      BY <3>2, <3>3, Zenon
  <2> HIDE DEF G
  <2>7. m \in G
    <3>1. m \in 0..m
      BY <1>5
    <3> QED
      BY <1>5, <2>5, <2>6, <3>1, UpTo, Zenon
  <2>8. m \in 1..Len(L) /\ m = Len(L)
    BY <1>5, <1>9, <1>11
  <2> QED
    BY <1>1, <1>7, <1>11, <2>3, <2>4, <2>7, <2>8, Zenon DEF G, Reported
<1> QED
  BY <1>10, <1>11, Zenon

\* One more NACK: the list is not empty and its first NACK keeps its SN.
PushedOne(q, nack, z) ==
  /\ z \in Seq(Nacks) /\ z # <<>>
  /\ q # <<>> => z[1].sn = q[1].sn
  /\ q = <<>> => z[1].sn = nack.sn

LEMMA PushOne ==
  ASSUME NEW q \in Seq(Nacks), NEW nack \in Missing, NEW z, z = push_nack(q, nack)
  PROVE  PushedOne(q, nack, z)
<1>1. nack \in Nacks /\ nack.has_range = FALSE /\ nack.has_so = FALSE
  BY MissingNack, Zenon
<1>2. CASE z = Append(q, nack)
  <2>1. z \in Seq(Nacks) /\ z # <<>> /\ (q # <<>> => z[1] = q[1]) /\ (q = <<>> => z[1] = nack)
    BY <1>1, <1>2
  <2> QED
    BY <2>1, Zenon DEF PushedOne
<1>3. CASE z # Append(q, nack)
  <2> DEFINE prev == Last(q)
  <2>1. /\ q # <<>>
        /\ z = Append(Front(q), [prev EXCEPT !.has_range = TRUE,
                                             !.range = (Width(prev) + Width(nack)) % RangeMod,
                                             !.has_so = @ \/ nack.has_so,
                                             !.so_start = IF prev.has_so THEN @ ELSE 0,
                                             !.so_end = IF nack.has_so THEN nack.so_end ELSE so_end_of_sdu])
    BY <1>3, Zenon DEF push_nack
  <2>2. PICK l : l = Len(q)
    OBVIOUS
  <2>3. l \in Nat /\ l >= 1 /\ l \in 1..l
    BY <2>1, <2>2
  <2>4. prev = q[l] /\ prev \in Nacks
    BY <2>2, <2>3, SeqItem, Zenon DEF Last
  <2> HIDE DEF prev
  <2>5. prev.has_so = FALSE /\ prev.range \in Nat
    BY <2>4, Zenon DEF Nacks
  <2>6. PICK w : w = (Width(prev) + Width(nack)) % RangeMod
    OBVIOUS
  <2>7. w \in Nat
    <3>1. Width(nack) = 1 /\ (Width(prev) = 1 \/ Width(prev) = prev.range)
      BY <1>1, Zenon DEF Width
    <3> QED
      BY <2>5, <2>6, <3>1 DEF RangeMod
  <2>8. PICK y : y = [prev EXCEPT !.has_range = TRUE, !.range = w, !.has_so = FALSE, !.so_start = 0, !.so_end = so_end_of_sdu]
    OBVIOUS
  <2>9. z = Append(Front(q), y)
    <3>1. (prev.has_so \/ nack.has_so) = FALSE
      BY <1>1, <2>5, Zenon
    <3>2. (IF prev.has_so THEN prev.so_start ELSE 0) = 0
      BY <2>5, Zenon
    <3>3. (IF nack.has_so THEN nack.so_end ELSE so_end_of_sdu) = so_end_of_sdu
      BY <1>1, Zenon
    <3> QED
      BY <2>1, <2>6, <2>8, <3>1, <3>2, <3>3, Zenon
  <2>10. y \in Nacks /\ y.sn = prev.sn
    <3>1. PICK B, f, e, C, g : B = {FALSE} /\ f = FALSE /\ f \in B /\ e = so_end_of_sdu
                              /\ C = BOOLEAN /\ g = TRUE
      BY Zenon
    <3>2. e \in Nat
      BY <3>1 DEF so_end_of_sdu
    <3>3. Nacks = [sn : Int, has_range : C, range : Nat, has_so : B, so_start : Nat, so_end : Nat]
      BY <3>1, Zenon DEF Nacks
    <3>4. y = [prev EXCEPT !.has_range = g, !.range = w, !.has_so = f, !.so_start = 0, !.so_end = e]
      BY <2>8, <3>1, Zenon
    <3>5. f \in B /\ g \in C
      BY <3>1, Zenon
    <3> QED
      BY <2>4, <2>7, <3>2, <3>3, <3>4, <3>5, Zenon
  <2>11. PICK f : f = Front(q)
    OBVIOUS
  <2>12. f \in Seq(Nacks) /\ Len(f) = l - 1 /\ (l # 1 => f[1] = q[1])
    BY <2>2, <2>3, <2>11 DEF Front
  <2>13. z \in Seq(Nacks) /\ z # <<>> /\ (l # 1 => z[1] = q[1]) /\ (l = 1 => z[1] = y)
    BY <2>3, <2>9, <2>10, <2>11, <2>12
  <2>14. z[1].sn = q[1].sn
    BY <2>4, <2>10, <2>13, Zenon
  <2> QED
    BY <2>1, <2>13, <2>14, Zenon DEF PushedOne
<1> QED
  BY <1>2, <1>3, Zenon

\* The list after all NACKs.
PushedAll(all, q) ==
  /\ q \in Seq(Nacks)
  /\ all = <<>> => q = <<>>
  /\ all # <<>> => q # <<>> /\ q[1].sn = all[1].sn

\* The NACKs merged into ranges still begin with the first one.
LEMMA PushAll ==
  ASSUME NEW all \in Seq(Missing), NEW z, z = FoldLeft(push_nack, <<>>, all)
  PROVE  PushedAll(all, z)
<1>1. PICK n, t, T : n = Len(all) /\ t = <<>> /\ T = Seq(Nacks)
  OBVIOUS
<1>2. n \in Nat /\ DOMAIN all = 1..n /\ (\A i \in 1..n : all[i] \in Missing) /\ (n = 0 <=> all = <<>>)
  BY <1>1
<1>3. t \in T
  BY <1>1, NoItems, Zenon
<1>4. \A v \in T : \A i \in 1..n : PushedOne(v, all[i], push_nack(v, all[i]))
  BY <1>1, <1>2, PushOne, Zenon
<1>5. \A v \in T : \A i \in 1..n : push_nack(v, all[i]) \in T
  BY <1>1, <1>4, Zenon DEF PushedOne
<1> DEFINE F == [i \in 1..n |-> [v \in T |-> push_nack(v, all[i])]]
<1>6. F \in [1..n -> [T -> T]] /\ \A i \in 1..n : \A v \in T : F[i][v] = push_nack(v, all[i])
  BY <1>5, Zenon
<1> HIDE DEF F
<1>7. PICK g : g \in [SUBSET (1..n) -> T] /\ IsFold(n, t, F, g)
  BY <1>2, <1>3, <1>6, FoldExists, Zenon
<1>8. ASSUME NEW s \in SUBSET (1..n)
      PROVE  g[s] = IF s = {} THEN t ELSE push_nack(g[s \ {Max(s)}], all[Max(s)])
  <2>1. CASE s = {}
    BY <1>7, <2>1, Zenon DEF IsFold
  <2>2. CASE s # {}
    <3>1. PICK m : m = Max(s)
      OBVIOUS
    <3>2. s \subseteq 0..n
      OBVIOUS
    <3>3. m \in s
      BY <1>2, <2>2, <3>1, <3>2, GreatestOf, Zenon
    <3>4. m \in 1..n /\ s \ {m} \in SUBSET (1..n)
      BY <3>3
    <3>5. F[m][g[s \ {m}]] = push_nack(g[s \ {m}], all[m])
      BY <1>6, <1>7, <3>4, Zenon
    <3> QED
      BY <1>7, <2>2, <3>1, <3>5, Zenon DEF IsFold
  <2> QED
    BY <2>1, <2>2, Zenon
<1>9. g = [s \in SUBSET DOMAIN all |-> IF s = {} THEN t ELSE push_nack(g[s \ {Max(s)}], all[Max(s)])]
  BY <1>2, <1>7, <1>8, Zenon
<1>10. PICK it : /\ it = [s \in SUBSET DOMAIN all |-> IF s = {} THEN t ELSE push_nack(it[s \ {Max(s)}], all[Max(s)])]
                 /\ FoldLeft(push_nack, t, all) = it[DOMAIN all]
  BY <1>9, Zenon DEF FoldLeft, MapThenFoldSet
<1> DEFINE First(k, q) == IF k = 0 THEN q = <<>> ELSE q # <<>> /\ q[1].sn = all[1].sn
           G == {k \in 0..n : it[1..k] \in T /\ First(k, it[1..k])}
<1>11. 0 \in G
  <2>1. it[{}] = t /\ 1..0 = {} /\ 0 \in 0..n
    BY <1>2, <1>10
  <2> QED
    BY <1>1, <1>3, <2>1, Zenon
<1>12. ASSUME NEW k \in 1..n, k - 1 \in G PROVE k \in G
  <2>1. Max(1..k) = k /\ (1..k) \ {k} = 1..(k - 1) /\ 1..k # {} /\ 1..k \in SUBSET (1..n)
    BY <1>2, FirstIndices, Zenon
  <2>2. it[1..k] = push_nack(it[1..(k - 1)], all[k])
    BY <1>2, <1>10, <2>1, Zenon
  <2>3. k \in 0..n /\ k # 0 /\ (k = 1 <=> k - 1 = 0)
    BY <1>2
  <2>4. PICK p : p = it[1..(k - 1)] /\ p \in T /\ First(k - 1, p)
    BY <1>12, Zenon
  <2>5. PushedOne(p, all[k], it[1..k])
    BY <1>4, <2>2, <2>4, Zenon
  <2>6. it[1..k] \in T /\ it[1..k] # <<>>
    BY <1>1, <2>5, Zenon DEF PushedOne
  <2>7. it[1..k][1].sn = all[1].sn
    <3>1. CASE k = 1
      BY <2>3, <2>4, <2>5, <3>1, Zenon DEF PushedOne
    <3>2. CASE k # 1
      BY <2>3, <2>4, <2>5, <3>2, Zenon DEF PushedOne
    <3> QED
      BY <3>1, <3>2, Zenon
  <2> QED
    BY <2>3, <2>6, <2>7, Zenon
<1> HIDE DEF G
<1>13. n \in G
  <2>1. n \in 0..n
    BY <1>2
  <2> QED
    BY <1>2, <1>11, <1>12, <2>1, UpTo, Zenon
<1>14. z = it[1..n]
  BY <1>1, <1>2, <1>10, Zenon
<1> QED
  BY <1>1, <1>2, <1>13, <1>14, Zenon DEF G, PushedAll

\* A report of a receiver with R as RX_Next: it acknowledges up to there.
StatusPdus == [ack_sn : Int, nacks : Seq(Nacks)]
Reports(R, st) == st \in StatusPdus /\ StopSN(st) = R

\* Trimming takes NACKs from the back and puts ACK_SN in front of them.
LEMMA TrimKeeps ==
  ASSUME NEW R \in SNs, NEW H \in SNs, NEW q \in Seq(Nacks), q = <<>> => H = R, q # <<>> => q[1].sn = R,
         NEW status, status = [ack_sn |-> H, nacks |-> q], NEW max_len, NEW st, st = trim(status, max_len)
  PROVE  Reports(R, st)
<1>1. status.nacks = q /\ status.ack_sn = H
  OBVIOUS
<1>4. SNs \subseteq Int
  BY DEF SNs
<1>2. CASE st = status
  <2>1. status \in StatusPdus
    BY <1>4 DEF StatusPdus
  <2> QED
    BY <1>1, <1>2, <2>1, Zenon DEF Reports, StopSN
<1>3. CASE st # status
  <2> DEFINE Ack(k) == IF k = Len(q) THEN H ELSE q[k + 1].sn
             Fits(k) == /\ packed_size(SubSeq(q, 1, k)) <= max_len
                        /\ k > 0 => q[k].sn # Ack(k)
             S == {m \in 0..Len(q) : Fits(m) \/ m = 0}
  <2>1. st = [ack_sn |-> Ack(Max(S)), nacks |-> SubSeq(q, 1, Max(S))]
    BY <1>1, <1>3, Zenon DEF trim
  <2>2. Len(q) \in Nat /\ 0 \in 0..Len(q) /\ (Len(q) = 0 <=> q = <<>>)
    OBVIOUS
  <2> HIDE DEF Fits, Ack
  <2>3. S \subseteq 0..Len(q) /\ S # {}
    BY <2>2, Zenon
  <2> HIDE DEF S
  <2>4. PICK k : k = Max(S)
    OBVIOUS
  <2>5. k \in 0..Len(q)
    BY <2>2, <2>3, <2>4, GreatestOf, Zenon
  <2>6. PICK z : z = SubSeq(q, 1, k)
    BY Zenon
  <2>7. z \in Seq(Nacks) /\ (k = 0 => z = <<>>) /\ (k # 0 => z # <<>> /\ z[1] = q[1] /\ q # <<>>)
    BY <2>5, <2>6
  <2>8. st.nacks = z /\ st.ack_sn = Ack(k)
    BY <2>1, <2>4, <2>6
  <2>11. ASSUME Ack(k) \in Int PROVE st \in StatusPdus
    <3>1. PICK c, Z : c = Ack(k) /\ Z = Seq(Nacks)
      OBVIOUS
    <3>2. st = [ack_sn |-> c, nacks |-> z] /\ c \in Int /\ z \in Z
      BY <2>1, <2>4, <2>6, <2>7, <2>11, <3>1, Zenon
    <3>3. st \in [ack_sn : Int, nacks : Z]
      BY <3>2
    <3> QED
      BY <3>1, <3>3, Zenon DEF StatusPdus
  <2>9. CASE k = 0
    <3>1. Ack(k) = R
      <4>1. CASE q = <<>>
        BY <2>2, <2>9, <4>1, Zenon DEF Ack
      <4>2. CASE q # <<>>
        <5>1. k # Len(q) /\ k + 1 = 1
          BY <2>2, <2>9, <4>2
        <5> QED
          BY <4>2, <5>1, Zenon DEF Ack
      <4> QED
        BY <4>1, <4>2, Zenon
    <3>2. st \in StatusPdus
      BY <1>4, <2>11, <3>1, Zenon
    <3> QED
      BY <2>7, <2>8, <2>9, <3>1, <3>2, Zenon DEF Reports, StopSN
  <2>10. CASE k # 0
    <3>1. Ack(k) \in Int
      <4>1. CASE k = Len(q)
        BY <1>4, <4>1, Zenon DEF Ack
      <4>2. CASE k # Len(q)
        <5>1. k + 1 \in 1..Len(q)
          BY <2>2, <2>5, <4>2
        <5>2. q[k + 1] \in Nacks
          BY <5>1, SeqItem, Zenon
        <5>3. q[k + 1].sn \in Int
          BY <5>2, Zenon DEF Nacks
        <5> QED
          BY <4>2, <5>3, Zenon DEF Ack
      <4> QED
        BY <4>1, <4>2, Zenon
    <3>2. st \in StatusPdus
      BY <2>11, <3>1, Zenon
    <3> QED
      BY <2>7, <2>8, <2>10, <3>2, Zenon DEF Reports, StopSN
  <2> QED
    BY <2>9, <2>10, Zenon
<1> QED
  BY <1>2, <1>3, Zenon

\* A status PDU acknowledges up to RX_Next, whatever the grant, and its NACKs are well formed.
LEMMA StatusIs ==
  ASSUME NEW n \in SNs, NEW D, NEW r, RxOK(n, D, r), NEW g, NEW st, st = get_status_pdu(r, g)
  PROVE  /\ Reports(r.rx_next, st)
         /\ \A nack \in Range(AllNacks(r)) : nack.so_start <= nack.so_end
<1>1. PICK all : all = AllNacks(r)
  OBVIOUS
<1>2. \/ all = <<>> /\ r.rx_highest_status = r.rx_next
      \/ Reported(r.rx_next, all)
  BY <1>1, AllNacksIs, Zenon
<1>3. all \in Seq(Missing) /\ (all = <<>> => r.rx_highest_status = r.rx_next) /\ (all # <<>> => all[1].sn = r.rx_next)
  BY <1>2, NoItems, Zenon DEF Reported
<1>4. PICK q : q = FoldLeft(push_nack, <<>>, all)
  OBVIOUS
<1>5. PushedAll(all, q)
  BY <1>3, <1>4, PushAll, Zenon
<1>6. q \in Seq(Nacks) /\ (q = <<>> => r.rx_highest_status = r.rx_next) /\ (q # <<>> => q[1].sn = r.rx_next)
  BY <1>3, <1>5, Zenon DEF PushedAll
<1>7. PICK status : status = [ack_sn |-> r.rx_highest_status, nacks |-> q]
  BY Zenon
<1>8. st = trim(status, g)
  BY <1>1, <1>4, <1>7, Zenon DEF get_status_pdu
<1>9. Reports(r.rx_next, st)
  <2>1. r.rx_next \in SNs /\ r.rx_highest_status \in SNs
    BY RxFields, Zenon DEF RxOK
  <2> QED
    BY <1>6, <1>7, <1>8, <2>1, TrimKeeps, Zenon
<1>10. ASSUME NEW nack \in Range(all) PROVE nack.so_start <= nack.so_end
  <2>1. PICK i \in DOMAIN all : nack = all[i]
    BY Zenon DEF Range
  <2>2. DOMAIN all = 1..Len(all)
    BY <1>3
  <2>3. nack \in Missing
    BY <1>3, <2>1, <2>2, SeqItem, Zenon
  <2> QED
    BY <2>3, MissingNack, Zenon
<1> QED
  BY <1>1, <1>9, <1>10, Zenon
=============================================================================
