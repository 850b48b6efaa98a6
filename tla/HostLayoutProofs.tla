----------------------------- MODULE HostLayoutProofs -----------------------------
(***************************************************************************)
(* Proofs about HostLayout, for any options and any budget: the layout     *)
(* that is counted is the layout that is assigned, the address cache lies  *)
(* where the device looks for it, the backend's table gets all there is,   *)
(* and the constructor gives up only where no table would fit or a number  *)
(* outgrows an int.                                                        *)
(***************************************************************************)
EXTENDS HostLayout, FiniteSetTheorems, TLAPS

-------------------------------------------------------------------------------
\* Numbers

\* Every set of naturals that is not empty has a least member.
LEMMA LeastNumber ==
  ASSUME NEW T \in SUBSET Nat, T # {}
  PROVE  \E m \in T : \A n \in T : m <= n
<1> DEFINE below == {0 .. t : t \in T}
<1>1. below \subseteq FiniteSubsetsOf(Nat)
  <2>1. ASSUME NEW t \in T PROVE 0 .. t \in SUBSET Nat /\ IsFiniteSet(0 .. t)
    BY FS_Interval
  <2> QED BY <2>1 DEF FiniteSubsetsOf
<1>2. below # {}
  OBVIOUS
<1>3. PICK x \in below : \A y \in below : ~(<<y, x>> \in StrictSubsetOrdering(Nat))
  <2>1. IsWellFoundedOn(StrictSubsetOrdering(Nat), FiniteSubsetsOf(Nat))
    BY FS_StrictSubsetOrderingWellFounded
  <2> HIDE DEF below
  <2> QED BY <1>1, <1>2, <2>1, WFMin, Zenon
<1>4. PICK m \in T : x = 0 .. m
  OBVIOUS
<1>5. ASSUME NEW n \in T PROVE m <= n
  <2>1. SUFFICES ASSUME n < m PROVE FALSE
    OBVIOUS
  <2>2. 0 .. n \subseteq 0 .. m /\ 0 .. n # 0 .. m /\ 0 .. n \in SUBSET Nat /\ 0 .. m \in SUBSET Nat
    <3>1. m \in 0 .. m /\ m \notin 0 .. n
      BY <2>1
    <3> QED BY <2>1, <3>1
  <2>3. <<0 .. n, 0 .. m>> \in StrictSubsetOrdering(Nat)
    BY <2>2 DEF StrictSubsetOrdering
  <2>4. 0 .. n \in below
    OBVIOUS
  <2> HIDE DEF below
  <2> QED BY <1>3, <1>4, <2>3, <2>4
<1> QED BY <1>5

LEMMA Induction ==
  ASSUME NEW T, 0 \in T, \A n \in Nat : n \in T => n + 1 \in T
  PROVE  Nat \subseteq T
<1>1. SUFFICES ASSUME ~(Nat \subseteq T) PROVE FALSE
  OBVIOUS
<1>2. PICK m \in Nat \ T : \A n \in Nat \ T : m <= n
  BY <1>1, LeastNumber
<1>3. m - 1 \in Nat /\ m - 1 \in T
  BY <1>2
<1> QED BY <1>2, <1>3

LEMMA Division ==
  ASSUME NEW m \in Nat, m > 0, NEW a \in Nat
  PROVE  /\ a % m \in 0 .. m - 1 /\ a \div m \in Int
         /\ a = m * (a \div m) + (a % m)
OBVIOUS

LEMMA Quotient ==
  ASSUME NEW m \in Nat, m > 0, NEW a \in Nat
  PROVE  a \div m \in Nat
<1>1. SUFFICES ASSUME a \div m + 1 <= 0 PROVE FALSE
  BY Division
<1> DEFINE q == a \div m
           r == a % m
<1>2. q \in Int /\ r \in 0 .. m - 1 /\ a = m * q + r /\ q + 1 <= 0
  BY <1>1, Division
<1> HIDE DEF q, r
<1>3. m * (q + 1) <= 0 /\ m * (q + 1) = m * q + m /\ m * q \in Int
  BY <1>2
<1> QED BY <1>2, <1>3

LEMMA Multiple ==
  ASSUME NEW m \in Nat, m > 0, NEW q \in Nat
  PROVE  (m * q) % m = 0
<1>1. (m * q + 0) % m = 0
  BY ONLY m \in Nat, m > 0, q \in Nat
<1>2. m * q \in Nat /\ m * q + 0 = m * q
  OBVIOUS
<1> QED BY <1>1, <1>2

\* The double of a power of two is one.
LEMMA Doubling ==
  ASSUME NEW p \in Nat, IsPowerOfTwo(p)
  PROVE  IsPowerOfTwo(2 * p)
<1>1. p > 0 /\ \A d \in 2 .. p : p % d = 0 => d % 2 = 0
  BY DEF IsPowerOfTwo
<1>2. ASSUME NEW d \in 2 .. 2 * p, (2 * p) % d = 0, d % 2 # 0 PROVE FALSE
  <2> DEFINE q == (2 * p) \div d
             h == d \div 2
             k == q \div 2
  <2>1. d \in Nat /\ d > 0 /\ 2 * p \in Nat
    OBVIOUS
  <2>2. q \in Nat /\ 2 * p = d * q
    BY <1>2, <2>1, Division, Quotient
  <2> HIDE DEF q
  <2>3. h \in Nat /\ d = 2 * h + 1
    BY <1>2, <2>1
  <2> HIDE DEF h
  <2>4. k \in Nat /\ (q = 2 * k \/ q = 2 * k + 1)
    BY <2>2
  <2> HIDE DEF k
  <2>5. CASE q = 2 * k + 1
    <3>1. (2 * h + 1) * (2 * k + 1) = 2 * (2 * (h * k) + h + k) + 1 /\ h * k \in Nat
      BY <2>3, <2>4
    <3> QED BY <2>2, <2>3, <2>4, <2>5, <3>1
  <2>6. CASE q = 2 * k
    <3>1. d * (2 * k) = 2 * (d * k) /\ d * k \in Nat
      BY <2>1, <2>4
    <3>2. p = d * k
      BY <2>2, <2>6, <3>1
    <3>3. p % d = 0
      BY <2>1, <2>4, <3>2, Multiple
    <3>4. k # 0
      BY <1>1, <3>2
    <3>5. d * k >= d
      BY <2>1, <2>4, <3>4
    <3>6. d \in 2 .. p
      BY <3>2, <3>5
    <3> QED BY <1>1, <1>2, <3>3, <3>6
  <2> QED BY <2>4, <2>5, <2>6
<1>3. 2 * p > 0
  BY <1>1
<1> QED BY <1>2, <1>3 DEF IsPowerOfTwo

\* ceil_power_of_two finds what it looks for.
LEMMA CeilPowerOfTwoIs ==
  ASSUME NEW n \in Nat \ {0}
  PROVE  CeilPowerOfTwo(n) \in n .. 2 * n - 1 /\ IsPowerOfTwo(CeilPowerOfTwo(n))
<1> DEFINE Q(m) == \E p \in m + 1 .. 2 * m + 1 : IsPowerOfTwo(p)
           T == {m \in Nat : Q(m)}
<1>1. 0 \in T
  <2>1. IsPowerOfTwo(1)
    BY DEF IsPowerOfTwo
  <2> QED BY <2>1
<1>2. ASSUME NEW m \in Nat, m \in T PROVE m + 1 \in T
  <2>1. PICK p \in m + 1 .. 2 * m + 1 : IsPowerOfTwo(p)
    BY <1>2
  <2>2. CASE p >= m + 2
    BY <2>1, <2>2
  <2>3. CASE p = m + 1
    <3>1. IsPowerOfTwo(2 * p) /\ 2 * p \in (m + 1) + 1 .. 2 * (m + 1) + 1
      BY <2>1, <2>3, Doubling
    <3> QED BY <3>1
  <2> QED BY <2>2, <2>3
<1> HIDE DEF T
<1>3. Nat \subseteq T
  BY <1>1, <1>2, Induction
<1>4. n - 1 \in T
  BY <1>3
<1>5. \E p \in n .. 2 * n - 1 : IsPowerOfTwo(p)
  <2>1. (n - 1) + 1 = n /\ 2 * (n - 1) + 1 = 2 * n - 1
    OBVIOUS
  <2> QED BY <1>4, <2>1 DEF T
<1> QED BY <1>5 DEF CeilPowerOfTwo

-------------------------------------------------------------------------------
\* Slices

\* Offsets are rounded up to the next multiple; a multiple stays.
LEMMA Aligned ==
  ASSUME NEW o \in Nat, NEW m \in {4, 8}
  PROVE  /\ AlignUp(o, m) \in Nat /\ AlignUp(o, m) >= o /\ AlignUp(o, m) % m = 0
         /\ o % m = 0 => AlignUp(o, m) = o
<1>1. CASE m = 4
  BY <1>1 DEF AlignUp
<1>2. CASE m = 8
  BY <1>2 DEF AlignUp
<1> QED BY <1>1, <1>2

LEMMA AlignedNext ==
  ASSUME NEW o \in Nat
  PROVE  AlignUp(o, 8) <= o + 8
BY DEF AlignUp

Types == {Diagnostic, SubgroupState, Word32, AtomicObject, AtomicAddressCache, Word64}

\* A slice ends no earlier than the one before it.
LEMMA SliceGrows ==
  ASSUME NEW o \in Nat, NEW n \in Nat, NEW t \in Types
  PROVE  SliceEnd(o, n, t) \in Nat /\ SliceEnd(o, n, t) >= o
<1>1. t.align \in {4, 8} /\ t.size \in Nat
  BY DEF Types, Diagnostic, SubgroupState, Word32, AtomicObject, AtomicAddressCache, Word64
<1>2. n * t.size \in Nat
  BY <1>1
<1> QED BY <1>1, <1>2, Aligned DEF SliceEnd

\* The recursion of Ends has a solution, whatever the slices.
LEMMA EndsWalk ==
  ASSUME NEW s, Len(s) \in Nat
  PROVE  /\ Ends(s)[0] = 0
         /\ \A i \in 1 .. Len(s) : Ends(s)[i] = SliceEnd(Ends(s)[i - 1], s[i].n, s[i].t)
<1> DEFINE After(o, i) == SliceEnd(o, s[i].n, s[i].t)
           Walk(m, f) == f = [i \in 0 .. m |-> IF i = 0 THEN 0 ELSE After(f[i - 1], i)]
           T == {m \in Nat : \E f : Walk(m, f)}
<1>1. 0 \in T
  <2>1. Walk(0, [i \in 0 .. 0 |-> 0])
    <3> HIDE DEF After
    <3> QED OBVIOUS
  <2> HIDE DEF Walk
  <2> QED BY <2>1
<1>2. ASSUME NEW m \in Nat, m \in T PROVE m + 1 \in T
  <2>1. PICK f : Walk(m, f)
    BY <1>2
  <2> DEFINE g == [i \in 0 .. m + 1 |-> IF i = 0 THEN 0 ELSE After(f[i - 1], i)]
  <2> HIDE DEF After
  <2>2. \A j \in 0 .. m : g[j] = f[j]
    <3>1. ASSUME NEW j \in 0 .. m PROVE g[j] = f[j]
      <4>1. j \in 0 .. m + 1
        OBVIOUS
      <4>2. f[j] = IF j = 0 THEN 0 ELSE After(f[j - 1], j)
        BY <2>1
      <4> QED BY <4>1, <4>2
    <3> QED BY <3>1
  <2>3. \A i \in 0 .. m + 1 : i # 0 => f[i - 1] = g[i - 1]
    <3>1. ASSUME NEW i \in 0 .. m + 1, i # 0 PROVE f[i - 1] = g[i - 1]
      <4>1. i - 1 \in 0 .. m
        BY <3>1
      <4> HIDE DEF g
      <4> QED BY <2>2, <4>1
    <3> QED BY <3>1
  <2>4. Walk(m + 1, g)
    <3>1. \A i \in 0 .. m + 1 : (IF i = 0 THEN 0 ELSE After(f[i - 1], i))
                                = (IF i = 0 THEN 0 ELSE After(g[i - 1], i))
      <4> HIDE DEF g
      <4> QED BY <2>3
    <3>2. g = [i \in 0 .. m + 1 |-> IF i = 0 THEN 0 ELSE After(f[i - 1], i)]
      OBVIOUS
    <3> HIDE DEF g
    <3> QED BY <3>1, <3>2, Zenon
  <2> HIDE DEF g, Walk
  <2> QED BY <2>4
<1> HIDE DEF T
<1>3. Len(s) \in T
  BY <1>1, <1>2, Induction
<1>4. PICK f : f = [i \in 0 .. Len(s) |-> IF i = 0 THEN 0 ELSE SliceEnd(f[i - 1], s[i].n, s[i].t)]
  BY <1>3 DEF T
<1>5. Ends(s) = [i \in 0 .. Len(s) |-> IF i = 0 THEN 0
                                       ELSE SliceEnd(Ends(s)[i - 1], s[i].n, s[i].t)]
  BY <1>4 DEF Ends
<1> DEFINE e == Ends(s)
<1>6. e = [i \in 0 .. Len(s) |-> IF i = 0 THEN 0 ELSE SliceEnd(e[i - 1], s[i].n, s[i].t)]
  BY <1>5
<1> HIDE DEF e
<1>7. e[0] = 0
  BY <1>6
<1>8. ASSUME NEW i \in 1 .. Len(s) PROVE e[i] = SliceEnd(e[i - 1], s[i].n, s[i].t)
  <2>1. i \in 0 .. Len(s) /\ i # 0
    OBVIOUS
  <2> QED BY <1>6, <2>1
<1> QED BY <1>7, <1>8 DEF e

Caps == [diagnostic : Nat, subgroup : Nat, atomic : Nat, exact : Nat, sampled : Nat]

\* Where the subgroups' epochs, the atomic-object table and everything before
\* the tables of the backends end
Front(c) == SliceEnd(SliceEnd(0, c.diagnostic, Diagnostic), c.subgroup, SubgroupState)
Table(c) == SliceEnd(SliceEnd(Front(c), 2, Word32), c.atomic, AtomicObject)
Base(c) == SliceEnd(SliceEnd(Table(c), c.atomic, AtomicAddressCache),
                    c.subgroup * c.subgroup, Word32)

LEMMA HeadGrows ==
  ASSUME NEW c \in Caps
  PROVE  Front(c) \in Nat /\ Table(c) \in Nat /\ Base(c) \in Nat
<1>1. {c.diagnostic, c.subgroup, c.atomic} \subseteq Nat /\ c.subgroup * c.subgroup \in Nat
  BY DEF Caps
<1>2. {Diagnostic, SubgroupState, Word32, AtomicObject, AtomicAddressCache} \subseteq Types
  BY DEF Types
<1>3. SliceEnd(0, c.diagnostic, Diagnostic) \in Nat
  BY <1>1, <1>2, SliceGrows
<1>4. Front(c) \in Nat
  BY <1>1, <1>2, <1>3, SliceGrows DEF Front
<1>5. SliceEnd(Front(c), 2, Word32) \in Nat
  BY <1>2, <1>4, SliceGrows
<1>6. Table(c) \in Nat
  BY <1>1, <1>2, <1>5, SliceGrows DEF Table
<1>7. SliceEnd(Table(c), c.atomic, AtomicAddressCache) \in Nat
  BY <1>1, <1>2, <1>6, SliceGrows
<1> QED BY <1>1, <1>2, <1>4, <1>6, <1>7, SliceGrows DEF Base

LEMMA CountedWalk ==
  ASSUME NEW c \in Caps
  PROVE  LayoutByteCount(c) = SliceEnd(SliceEnd(Base(c), c.exact, Word64), c.sampled, Word64)
<1> DEFINE s == CountedSlices(c)
           e == Ends(s)
<1>1. /\ Len(s) = 8
      /\ s[1] = Of(c.diagnostic, Diagnostic) /\ s[2] = Of(c.subgroup, SubgroupState)
      /\ s[3] = Of(2, Word32) /\ s[4] = Of(c.atomic, AtomicObject)
      /\ s[5] = Of(c.atomic, AtomicAddressCache)
      /\ s[6] = Of(c.subgroup * c.subgroup, Word32)
      /\ s[7] = Of(c.exact, Word64) /\ s[8] = Of(c.sampled, Word64)
  BY DEF CountedSlices
<1>2. \A n, t : Of(n, t).n = n /\ Of(n, t).t = t
  BY DEF Of
<1> HIDE DEF s
<1>3. e[0] = 0 /\ \A i \in 1 .. 8 : e[i] = SliceEnd(e[i - 1], s[i].n, s[i].t)
  <2>1. Len(s) \in Nat /\ Len(s) = 8
    BY <1>1
  <2>2. e[0] = 0 /\ \A i \in 1 .. Len(s) : e[i] = SliceEnd(e[i - 1], s[i].n, s[i].t)
    BY <2>1, EndsWalk, Zenon
  <2> QED BY <2>1, <2>2
<1> HIDE DEF e
<1>4. /\ e[1] = SliceEnd(0, c.diagnostic, Diagnostic)
      /\ e[2] = SliceEnd(e[1], c.subgroup, SubgroupState)
      /\ e[3] = SliceEnd(e[2], 2, Word32)
      /\ e[4] = SliceEnd(e[3], c.atomic, AtomicObject)
      /\ e[5] = SliceEnd(e[4], c.atomic, AtomicAddressCache)
      /\ e[6] = SliceEnd(e[5], c.subgroup * c.subgroup, Word32)
      /\ e[7] = SliceEnd(e[6], c.exact, Word64)
      /\ e[8] = SliceEnd(e[7], c.sampled, Word64)
  BY <1>1, <1>2, <1>3
<1> QED BY <1>4 DEF Base, Table, Front, LayoutByteCount, e, s

\* The two counters have the same place whether they are counted as one slice
\* or assigned as two, so the two walks meet again behind them.
LEMMA CountersMeet ==
  ASSUME NEW o \in Nat
  PROVE  SliceEnd(SliceEnd(o, 1, Word32), 1, Word32) = SliceEnd(o, 2, Word32)
BY DEF SliceEnd, Word32, AlignUp

LEMMA AssignedWalk ==
  ASSUME NEW c \in Caps
  PROVE  LET s == AssignedSlices(c)
             e == Ends(s)
         IN  /\ Len(s) = 9 /\ DOMAIN s = 1 .. 9
             /\ e[0] = 0 /\ \A i \in 1 .. 9 : e[i] = SliceEnd(e[i - 1], s[i].n, s[i].t)
             /\ \A i \in 1 .. 9 : s[i].n \in Nat /\ s[i].t \in Types
             /\ \A i \in 1 .. 9 : s[i].t = AtomicAddressCache <=> i = 6
             /\ s[5] = Of(c.atomic, AtomicObject)
             /\ s[6] = Of(c.atomic, AtomicAddressCache)
             /\ e[4] = SliceEnd(Front(c), 2, Word32)
             /\ e[9] = LayoutByteCount(c)
<1> DEFINE s == AssignedSlices(c)
           e == Ends(s)
<1>1. /\ Len(s) = 9 /\ DOMAIN s = 1 .. 9
      /\ s[1] = Of(c.diagnostic, Diagnostic) /\ s[2] = Of(c.subgroup, SubgroupState)
      /\ s[3] = Of(1, Word32) /\ s[4] = Of(1, Word32)
      /\ s[5] = Of(c.atomic, AtomicObject)
      /\ s[6] = Of(c.atomic, AtomicAddressCache)
      /\ s[7] = Of(c.subgroup * c.subgroup, Word32)
      /\ s[8] = Of(c.exact, Word64) /\ s[9] = Of(c.sampled, Word64)
  BY DEF AssignedSlices
<1>2. \A n, t : Of(n, t).n = n /\ Of(n, t).t = t
  BY DEF Of
<1> HIDE DEF s
<1>3. e[0] = 0 /\ \A i \in 1 .. 9 : e[i] = SliceEnd(e[i - 1], s[i].n, s[i].t)
  <2>1. Len(s) \in Nat /\ Len(s) = 9
    BY <1>1
  <2>2. e[0] = 0 /\ \A i \in 1 .. Len(s) : e[i] = SliceEnd(e[i - 1], s[i].n, s[i].t)
    BY <2>1, EndsWalk, Zenon
  <2> QED BY <2>1, <2>2
<1> HIDE DEF e
<1>4. /\ e[1] = SliceEnd(0, c.diagnostic, Diagnostic)
      /\ e[2] = SliceEnd(e[1], c.subgroup, SubgroupState)
      /\ e[3] = SliceEnd(e[2], 1, Word32)
      /\ e[4] = SliceEnd(e[3], 1, Word32)
      /\ e[5] = SliceEnd(e[4], c.atomic, AtomicObject)
      /\ e[6] = SliceEnd(e[5], c.atomic, AtomicAddressCache)
      /\ e[7] = SliceEnd(e[6], c.subgroup * c.subgroup, Word32)
      /\ e[8] = SliceEnd(e[7], c.exact, Word64)
      /\ e[9] = SliceEnd(e[8], c.sampled, Word64)
  BY <1>1, <1>2, <1>3
<1>5. e[2] = Front(c) /\ e[2] \in Nat
  BY <1>4, HeadGrows DEF Front
<1>6. e[4] = SliceEnd(Front(c), 2, Word32)
  BY <1>4, <1>5, CountersMeet
<1>7. e[9] = LayoutByteCount(c)
  BY <1>4, <1>6, CountedWalk DEF Base, Table
<1>8. {c.diagnostic, c.subgroup, c.atomic, c.exact, c.sampled} \subseteq Nat
      /\ c.subgroup * c.subgroup \in Nat
  BY DEF Caps
<1>9. \A i \in 1 .. 9 : s[i].n \in Nat /\ s[i].t \in Types
  BY <1>1, <1>2, <1>8 DEF Types
<1>10. \A t \in {Diagnostic, SubgroupState, Word32, AtomicObject, Word64} : t # AtomicAddressCache
  <2>1. \A t \in {Diagnostic, SubgroupState, Word32, AtomicObject, Word64} : t.size # 24
    BY DEF Diagnostic, SubgroupState, Word32, AtomicObject, Word64
  <2>2. AtomicAddressCache.size = 24
    BY DEF AtomicAddressCache
  <2> QED BY <2>1, <2>2
<1>11. \A i \in 1 .. 9 : s[i].t = AtomicAddressCache <=> i = 6
  BY <1>1, <1>2, <1>10
<1> QED BY <1>1, <1>3, <1>6, <1>7, <1>9, <1>11 DEF e, s

\* Byte counts of a record's two backend tables: one alignment margin, then
\* eight bytes for every cell or watchpoint.
LEMMA LayoutBytes ==
  ASSUME NEW c \in Caps
  PROVE  LayoutByteCount(c) = IF c.exact + c.sampled = 0 THEN Base(c)
                              ELSE AlignUp(Base(c), 8) + 8 * (c.exact + c.sampled)
<1> DEFINE b == Base(c)
           n == c.exact
           k == c.sampled
<1>1. b \in Nat /\ n \in Nat /\ k \in Nat
  BY HeadGrows DEF Caps
<1>2. LayoutByteCount(c) = SliceEnd(SliceEnd(b, n, Word64), k, Word64)
  BY CountedWalk
<1> HIDE DEF b, n, k
<1>3. \A o \in Nat, m \in Nat : SliceEnd(o, m, Word64) = IF m = 0 THEN o ELSE AlignUp(o, 8) + 8 * m
  BY DEF SliceEnd, Word64
<1>4. AlignUp(b, 8) \in Nat /\ AlignUp(b, 8) % 8 = 0
  BY <1>1, Aligned
<1>5. AlignUp(b, 8) + 8 * n \in Nat /\ (AlignUp(b, 8) + 8 * n) % 8 = 0
  BY <1>1, <1>4
<1>6. AlignUp(AlignUp(b, 8) + 8 * n, 8) = AlignUp(b, 8) + 8 * n
  BY <1>5, Aligned
<1>7. CASE n = 0
  BY <1>1, <1>2, <1>3, <1>7 DEF n, k, b
<1>8. CASE n # 0
  <2> DEFINE a == AlignUp(b, 8) + 8 * n
  <2>1. SliceEnd(b, n, Word64) = a
    BY <1>1, <1>3, <1>8
  <2>2. SliceEnd(a, k, Word64) = IF k = 0 THEN a ELSE a + 8 * k
    BY <1>1, <1>3, <1>5, <1>6
  <2>3. SliceEnd(a, k, Word64) = AlignUp(b, 8) + 8 * (n + k) /\ n + k # 0
    <3>1. n + k # 0
      BY <1>1, <1>8
    <3>2. \A u \in Nat : u + 8 * n + 8 * k = u + 8 * (n + k) /\ u + 8 * n + 8 * 0 = u + 8 * n
      BY <1>1
    <3>3. a = AlignUp(b, 8) + 8 * n
      OBVIOUS
    <3>4. (IF k = 0 THEN a ELSE a + 8 * k) = a + 8 * k
      BY <1>5
    <3> HIDE DEF a
    <3> QED BY <1>4, <2>2, <3>1, <3>2, <3>3, <3>4
  <2>4. LayoutByteCount(c) = IF n + k = 0 THEN b ELSE AlignUp(b, 8) + 8 * (n + k)
    BY <1>2, <2>1, <2>3, Zenon
  <2> QED BY <2>4, Zenon DEF n, k, b
<1> QED BY <1>7, <1>8

LEMMA BytesAreNumbers ==
  ASSUME NEW c \in Caps
  PROVE  LayoutByteCount(c) \in Nat
<1>1. c.exact + c.sampled \in Nat /\ Base(c) \in Nat
  BY HeadGrows DEF Caps
<1>2. AlignUp(Base(c), 8) \in Nat
  BY <1>1, Aligned
<1> QED BY <1>1, <1>2, LayoutBytes

-------------------------------------------------------------------------------
\* Capacities

OptionsOK == options \in Options /\ IsValid(options)

LEMMA OptionFields ==
  ASSUME options \in Options
  PROVE  /\ options.bytes \in Nat
         /\ options.exact \in Int /\ options.sampled \in Int
         /\ options.diagnostic \in Int /\ options.subgroup \in Int
BY LayoutAssumption

LEMMA AutoRecordsSome ==
  ASSUME options \in Options, NEW size \in {32, 64}
  PROVE  AutoRecords(size) \in Nat \ {0}
<1> DEFINE share == options.bytes \div AutoDivisor
           least == IF share < size THEN size ELSE share
           bytes == IF least > MaxAutoBytes THEN MaxAutoBytes ELSE least
<1>1. share \in Nat
  BY OptionFields, LayoutAssumption, Quotient
<1> HIDE DEF share
<1>2. bytes \in Nat
  BY <1>1, LayoutAssumption
<1> HIDE DEF bytes
<1>3. size \in Nat /\ size > 0
  OBVIOUS
<1>4. bytes \div size \in Nat
  BY <1>2, <1>3, Quotient
<1>5. AutoRecords(size) = IF bytes \div size = 0 THEN 1 ELSE bytes \div size
  BY DEF AutoRecords, bytes, share
<1> QED BY <1>4, <1>5

LEMMA FixedCapacities ==
  ASSUME OptionsOK
  PROVE  /\ FixedCap \in Caps
         /\ FixedCap.diagnostic > 0
         /\ IsPowerOfTwo(FixedCap.atomic)
         /\ FixedCap.exact = (IF IsAuto(options.exact) THEN 0 ELSE options.exact)
         /\ FixedCap.sampled = (IF IsAuto(options.sampled) THEN 0 ELSE options.sampled)
<1>1. AutoDiagnosticCapacity \in Nat \ {0}
  BY AutoRecordsSome DEF AutoDiagnosticCapacity, Diagnostic, OptionsOK
<1>2. AutoAtomicObjectCapacity \in Nat /\ IsPowerOfTwo(AutoAtomicObjectCapacity)
  <2>1. AutoRecords(AtomicObject.size) \in Nat \ {0}
    BY AutoRecordsSome DEF AtomicObject, OptionsOK
  <2> QED BY <2>1, CeilPowerOfTwoIs DEF AutoAtomicObjectCapacity
<1>3. /\ options.exact \in Int /\ options.sampled \in Int
      /\ options.diagnostic \in Int /\ options.subgroup \in Int
      /\ options.exact >= -1 /\ options.sampled >= -1
      /\ options.diagnostic # 0 /\ options.subgroup > 0
  BY OptionFields DEF OptionsOK, IsValid
<1>4. FixedCap.diagnostic = IF IsAuto(options.diagnostic) THEN AutoDiagnosticCapacity
                                                          ELSE options.diagnostic
  BY DEF FixedCap
<1>5. FixedCap.diagnostic \in Nat \ {0}
  BY <1>1, <1>3, <1>4 DEF IsAuto
<1>6. FixedCap.exact = IF IsAuto(options.exact) THEN 0 ELSE options.exact
  BY DEF FixedCap
<1>7. FixedCap.sampled = IF IsAuto(options.sampled) THEN 0 ELSE options.sampled
  BY DEF FixedCap
<1>8. FixedCap.exact \in Nat /\ FixedCap.sampled \in Nat
  BY <1>3, <1>6, <1>7 DEF IsAuto
<1>9. FixedCap.subgroup = options.subgroup /\ FixedCap.atomic = AutoAtomicObjectCapacity
  BY DEF FixedCap
<1>10. FixedCap = [diagnostic |-> FixedCap.diagnostic, subgroup |-> FixedCap.subgroup,
                   atomic |-> FixedCap.atomic, exact |-> FixedCap.exact,
                   sampled |-> FixedCap.sampled]
  BY DEF FixedCap
<1>11. FixedCap.subgroup \in Nat /\ FixedCap.atomic \in Nat
  BY <1>2, <1>3, <1>9
<1>12. FixedCap \in Caps
  BY <1>5, <1>8, <1>10, <1>11, Zenon DEF Caps
<1> QED BY <1>2, <1>5, <1>6, <1>7, <1>9, <1>12

\* Records of the table of the backend that does not serve
Other == IF options.backend = "sampled_watchpoint" THEN FixedCap.exact ELSE FixedCap.sampled

LEMMA SizedIs ==
  ASSUME OptionsOK, NEW n \in Nat
  PROVE  /\ Sized(n) \in Caps
         /\ Serving(Sized(n)) = n
         /\ Sized(n).exact + Sized(n).sampled = n + Other /\ Other \in Nat
         /\ Sized(n).diagnostic = FixedCap.diagnostic
         /\ Sized(n).atomic = FixedCap.atomic
         /\ Base(Sized(n)) = Base(FixedCap)
         /\ Sized(Serving(FixedCap)) = FixedCap
<1> DEFINE f == FixedCap
<1>1. f \in Caps
  BY FixedCapacities
<1>2. CASE options.backend = "sampled_watchpoint"
  <2> DEFINE z == [f EXCEPT !.sampled = n]
  <2>1. Sized(n) = z /\ Other = f.exact /\ Serving(f) = f.sampled /\ Serving(z) = z.sampled
    BY <1>2 DEF Sized, Other, Serving
  <2>2. Sized(Serving(f)) = [f EXCEPT !.sampled = f.sampled]
    BY <1>2, <2>1 DEF Sized
  <2> HIDE DEF f
  <2>3. /\ z \in Caps /\ z.sampled = n /\ z.exact = f.exact /\ z.diagnostic = f.diagnostic
        /\ z.atomic = f.atomic /\ z.subgroup = f.subgroup /\ f.exact \in Nat
        /\ [f EXCEPT !.sampled = f.sampled] = f
    BY <1>1 DEF Caps
  <2> HIDE DEF z
  <2>4. Base(z) = Base(f)
    BY <2>3 DEF Base, Table, Front
  <2> QED BY <2>1, <2>2, <2>3, <2>4 DEF f
<1>3. CASE options.backend # "sampled_watchpoint"
  <2> DEFINE z == [f EXCEPT !.exact = n]
  <2>1. Sized(n) = z /\ Other = f.sampled /\ Serving(f) = f.exact /\ Serving(z) = z.exact
    BY <1>3 DEF Sized, Other, Serving
  <2>2. Sized(Serving(f)) = [f EXCEPT !.exact = f.exact]
    BY <1>3, <2>1 DEF Sized
  <2> HIDE DEF f
  <2>3. /\ z \in Caps /\ z.exact = n /\ z.sampled = f.sampled /\ z.diagnostic = f.diagnostic
        /\ z.atomic = f.atomic /\ z.subgroup = f.subgroup /\ f.sampled \in Nat
        /\ [f EXCEPT !.exact = f.exact] = f
    BY <1>1 DEF Caps
  <2> HIDE DEF z
  <2>4. Base(z) = Base(f)
    BY <2>3 DEF Base, Table, Front
  <2> QED BY <2>1, <2>2, <2>3, <2>4 DEF f
<1> QED BY <1>2, <1>3

\* What a table of n records takes, in terms of the fixed part
LEMMA SizedBytes ==
  ASSUME OptionsOK, NEW n \in Nat
  PROVE  /\ LayoutByteCount(Sized(n)) =
              IF n + Other = 0 THEN Base(FixedCap)
              ELSE AlignUp(Base(FixedCap), 8) + 8 * (n + Other)
         /\ Base(FixedCap) \in Nat
         /\ AlignUp(Base(FixedCap), 8) \in Nat /\ AlignUp(Base(FixedCap), 8) >= Base(FixedCap)
         /\ AlignUp(Base(FixedCap), 8) <= Base(FixedCap) + 8
<1>1. LayoutByteCount(Sized(n)) = IF Sized(n).exact + Sized(n).sampled = 0 THEN Base(Sized(n))
           ELSE AlignUp(Base(Sized(n)), 8) + 8 * (Sized(n).exact + Sized(n).sampled)
  BY SizedIs, LayoutBytes
<1>2. Base(FixedCap) \in Nat
  BY FixedCapacities, HeadGrows
<1>3. /\ AlignUp(Base(FixedCap), 8) \in Nat /\ AlignUp(Base(FixedCap), 8) >= Base(FixedCap)
      /\ AlignUp(Base(FixedCap), 8) <= Base(FixedCap) + 8
  BY <1>2, Aligned, AlignedNext
<1>4. Sized(n).exact + Sized(n).sampled = n + Other /\ Base(Sized(n)) = Base(FixedCap)
  BY SizedIs
<1> QED BY <1>1, <1>2, <1>3, <1>4

\* A table takes eight bytes for each record on top of the fixed part, and for
\* the alignment no more than another record.
LEMMA RecordsCost ==
  ASSUME OptionsOK, NEW n \in Nat, ServingAuto
  PROVE  /\ LayoutByteCount(FixedCap) \in Nat /\ LayoutByteCount(Sized(n)) \in Nat
         /\ LayoutByteCount(Sized(n)) >= LayoutByteCount(FixedCap) + 8 * n
         /\ LayoutByteCount(Sized(n)) <= LayoutByteCount(FixedCap) + 8 * (n + 1)
         /\ Sized(0) = FixedCap
<1>1. Sized(0) = FixedCap
  <2>1. Serving(FixedCap) = 0
    BY FixedCapacities DEF Serving, ServingAuto
  <2> QED BY <2>1, SizedIs
<1> DEFINE b == Base(FixedCap)
           a == AlignUp(b, 8)
           k == Other
<1>2. b \in Nat /\ a \in Nat /\ a >= b /\ a <= b + 8 /\ k \in Nat
  BY SizedBytes, SizedIs
<1>3. LayoutByteCount(FixedCap) = IF 0 + k = 0 THEN b ELSE a + 8 * (0 + k)
  BY <1>1, SizedBytes
<1>4. LayoutByteCount(Sized(n)) = IF n + k = 0 THEN b ELSE a + 8 * (n + k)
  BY SizedBytes
<1> HIDE DEF a, b, k
<1> QED BY <1>1, <1>2, <1>3, <1>4

\* What the budget leaves holds all the records but the one that would not fit,
\* and any fewer.
LEMMA RemainingIs ==
  ASSUME OptionsOK, ServingAuto, LayoutByteCount(FixedCap) <= options.bytes
  PROVE  \E n \in Nat : /\ WithRemaining(FixedCap) = Sized(n) /\ ~Fits(n + 1)
                        /\ \A m \in Nat : m < n => Fits(m)
<1> DEFINE free == options.bytes - LayoutByteCount(FixedCap)
           n == free \div Word64.size
<1>1. options.bytes \in Nat /\ LayoutByteCount(FixedCap) \in Nat
  BY OptionFields, RecordsCost DEF OptionsOK
<1>2. free \in Nat
  BY <1>1
<1>3. Word64.size = 8
  BY DEF Word64
<1> HIDE DEF free
<1>4. n \in Nat /\ free < 8 * (n + 1) /\ 8 * n <= free
  <2>1. free \div 8 \in Nat /\ free % 8 \in 0 .. 7 /\ free = 8 * (free \div 8) + (free % 8)
    BY <1>2
  <2> QED BY <1>3, <2>1
<1>5. WithRemaining(FixedCap) = Sized(n)
  BY DEF WithRemaining, Sized, ServingAuto, free
<1> HIDE DEF n
<1>6. LayoutByteCount(Sized(n + 1)) >= LayoutByteCount(FixedCap) + 8 * (n + 1)
      /\ LayoutByteCount(Sized(n + 1)) \in Nat
  <2>1. \A m \in Nat : LayoutByteCount(Sized(m)) >= LayoutByteCount(FixedCap) + 8 * m
                      /\ LayoutByteCount(Sized(m)) \in Nat
    BY RecordsCost
  <2>2. n + 1 \in Nat
    BY <1>4
  <2> QED BY <2>1, <2>2
<1>7. free = options.bytes - LayoutByteCount(FixedCap)
  BY DEF free
<1>8. ~Fits(n + 1)
  BY <1>1, <1>4, <1>6, <1>7 DEF Fits
<1>9. ASSUME NEW m \in Nat, m < n PROVE Fits(m)
  <2>1. LayoutByteCount(Sized(m)) <= LayoutByteCount(FixedCap) + 8 * (m + 1)
        /\ LayoutByteCount(Sized(m)) \in Nat
    BY RecordsCost
  <2>2. 8 * (m + 1) <= 8 * n
    BY <1>4, <1>9
  <2> QED BY <1>1, <1>4, <1>7, <2>1, <2>2 DEF Fits
<1> QED BY <1>4, <1>5, <1>8, <1>9

LEMMA RemainingFixed ==
  ASSUME ~ServingAuto
  PROVE  WithRemaining(FixedCap) = FixedCap
BY DEF WithRemaining, ServingAuto

\* Only the backend's own table is ever shrunk, and while it has records it can
\* be.
LEMMA ShrinkServing ==
  ASSUME OptionsOK, ServingAuto, NEW n \in Nat, cap = Sized(n)
  PROVE  /\ CanShrink <=> n > 0
         /\ n > 0 => (IF IsAuto(options.sampled) /\ cap.sampled > 0
                      THEN [cap EXCEPT !.sampled = @ - 1]
                      ELSE [cap EXCEPT !.exact = @ - 1]) = Sized(n - 1)
<1> DEFINE f == FixedCap
<1>1. /\ f \in Caps
      /\ IsAuto(options.exact) => f.exact = 0
      /\ IsAuto(options.sampled) => f.sampled = 0
  BY FixedCapacities
<1>2. CASE options.backend = "sampled_watchpoint"
  <2>1. IsAuto(options.sampled)
    BY <1>2 DEF ServingAuto
  <2>2. cap = [f EXCEPT !.sampled = n] /\ Sized(n - 1) = [f EXCEPT !.sampled = n - 1]
    BY <1>2 DEF Sized
  <2> HIDE DEF f
  <2>3. cap.sampled = n /\ cap.exact = f.exact
    BY <1>1, <2>2 DEF Caps
  <2>4. [cap EXCEPT !.sampled = n - 1] = Sized(n - 1)
    BY <1>1, <2>2 DEF Caps
  <2> QED BY <1>1, <2>1, <2>3, <2>4 DEF CanShrink
<1>3. CASE options.backend # "sampled_watchpoint"
  <2>1. IsAuto(options.exact)
    BY <1>3 DEF ServingAuto
  <2>2. cap = [f EXCEPT !.exact = n] /\ Sized(n - 1) = [f EXCEPT !.exact = n - 1]
    BY <1>3 DEF Sized
  <2> HIDE DEF f
  <2>3. cap.exact = n /\ cap.sampled = f.sampled
    BY <1>1, <2>2 DEF Caps
  <2>4. [cap EXCEPT !.exact = n - 1] = Sized(n - 1)
    BY <1>1, <2>2 DEF Caps
  <2> QED BY <1>1, <2>1, <2>3, <2>4 DEF CanShrink
<1> QED BY <1>2, <1>3

-------------------------------------------------------------------------------
\* Ints

Ints(c) == /\ {c.diagnostic, c.atomic, c.exact, c.sampled} \subseteq 0 .. MaxInt
           /\ c.subgroup * c.subgroup <= MaxInt

\* What the options fix are ints, and what is derived from them was held to be.
LEMMA FixedInts ==
  ASSUME OptionsOK, DerivedAreInts
  PROVE  Ints(FixedCap)
<1>1. /\ options.exact <= MaxInt /\ options.sampled <= MaxInt /\ options.diagnostic <= MaxInt
      /\ MaxInt \in Nat
  BY LayoutAssumption DEF OptionsOK
<1>2. /\ AutoAtomicObjectCapacity <= MaxInt
      /\ IsAuto(options.diagnostic) => AutoDiagnosticCapacity <= MaxInt
      /\ options.subgroup * options.subgroup <= MaxInt
  BY DEF DerivedAreInts
<1>3. /\ FixedCap.diagnostic = (IF IsAuto(options.diagnostic) THEN AutoDiagnosticCapacity
                                                             ELSE options.diagnostic)
      /\ FixedCap.subgroup = options.subgroup /\ FixedCap.atomic = AutoAtomicObjectCapacity
      /\ FixedCap.exact = (IF IsAuto(options.exact) THEN 0 ELSE options.exact)
      /\ FixedCap.sampled = (IF IsAuto(options.sampled) THEN 0 ELSE options.sampled)
  BY DEF FixedCap
<1>4. {FixedCap.diagnostic, FixedCap.atomic, FixedCap.exact, FixedCap.sampled} \subseteq Nat
  BY FixedCapacities DEF Caps
<1>5. /\ FixedCap.diagnostic <= MaxInt /\ FixedCap.atomic <= MaxInt
      /\ FixedCap.exact <= MaxInt /\ FixedCap.sampled <= MaxInt
  BY <1>1, <1>2, <1>3
<1>6. FixedCap.subgroup * FixedCap.subgroup <= MaxInt
  BY <1>2, <1>3
<1> QED BY <1>1, <1>4, <1>5, <1>6 DEF Ints

LEMMA SizedInts ==
  ASSUME OptionsOK, Ints(FixedCap), NEW n \in 0 .. MaxInt
  PROVE  Ints(Sized(n))
<1> DEFINE f == FixedCap
<1>1. f \in Caps /\ Ints(f)
  BY FixedCapacities
<1>2. Sized(n) = [f EXCEPT !.sampled = n] \/ Sized(n) = [f EXCEPT !.exact = n]
  BY DEF Sized
<1> HIDE DEF f
<1>3. /\ Sized(n).diagnostic = f.diagnostic /\ Sized(n).atomic = f.atomic
      /\ Sized(n).subgroup = f.subgroup
      /\ Sized(n).exact \in {f.exact, n} /\ Sized(n).sampled \in {f.sampled, n}
  BY <1>1, <1>2 DEF Caps
<1> QED BY <1>1, <1>3 DEF Ints

\* An automatic table begins with no records, which is an int.
LEMMA SizedIntsBack ==
  ASSUME OptionsOK, ServingAuto, NEW n \in Nat, Ints(Sized(n))
  PROVE  n \in 0 .. MaxInt /\ Ints(FixedCap)
<1> DEFINE f == FixedCap
<1>1. f \in Caps /\ MaxInt \in Nat
  BY FixedCapacities, LayoutAssumption
<1>2. CASE options.backend = "sampled_watchpoint"
  <2>1. Sized(n) = [f EXCEPT !.sampled = n] /\ f.sampled = 0
    BY <1>2, FixedCapacities DEF Sized, ServingAuto
  <2> HIDE DEF f
  <2>2. /\ Sized(n).diagnostic = f.diagnostic /\ Sized(n).atomic = f.atomic
        /\ Sized(n).subgroup = f.subgroup /\ Sized(n).exact = f.exact /\ Sized(n).sampled = n
    BY <1>1, <2>1 DEF Caps
  <2>3. n \in 0 .. MaxInt /\ Ints(f)
    BY <1>1, <2>1, <2>2 DEF Ints
  <2> QED BY <2>3 DEF f
<1>3. CASE options.backend # "sampled_watchpoint"
  <2>1. Sized(n) = [f EXCEPT !.exact = n] /\ f.exact = 0
    BY <1>3, FixedCapacities DEF Sized, ServingAuto
  <2> HIDE DEF f
  <2>2. /\ Sized(n).diagnostic = f.diagnostic /\ Sized(n).atomic = f.atomic
        /\ Sized(n).subgroup = f.subgroup /\ Sized(n).sampled = f.sampled /\ Sized(n).exact = n
    BY <1>1, <2>1 DEF Caps
  <2>3. n \in 0 .. MaxInt /\ Ints(f)
    BY <1>1, <2>1, <2>2 DEF Ints
  <2> QED BY <2>3 DEF f
<1> QED BY <1>2, <1>3

\* A budget with room for more records than an int counts
LEMMA TooManyRemain ==
  ASSUME OptionsOK, DerivedAreInts, HasBytes, ~RemainingIsInt
  PROVE  ServingAuto /\ Fits(MaxInt)
<1>1. LayoutByteCount(FixedCap) <= options.bytes /\ ~(Serving(WithRemaining(FixedCap)) <= MaxInt)
  BY DEF HasBytes, RemainingIsInt
<1>2. ServingAuto
  <2>1. SUFFICES ASSUME ~ServingAuto PROVE FALSE
    OBVIOUS
  <2>2. WithRemaining(FixedCap) = FixedCap
    BY <2>1, RemainingFixed
  <2>3. FixedCap.exact <= MaxInt /\ FixedCap.sampled <= MaxInt
    BY FixedInts, LayoutAssumption DEF Ints
  <2> QED BY <1>1, <2>2, <2>3 DEF Serving
<1>3. PICK n \in Nat : WithRemaining(FixedCap) = Sized(n) /\ \A m \in Nat : m < n => Fits(m)
  BY <1>1, <1>2, RemainingIs
<1>4. ~(n <= MaxInt)
  BY <1>1, <1>3, SizedIs
<1> QED BY <1>2, <1>3, <1>4, LayoutAssumption

-------------------------------------------------------------------------------
(***************************************************************************)
(* The inductive invariant.  From compute_layout_or_abort on the           *)
(* capacities are ints, and the fixed ones, but for the table of the       *)
(* serving backend if its capacity is auto; and that table, with the       *)
(* alignment margin the division ignores or without it, never lacks more   *)
(* than one record.                                                        *)
(***************************************************************************)
Shaped == \/ ServingAuto /\ \E n \in Nat : cap = Sized(n) /\ ~Fits(n + 1)
          \/ ~ServingAuto /\ cap = FixedCap

LInv ==
  /\ options \in Options
  /\ stage \in {"validate", "compute", "shrink", "allocated", "rejected",
               "too_small", "too_large"}
  /\ stage \in {"validate", "compute", "rejected", "too_large"} => cap = NoCap
  /\ stage \in {"compute", "shrink", "allocated", "too_small"} => IsValid(options)
  /\ stage \in {"shrink", "allocated", "too_small"} => Ints(cap)
  /\ stage \in {"shrink", "allocated"} =>
        Shaped /\ LayoutByteCount(FixedCap) <= options.bytes
  /\ stage = "allocated" => LayoutByteCount(cap) <= options.bytes
  /\ stage = "too_small" => cap \in Caps /\ NoRoom
  /\ stage = "too_large" => TooMany

\* What is computed from the options stays while they do.
LEMMA OptionsFix ==
  ASSUME options' = options
  PROVE  /\ FixedCap' = FixedCap /\ ServingAuto' = ServingAuto /\ NoRoom' = NoRoom
         /\ TooMany' = TooMany
         /\ IsValid(options)' = IsValid(options)
         /\ \A n : Sized(n)' = Sized(n) /\ Fits(n)' = Fits(n)
         /\ LayoutByteCount(FixedCap)' = LayoutByteCount(FixedCap)
<1>1. \A n : AutoRecords(n)' = AutoRecords(n)
  BY DEF AutoRecords
<1>2. FixedCap' = FixedCap
  BY <1>1 DEF FixedCap, AutoDiagnosticCapacity, AutoAtomicObjectCapacity
<1>3. ServingAuto' = ServingAuto /\ IsValid(options)' = IsValid(options)
  BY DEF ServingAuto, IsValid
<1>4. \A n : Sized(n)' = Sized(n)
  BY <1>2 DEF Sized
<1>5. \A n : Fits(n)' = Fits(n)
  BY <1>4 DEF Fits, LayoutByteCount
<1>6. Serving(FixedCap)' = Serving(FixedCap)
  BY <1>2 DEF Serving
<1>7. NoRoom' = NoRoom
  BY <1>3, <1>5, <1>6 DEF NoRoom
<1>8. LayoutByteCount(FixedCap)' = LayoutByteCount(FixedCap)
  BY <1>2 DEF LayoutByteCount
<1>9. TooMany' = TooMany
  BY <1>1, <1>3, <1>5
     DEF TooMany, DerivedAreInts, AutoDiagnosticCapacity, AutoAtomicObjectCapacity
<1> QED BY <1>2, <1>3, <1>4, <1>5, <1>7, <1>8, <1>9

LEMMA ShapedCapacities ==
  ASSUME OptionsOK, Shaped
  PROVE  /\ cap \in Caps /\ cap.diagnostic > 0 /\ IsPowerOfTwo(cap.atomic)
         /\ ServingAuto => ~Fits(Serving(cap) + 1) /\ cap = Sized(Serving(cap))
<1>1. CASE ServingAuto
  <2>1. PICK n \in Nat : cap = Sized(n) /\ ~Fits(n + 1)
    BY <1>1 DEF Shaped
  <2> QED BY <2>1, SizedIs, FixedCapacities
<1>2. CASE ~ServingAuto
  BY <1>2, FixedCapacities DEF Shaped
<1> QED BY <1>1, <1>2

LEMMA LInvInit == Init => LInv
BY DEF Init, LInv

LEMMA LInvStep == LInv /\ [Next]_vars => LInv'
<1> SUFFICES ASSUME LInv, [Next]_vars PROVE LInv'
  OBVIOUS
<1>1. CASE Validate
  BY <1>1, OptionsFix DEF Validate, LInv
<1>2. CASE Compute
  <2>1. OptionsOK /\ stage = "compute" /\ options' = options
    BY <1>2 DEF Compute, LInv, OptionsOK
  <2>2. LayoutByteCount(FixedCap) \in Nat /\ options.bytes \in Nat
    BY <2>1, FixedCapacities, BytesAreNumbers, OptionFields DEF OptionsOK
  <2>3. CASE (~DerivedAreInts \/ (HasBytes /\ ~RemainingIsInt)) /\ stage' = "too_large" /\ cap' = cap
    <3>1. TooMany
      BY <2>1, <2>3, TooManyRemain DEF TooMany
    <3>2. cap' = NoCap
      BY <2>1, <2>3, <1>2 DEF LInv
    <3> QED BY <2>1, <2>3, <3>1, <3>2, OptionsFix DEF LInv, OptionsOK
  <2>4. CASE DerivedAreInts /\ ~HasBytes /\ stage' = "too_small" /\ cap' = FixedCap
    <3>1. LayoutByteCount(FixedCap) > options.bytes
      BY <2>2, <2>4 DEF HasBytes
    <3>2. NoRoom
      <4>1. CASE ServingAuto
        <5>1. /\ LayoutByteCount(Sized(1)) >= LayoutByteCount(FixedCap) + 8 * 1
              /\ LayoutByteCount(Sized(1)) \in Nat /\ LayoutByteCount(FixedCap) \in Nat
          BY <2>1, <4>1, RecordsCost
        <5>2. options.bytes \in Nat
          BY <2>1, OptionFields DEF OptionsOK
        <5> QED BY <3>1, <4>1, <5>1, <5>2 DEF NoRoom, Fits
      <4>2. CASE ~ServingAuto
        <5>1. Serving(FixedCap) \in Nat
          BY <2>1, FixedCapacities DEF Serving, Caps
        <5>2. Sized(Serving(FixedCap)) = FixedCap
          BY <2>1, <5>1, SizedIs
        <5> QED BY <2>2, <3>1, <4>2, <5>2 DEF NoRoom, Fits
      <4> QED BY <4>1, <4>2
    <3>3. FixedCap \in Caps /\ Ints(FixedCap)
      BY <2>1, <2>4, FixedCapacities, FixedInts
    <3> QED BY <2>1, <2>4, <3>2, <3>3, OptionsFix DEF LInv, OptionsOK
  <2>5. CASE /\ DerivedAreInts /\ HasBytes /\ RemainingIsInt
             /\ stage' = "shrink" /\ cap' = WithRemaining(FixedCap)
    <3>1. stage' = "shrink" /\ cap' = WithRemaining(FixedCap)
      BY <2>5
    <3>2. LayoutByteCount(FixedCap) <= options.bytes
      BY <2>5 DEF HasBytes
    <3>3. Ints(cap')
      <4>1. Ints(FixedCap) /\ Serving(cap') <= MaxInt
        BY <2>1, <2>5, FixedInts DEF RemainingIsInt
      <4>2. CASE ServingAuto
        <5>1. PICK n \in Nat : cap' = Sized(n)
          BY <2>1, <3>1, <3>2, <4>2, RemainingIs
        <5>2. n \in 0 .. MaxInt
          BY <2>1, <4>1, <5>1, SizedIs, LayoutAssumption
        <5> QED BY <2>1, <4>1, <5>1, <5>2, SizedInts
      <4>3. CASE ~ServingAuto
        BY <3>1, <4>1, <4>3, RemainingFixed
      <4> QED BY <4>2, <4>3
    <3>4. Ints(cap)'
      BY <3>3 DEF Ints
    <3>5. Shaped'
      <4>1. CASE ServingAuto
        <5>1. \E n \in Nat : cap' = Sized(n) /\ ~Fits(n + 1)
          BY <2>1, <3>1, <3>2, <4>1, RemainingIs
        <5> QED BY <2>1, <4>1, <5>1, OptionsFix DEF Shaped
      <4>2. CASE ~ServingAuto
        BY <2>1, <3>1, <4>2, RemainingFixed, OptionsFix DEF Shaped
      <4> QED BY <4>1, <4>2
    <3> QED BY <2>1, <3>1, <3>2, <3>4, <3>5, OptionsFix DEF LInv, OptionsOK
  <2> QED BY <1>2, <2>3, <2>4, <2>5 DEF Compute
<1>3. CASE Shrink
  <2>1. /\ OptionsOK /\ Shaped /\ options' = options /\ stage = "shrink" /\ stage' = stage
        /\ LayoutByteCount(cap) > options.bytes /\ CanShrink
        /\ LayoutByteCount(FixedCap) <= options.bytes /\ options.bytes \in Nat
    BY <1>3, OptionFields DEF Shrink, LInv, OptionsOK
  <2>2. ServingAuto
    <3>1. SUFFICES ASSUME ~ServingAuto PROVE FALSE
      OBVIOUS
    <3>2. cap = FixedCap
      BY <2>1, <3>1 DEF Shaped
    <3>3. LayoutByteCount(cap) \in Nat
      BY <2>1, ShapedCapacities, BytesAreNumbers
    <3> QED BY <2>1, <3>2, <3>3
  <2>3. PICK n \in Nat : cap = Sized(n)
    BY <2>1, <2>2 DEF Shaped
  <2>4. n - 1 \in Nat /\ cap' = Sized(n - 1)
    <3>1. n > 0
      BY <2>1, <2>2, <2>3, ShrinkServing
    <3> QED BY <1>3, <2>1, <2>2, <2>3, <3>1, ShrinkServing DEF Shrink
  <2>5. ~Fits(n)
    <3>1. LayoutByteCount(Sized(n)) \in Nat
      BY <2>1, <2>2, RecordsCost
    <3> QED BY <2>1, <2>3, <3>1 DEF Fits
  <2>6. Shaped'
    <3>1. (n - 1) + 1 = n
      OBVIOUS
    <3>2. \E m \in Nat : cap' = Sized(m) /\ ~Fits(m + 1)
      BY <2>4, <2>5, <3>1
    <3> QED BY <2>1, <2>2, <3>2, OptionsFix DEF Shaped
  <2>7. Ints(cap)'
    <3>1. n \in 0 .. MaxInt /\ Ints(FixedCap)
      <4>1. Ints(cap)
        BY <1>3 DEF Shrink, LInv
      <4> QED BY <2>1, <2>2, <2>3, <4>1, SizedIntsBack
    <3>2. n - 1 \in 0 .. MaxInt
      BY <2>4, <3>1, LayoutAssumption
    <3>3. Ints(Sized(n - 1))
      BY <2>1, <3>1, <3>2, SizedInts
    <3> QED BY <2>4, <3>3 DEF Ints
  <2> QED BY <2>1, <2>6, <2>7, OptionsFix DEF LInv, OptionsOK
<1>4. CASE Allocate
  <2>1. /\ OptionsOK /\ Shaped /\ options' = options /\ cap' = cap /\ stage = "shrink"
        /\ LayoutByteCount(FixedCap) <= options.bytes /\ options.bytes \in Nat
        /\ stage' \in {"allocated", "too_small"}
    BY <1>4, OptionFields DEF Allocate, LInv, OptionsOK
  <2>2. Shaped'
    BY <2>1, OptionsFix DEF Shaped
  <2>3. cap \in Caps /\ cap.diagnostic > 0 /\ Ints(cap)'
    BY <1>4, <2>1, ShapedCapacities DEF LInv, Ints
  <2>4. CASE stage' = "allocated"
    <3>1. LayoutByteCount(cap) <= options.bytes
      BY <1>4, <2>4 DEF Allocate
    <3>2. LayoutByteCount(cap)' = LayoutByteCount(cap)
      BY <2>1 DEF LayoutByteCount
    <3> QED BY <2>1, <2>2, <2>3, <2>4, <3>1, <3>2, OptionsFix DEF LInv, OptionsOK
  <2>5. CASE stage' = "too_small"
    <3>1. NoRoom
      <4>1. CASE ServingAuto
        <5>1. PICK n \in Nat : cap = Sized(n) /\ ~Fits(n + 1)
          BY <2>1, <4>1 DEF Shaped
        <5>2. CASE n = 0
          BY <4>1, <5>1, <5>2 DEF NoRoom
        <5>3. CASE n > 0
          <6>1. CanShrink /\ Serving(cap) > 0
            BY <2>1, <4>1, <5>1, <5>3, ShrinkServing, SizedIs
          <6>2. LayoutByteCount(cap) \in Nat
            BY <2>1, <4>1, <5>1, RecordsCost
          <6> QED BY <1>4, <2>1, <2>3, <2>5, <6>1, <6>2 DEF Allocate
        <5> QED BY <5>2, <5>3
      <4>2. CASE ~ServingAuto
        <5>1. cap = FixedCap
          BY <2>1, <4>2 DEF Shaped
        <5>2. Serving(cap) \in Nat
          BY <2>3 DEF Serving, Caps
        <5>3. ~(Serving(cap) > 0)
          BY <1>4, <2>1, <2>3, <2>5, <5>1 DEF Allocate
        <5> QED BY <4>2, <5>1, <5>2, <5>3 DEF NoRoom
      <4> QED BY <4>1, <4>2
    <3> QED BY <2>1, <2>3, <2>5, <3>1, OptionsFix DEF LInv, OptionsOK
  <2> QED BY <2>1, <2>4, <2>5
<1>5. CASE UNCHANGED vars
  <2>1. options' = options /\ stage' = stage /\ cap' = cap
    BY <1>5 DEF vars
  <2>2. Shaped' = Shaped
    BY <2>1, OptionsFix DEF Shaped
  <2>3. LayoutByteCount(cap)' = LayoutByteCount(cap)
    BY <2>1 DEF LayoutByteCount
  <2>4. Ints(cap)' = Ints(cap)
    BY <2>1 DEF Ints
  <2> QED BY <2>1, <2>2, <2>3, <2>4, OptionsFix DEF LInv
<1> QED BY <1>1, <1>2, <1>3, <1>4, <1>5 DEF Next

\* The constructor's capacities keep the invariant, for any options, share of
\* the budget and limit.
THEOREM LayoutInvariance == Spec => []LInv
<1> QED BY LInvInit, LInvStep, PTL DEF Spec

-------------------------------------------------------------------------------
\* What the constructor promises

\* Capacities are ints and the atomic-object table has a power of two of
\* slots, for the probes' masks.
THEOREM LayoutTypes == Spec => []LTypeOK
<1>1. ASSUME LInv PROVE LTypeOK
  <2>1. stage \in {"validate", "compute", "rejected", "too_large"} => cap = NoCap
    BY <1>1 DEF LInv
  <2>2. stage \in {"shrink", "allocated"} => IsPowerOfTwo(cap.atomic)
    BY <1>1, ShapedCapacities DEF LInv, OptionsOK
  <2>3. stage \in {"shrink", "allocated", "too_small"} => Ints(cap)
    BY <1>1 DEF LInv
  <2>4. {NoCap.diagnostic, NoCap.atomic, NoCap.exact, NoCap.sampled} \subseteq 0 .. MaxInt
    BY LayoutAssumption DEF NoCap
  <2>5. {cap.diagnostic, cap.atomic, cap.exact, cap.sampled} \subseteq 0 .. MaxInt
    BY <1>1, <2>1, <2>3, <2>4 DEF LInv, Ints
  <2> QED BY <1>1, <2>2, <2>3, <2>5 DEF LInv, LTypeOK, Ints
<1> QED BY <1>1, LayoutInvariance, PTL

\* What is counted is what is assigned, and every slice ends inside the budget.
THEOREM SlicesAlwaysFit == Spec => []SlicesFit
<1>1. ASSUME LInv, stage = "allocated"
      PROVE  LET s == AssignedSlices(cap) IN
             /\ Ends(s)[Len(s)] = LayoutByteCount(cap)
             /\ \A i \in DOMAIN s : s[i].n > 0 => Ends(s)[i] <= options.bytes
  <2> DEFINE s == AssignedSlices(cap)
             e == Ends(s)
  <2>1. cap \in Caps /\ LayoutByteCount(cap) <= options.bytes /\ options.bytes \in Nat
    BY <1>1, ShapedCapacities, OptionFields DEF LInv, OptionsOK
  <2>2. /\ Len(s) = 9 /\ DOMAIN s = 1 .. 9
        /\ e[0] = 0 /\ \A i \in 1 .. 9 : e[i] = SliceEnd(e[i - 1], s[i].n, s[i].t)
        /\ \A i \in 1 .. 9 : s[i].n \in Nat /\ s[i].t \in Types
        /\ e[9] = LayoutByteCount(cap)
    BY <2>1, AssignedWalk
  <2> HIDE DEF e, s
  <2>3. ASSUME NEW i \in 1 .. 9, e[i - 1] \in Nat PROVE e[i] \in Nat /\ e[i] >= e[i - 1]
    <3>1. s[i].n \in Nat /\ s[i].t \in Types /\ e[i] = SliceEnd(e[i - 1], s[i].n, s[i].t)
      BY <2>2
    <3> QED BY <2>3, <3>1, SliceGrows
  <2>4. /\ e[1] \in Nat /\ e[2] \in Nat /\ e[2] >= e[1] /\ e[3] \in Nat /\ e[3] >= e[2]
        /\ e[4] \in Nat /\ e[4] >= e[3] /\ e[5] \in Nat /\ e[5] >= e[4]
    <3>1. e[1] \in Nat
      BY <2>2, <2>3
    <3>2. e[2] \in Nat /\ e[2] >= e[1]
      BY <2>3, <3>1
    <3>3. e[3] \in Nat /\ e[3] >= e[2]
      BY <2>3, <3>2
    <3>4. e[4] \in Nat /\ e[4] >= e[3]
      BY <2>3, <3>3
    <3>5. e[5] \in Nat /\ e[5] >= e[4]
      BY <2>3, <3>4
    <3> QED BY <3>1, <3>2, <3>3, <3>4, <3>5
  <2>5. /\ e[6] \in Nat /\ e[6] >= e[5] /\ e[7] \in Nat /\ e[7] >= e[6]
        /\ e[8] \in Nat /\ e[8] >= e[7] /\ e[9] \in Nat /\ e[9] >= e[8]
    <3>1. e[6] \in Nat /\ e[6] >= e[5]
      BY <2>3, <2>4
    <3>2. e[7] \in Nat /\ e[7] >= e[6]
      BY <2>3, <3>1
    <3>3. e[8] \in Nat /\ e[8] >= e[7]
      BY <2>3, <3>2
    <3>4. e[9] \in Nat /\ e[9] >= e[8]
      BY <2>3, <3>3
    <3> QED BY <3>1, <3>2, <3>3, <3>4
  <2>6. \A i \in 1 .. 9 : e[i] <= e[9]
    <3>1. \A i \in 1 .. 9 : i \in {1, 2, 3, 4, 5, 6, 7, 8, 9}
      OBVIOUS
    <3> QED BY <2>4, <2>5, <3>1
  <2>7. \A i \in 1 .. 9 : e[i] \in Nat
    <3>1. \A i \in 1 .. 9 : i \in {1, 2, 3, 4, 5, 6, 7, 8, 9}
      OBVIOUS
    <3> QED BY <2>4, <2>5, <3>1
  <2>8. \A i \in DOMAIN s : e[i] <= options.bytes
    BY <2>1, <2>2, <2>6, <2>7
  <2> QED BY <2>2, <2>8 DEF e, s
<1>2. LInv => SlicesFit
  BY <1>1 DEF SlicesFit
<1> QED BY <1>2, LayoutInvariance, PTL

\* The address cache lies where the device computes it to be: the table in
\* front of it ends on the cache's alignment.
THEOREM CacheFollowsTable == Spec => []CacheBehindTable
<1>1. ASSUME LInv, stage = "allocated"
      PROVE  LET cache == CHOOSE i \in 1 .. 9 : AssignedSlices(cap)[i].t = AtomicAddressCache
             IN  Offsets(cap)[cache] = Offsets(cap)[5] + cap.atomic * AtomicObject.size
  <2> DEFINE s == AssignedSlices(cap)
             e == Ends(s)
  <2>1. cap \in Caps
    BY <1>1, ShapedCapacities DEF LInv, OptionsOK
  <2>2. /\ DOMAIN s = 1 .. 9
        /\ e[0] = 0 /\ \A i \in 1 .. 9 : e[i] = SliceEnd(e[i - 1], s[i].n, s[i].t)
        /\ \A i \in 1 .. 9 : s[i].t = AtomicAddressCache <=> i = 6
        /\ s[5] = Of(cap.atomic, AtomicObject)
        /\ s[6] = Of(cap.atomic, AtomicAddressCache)
        /\ e[4] = SliceEnd(Front(cap), 2, Word32)
    BY <2>1, AssignedWalk
  <2>3. Offsets(cap) = [i \in DOMAIN s |-> SliceStart(e[i - 1], s[i].n, s[i].t)]
    BY DEF Offsets
  <2>4. (CHOOSE i \in 1 .. 9 : s[i].t = AtomicAddressCache) = 6
    BY <2>2
  <2> HIDE DEF e, s
  <2> DEFINE n == cap.atomic
             o == e[4]
  <2>5. n \in Nat /\ o \in Nat
    <3>1. Word32 \in Types /\ Front(cap) \in Nat
      BY <2>1, HeadGrows DEF Types
    <3> QED BY <2>1, <2>2, <3>1, SliceGrows DEF Caps
  <2>6. /\ e[5] = SliceEnd(o, n, AtomicObject)
        /\ Offsets(cap)[5] = SliceStart(o, n, AtomicObject)
        /\ Offsets(cap)[6] = SliceStart(e[5], n, AtomicAddressCache)
    <3>1. 5 \in 1 .. 9 /\ 6 \in 1 .. 9 /\ 5 - 1 = 4 /\ 6 - 1 = 5
      OBVIOUS
    <3>2. s[5].n = n /\ s[5].t = AtomicObject /\ s[6].n = n /\ s[6].t = AtomicAddressCache
      BY <2>2 DEF Of
    <3> QED BY <2>2, <2>3, <3>1, <3>2
  <2> HIDE DEF n, o
  <2>7. Offsets(cap)[6] = Offsets(cap)[5] + n * AtomicObject.size
    <3>1. AtomicObject.size = 32 /\ AtomicObject.align = 8 /\ AtomicAddressCache.align = 8
      BY DEF AtomicObject, AtomicAddressCache
    <3> DEFINE a == AlignUp(o, 8)
    <3>2. a \in Nat /\ a % 8 = 0
      BY <2>5, Aligned
    <3>3. CASE n = 0
      <4>1. Offsets(cap)[5] = o /\ Offsets(cap)[6] = o
        BY <2>6, <3>1, <3>3 DEF SliceStart, SliceEnd
      <4> QED BY <2>5, <3>1, <3>3, <4>1
    <3>4. CASE n > 0
      <4>1. Offsets(cap)[5] = a /\ e[5] = a + n * 32 /\ Offsets(cap)[6] = AlignUp(a + n * 32, 8)
        BY <2>5, <2>6, <3>1, <3>4 DEF SliceStart, SliceEnd
      <4> HIDE DEF a
      <4>2. a + n * 32 \in Nat /\ (a + n * 32) % 8 = 0
        BY <2>5, <3>2
      <4>3. AlignUp(a + n * 32, 8) = a + n * 32
        BY <4>2, Aligned
      <4> QED BY <3>1, <4>1, <4>3
    <3> QED BY <2>5, <3>3, <3>4
  <2> QED BY <2>4, <2>7 DEF n, s
<1>2. LInv => CacheBehindTable
  BY <1>1 DEF CacheBehindTable
<1> QED BY <1>2, LayoutInvariance, PTL

\* An allocated auto table could not have held one record more.
THEOREM BudgetIsUsed == Spec => []BudgetUsed
<1>1. LInv => BudgetUsed
  BY ShapedCapacities DEF LInv, OptionsOK, BudgetUsed
<1> QED BY <1>1, LayoutInvariance, PTL

\* Valid options are turned down only where not one record would fit, or where
\* a number that is derived from them, and not cut, outgrows an int.
THEOREM RefusalsAreDue == Spec => []AbortsOnlyForCause
<1>1. LInv => AbortsOnlyForCause
  BY DEF LInv, AbortsOnlyForCause
<1> QED BY <1>1, LayoutInvariance, PTL

===================================================================================
