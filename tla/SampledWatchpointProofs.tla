------------------------- MODULE SampledWatchpointProofs -------------------------
(***************************************************************************)
(* Proofs about SampledWatchpoint, for any subgroups, accesses, sizes and  *)
(* slot hash: the words of an access tile the cells it touches, a report   *)
(* names a race, and a full scan of a table whose capacity is a power of   *)
(* two misses nothing that is still there.                                 *)
(***************************************************************************)
EXTENDS SampledWatchpoint, FiniteSetTheorems, TLAPS

-------------------------------------------------------------------------------
\* Division and remainder

LEMMA Division ==
  ASSUME NEW m \in Nat, m > 0, NEW a \in Int
  PROVE  a = m * (a \div m) + (a % m)
OBVIOUS

LEMMA DivMod ==
  ASSUME NEW m \in Nat \ {0}, NEW a \in Nat
  PROVE  /\ a \div m \in Nat /\ a % m \in 0 .. m - 1
         /\ a = m * (a \div m) + (a % m)
         /\ m * (a \div m) <= a /\ a < m * (a \div m) + m
<1>1. m \in Nat /\ m > 0
  OBVIOUS
<1>2. a % m \in 0 .. m - 1
  OBVIOUS
<1>7. a \div m \in Int
  OBVIOUS
<1>3. a = m * (a \div m) + (a % m)
  BY <1>1, Division
<1>4. ASSUME NEW q \in Int, NEW r \in 0 .. m - 1, a = m * q + r
      PROVE  q \in Nat
  <2>1. SUFFICES ASSUME q + 1 <= 0 PROVE FALSE
    BY <1>4
  <2>2. m * (q + 1) <= 0 /\ m * (q + 1) = m * q + m
    BY <1>1, <2>1
  <2> QED BY <1>1, <1>4, <2>2
<1>5. ASSUME NEW q \in Int, NEW r \in 0 .. m - 1, a = m * q + r
      PROVE  m * q <= a /\ a < m * q + m
  BY <1>1, <1>5
<1>6. a \div m \in Nat
  BY <1>2, <1>3, <1>4
<1> QED BY <1>2, <1>3, <1>5, <1>6, <1>7

LEMMA QuotientIs ==
  ASSUME NEW m \in Nat \ {0}, NEW q \in Nat, NEW r \in 0 .. m - 1
  PROVE  (m * q + r) \div m = q /\ (m * q + r) % m = r
OBVIOUS

LEMMA QuotientUnique ==
  ASSUME NEW m \in Nat \ {0}, NEW a \in Nat, NEW q \in Nat, m * q <= a, a < m * q + m
  PROVE  a \div m = q /\ a % m = a - m * q
<1> DEFINE r == a - m * q
<1>1. r \in 0 .. m - 1 /\ a = m * q + r
  OBVIOUS
<1> HIDE DEF r
<1>2. (m * q + r) \div m = q /\ (m * q + r) % m = r
  BY <1>1, QuotientIs
<1> QED BY <1>1, <1>2 DEF r

LEMMA QuotientMonotone ==
  ASSUME NEW m \in Nat \ {0}, NEW a \in Nat, NEW b \in Nat, a <= b
  PROVE  a \div m <= b \div m
OBVIOUS

LEMMA Remainder ==
  ASSUME NEW m \in Nat \ {0}, NEW a \in 0 .. m - 1
  PROVE  a % m = a
OBVIOUS

-------------------------------------------------------------------------------
\* Ranges of cells

USE SampledAssumption

\* The cells of an access lie between its first and its last, without a gap.
LEMMA CellsTouchedAre ==
  ASSUME NEW a \in Accesses
  PROVE  /\ FirstCell(a) \in Nat /\ EndCell(a) \in Nat /\ FirstCell(a) < EndCell(a)
         /\ CellsTouched(a) = FirstCell(a) .. EndCell(a) - 1
<1> DEFINE first == a[1]
           last == a[1] + a[2] - 1
<1>1. /\ first \in Nat /\ last \in Nat /\ first <= last
      /\ Granule \in Nat \ {0}
  OBVIOUS
<1>2. FirstCell(a) = first \div Granule /\ EndCell(a) = last \div Granule + 1
      /\ CellsTouched(a) = {b \div Granule : b \in first .. last}
  BY DEF FirstCell, EndCell, CellsTouched
<1> HIDE DEF first, last
<1>3. first \div Granule \in Nat /\ last \div Granule \in Nat
  BY <1>1, DivMod
<1>4. first \div Granule <= last \div Granule
  BY <1>1, QuotientMonotone
<1>5. ASSUME NEW b \in first .. last
      PROVE  b \div Granule \in first \div Granule .. last \div Granule
  <2>1. b \in Nat /\ first <= b /\ b <= last
    BY <1>1
  <2>2. b \div Granule \in Nat
    BY <1>1, <2>1, DivMod
  <2>3. first \div Granule <= b \div Granule /\ b \div Granule <= last \div Granule
    BY <1>1, <2>1, QuotientMonotone
  <2> QED BY <1>3, <2>2, <2>3
<1>6. ASSUME NEW cell \in first \div Granule .. last \div Granule
      PROVE  \E b \in first .. last : b \div Granule = cell
  <2>1. CASE cell = first \div Granule
    BY <1>1, <2>1
  <2>2. CASE cell # first \div Granule
    <3>1. cell \in Nat /\ cell >= first \div Granule + 1 /\ cell <= last \div Granule
      BY <1>3, <2>2
    <3>2. /\ first < Granule * (first \div Granule) + Granule
          /\ Granule * (last \div Granule) <= last
      BY <1>1, DivMod
    <3>3. ASSUME NEW f \in Nat, NEW l \in Nat, f + 1 <= cell, cell <= l
          PROVE  Granule * f + Granule <= Granule * cell /\ Granule * cell <= Granule * l
      BY <1>1, <3>1, <3>3
    <3>4. Granule * cell \in first .. last
      BY <1>1, <1>3, <3>1, <3>2, <3>3
    <3>5. (Granule * cell + 0) \div Granule = cell
      BY <1>1, <3>1, QuotientIs
    <3> QED BY <1>1, <3>1, <3>4, <3>5
  <2> QED BY <2>1, <2>2
<1> QED BY <1>2, <1>3, <1>4, <1>5, <1>6

\* The simpler path of the publish-only context computes the same end, and
\* both checks refuse the accesses that leave the cells.
LEMMA StaticIs ==
  ASSUME NEW a \in Accesses
  PROVE  /\ FirstCell(a) + StaticCount(a) = EndCell(a)
         /\ TooFar(a) <=> EndCell(a) > MaxStart + 1
         /\ TooFarStatic(a) <=> EndCell(a) > MaxStart + 1
<1> DEFINE o == a[1]
           n == a[2]
           q == o \div Granule
           r == o % Granule
           t == r + n - 1
<1>1. /\ o \in Nat /\ n \in Nat /\ n > 0 /\ Granule \in Nat \ {0}
  OBVIOUS
<1>2. /\ FirstCell(a) = q /\ EndCell(a) = (o + n - 1) \div Granule + 1
      /\ StaticCount(a) = (r + n + Granule - 1) \div Granule
      /\ TooFarStatic(a) <=> o > (MaxStart + 1) * Granule - n
  BY DEF FirstCell, EndCell, StaticCount, TooFarStatic
<1> HIDE DEF o, n
<1>3. q \in Nat /\ r \in 0 .. Granule - 1 /\ o = Granule * q + r
  BY <1>1, DivMod
<1> HIDE DEF q, r
<1>4. t \in Nat /\ o + n - 1 = Granule * q + t /\ r + n + Granule - 1 = t + Granule
  BY <1>1, <1>3
<1> HIDE DEF t
<1> DEFINE u == t \div Granule
           v == t % Granule
<1>5. u \in Nat /\ v \in 0 .. Granule - 1 /\ t = Granule * u + v
  BY <1>1, <1>4, DivMod
<1> HIDE DEF u, v
<1>6. /\ o + n - 1 = Granule * (q + u) + v
      /\ r + n + Granule - 1 = Granule * (u + 1) + v
  BY <1>1, <1>3, <1>4, <1>5
<1>7. /\ (Granule * (q + u) + v) \div Granule = q + u
      /\ (Granule * (u + 1) + v) \div Granule = u + 1
  <2>1. q + u \in Nat /\ u + 1 \in Nat
    BY <1>3, <1>5
  <2> QED BY <1>1, <1>5, <2>1, QuotientIs
<1>8. EndCell(a) = q + u + 1 /\ StaticCount(a) = u + 1
  <2>1. (o + n - 1) \div Granule = q + u /\ (r + n + Granule - 1) \div Granule = u + 1
    BY <1>6, <1>7, Zenon
  <2> QED BY <1>2, <2>1
<1>9. TooFarStatic(a) <=> q + u + 1 > MaxStart + 1
  <2>1. TooFarStatic(a) <=> o + n - 1 >= Granule * (MaxStart + 1)
    BY <1>1, <1>2
  <2>2. ASSUME NEW p \in Nat, q + u >= p PROVE Granule * (q + u) + v >= Granule * p
    <3>1. Granule * (q + u) >= Granule * p /\ Granule * (q + u) \in Nat /\ Granule * p \in Nat
      BY <1>1, <1>3, <1>5, <2>2
    <3> QED BY <1>5, <3>1
  <2>3. ASSUME NEW p \in Nat, q + u + 1 <= p PROVE Granule * (q + u) + v < Granule * p
    <3>1. Granule * (q + u + 1) <= Granule * p
      BY <1>1, <1>3, <1>5, <2>3
    <3>2. Granule * (q + u + 1) = Granule * (q + u) + Granule
      BY <1>1, <1>3, <1>5
    <3>3. Granule * (q + u) \in Nat /\ Granule * p \in Nat
      BY <1>1, <1>3, <1>5
    <3> QED BY <1>1, <1>5, <3>1, <3>2, <3>3
  <2> QED BY <1>3, <1>5, <1>6, <2>1, <2>2, <2>3
<1> QED BY <1>2, <1>3, <1>5, <1>8, <1>9 DEF TooFar

-------------------------------------------------------------------------------
\* The invariant of the calls and of the table's shape

Publishing ==
  [pc : {"publish"}, kind : Kinds, access : Accesses, start : Nat, end : Nat,
   published : SUBSET SUBSET Nat, due : SUBSET Slot]
Scanning ==
  [pc : {"scan"}, kind : Kinds, access : Accesses, start : Nat, end : Nat,
   published : SUBSET SUBSET Nat, due : SUBSET Slot,
   word : Words, slot : Slot, step : Nat, probe : Nat]
Returning ==
  [pc : {"return"}, access : Accesses, published : SUBSET SUBSET Nat,
   due : SUBSET Slot, full : BOOLEAN]
Calls == {Idle} \cup Publishing \cup Scanning \cup Returning

Typed ==
  /\ context \in Contexts
  /\ generation \in Generation
  /\ epoch \in Epoch
  /\ token \in [Subgroup -> [Subgroup -> 0 .. MaxEpoch + 1]]
  /\ table \in [Slot -> {Empty} \cup Words]
  /\ \A x \in Slot : table[x] = Empty \/ CellsOf(table[x]) \subseteq Cell
  /\ call \in [Subgroup -> Calls]
  /\ made \subseteq Subgroup \X Cell \X Kinds

\* The ranges are disjoint and cover the cells from the first to before to.
Tiled(ranges, first, to) ==
  /\ UNION ranges = first .. to - 1
  /\ \A p, q \in ranges : p = q \/ p \cap q = {}

\* What is published of an access ends where the next chunk starts, and the
\* access is among those made.
InChunks(s, c) ==
  /\ FirstCell(c.access) <= c.start /\ c.start < c.end
  /\ c.end = EndCell(c.access) /\ c.end <= MaxStart + 1
  /\ Tiled(c.published, FirstCell(c.access), c.start)
  /\ \A cell \in CellsTouched(c.access) : <<s, cell, c.kind>> \in made

FitsCells(a) == EndCell(a) <= MaxStart + 1

InAccess(s, c) ==
  /\ c.pc \in {"publish", "scan"} => InChunks(s, c)
  /\ c.pc = "scan" => context = "reporting" /\ c.word = Packed(s, c.kind, c.start, Chunk(c))
  /\ c.pc = "return" =>
       /\ Tiled(c.published, FirstCell(c.access),
                IF FitsCells(c.access) THEN EndCell(c.access) ELSE FirstCell(c.access))
       /\ ~FitsCells(c.access) /\ context = "reporting" => c.full

Sound == \A s \in Subgroup : InAccess(s, call[s])

SInv == Typed /\ Sound

-------------------------------------------------------------------------------
\* Words and chunks

LEMMA ChunkIs ==
  ASSUME NEW s, NEW c \in Publishing \cup Scanning, InChunks(s, c)
  PROVE  /\ Chunk(c) \in 1 .. MaxCount
         /\ c.start + Chunk(c) <= c.end /\ c.start + Chunk(c) <= MaxStart + 1
         /\ c.start \in Cell /\ c.start \in Nat /\ c.end \in Nat /\ c.kind \in Kinds
<1>1. c.start \in Nat /\ c.end \in Nat /\ c.kind \in Kinds
  BY DEF Publishing, Scanning
<1> QED BY <1>1 DEF Chunk, InChunks, Cell

LEMMA WordIs ==
  ASSUME Typed, NEW s \in Subgroup, NEW c \in Publishing \cup Scanning, InChunks(s, c),
         NEW word, word = Packed(s, c.kind, c.start, Chunk(c))
  PROVE  /\ word \in Words
         /\ word # Empty
         /\ word.kind = c.kind
         /\ word.owner = s
         /\ word.start = c.start
         /\ word.field = Chunk(c) - 1
         /\ CellsOf(word) = c.start .. c.start + Chunk(c) - 1
         /\ CellsOf(word) \subseteq Cell
<1> DEFINE k == c.kind
           start == c.start
           chunk == Chunk(c)
<1>0. /\ k \in Kinds /\ start \in Nat /\ chunk \in 1 .. MaxCount
      /\ start + chunk <= MaxStart + 1
  BY ChunkIs
<1> HIDE DEF k, start, chunk
<1>1. epoch \in Nat /\ generation \in Nat
  BY DEF Typed, Epoch, Generation
<1>2. epoch % EpochModulus \in 0 .. EpochModulus - 1
  BY <1>1, DivMod
<1>3. generation % GenerationModulus \in 0 .. GenerationModulus - 1
  BY <1>1, DivMod
<1>4. start \in 0 .. (MaxStart + 1) - 1 /\ MaxStart + 1 \in Nat \ {0}
  BY <1>0
<1>5. start % (MaxStart + 1) = start
  BY <1>4, Remainder
<1>6. chunk - 1 \in 0 .. MaxCount - 1
  BY <1>0
<1>7. EncodedCount(chunk) = chunk - 1
  BY <1>6, Remainder DEF EncodedCount
<1>8. word = [kind |-> k, owner |-> s, epoch |-> epoch % EpochModulus,
              generation |-> generation % GenerationModulus,
              start |-> start, field |-> chunk - 1]
  BY <1>5, <1>7 DEF Packed, k, start, chunk
<1>9. word \in Words
  BY <1>0, <1>2, <1>3, <1>4, <1>6, <1>8 DEF Words, Cell
<1>10. word # Empty
  <2>1. k \in Kinds
    BY <1>0
  <2>2. Kinds \subseteq {"load", "store"}
    OBVIOUS
  <2>3. k \in {"load", "store"}
    BY <2>1, <2>2, Zenon
  <2>4. k # "empty"
    BY <2>3
  <2> QED BY <1>8, <2>4 DEF Empty
<1>11. CellsOf(word) = start .. start + chunk - 1 /\ CellsOf(word) \subseteq Cell
  BY <1>0, <1>8 DEF CellsOf, Cell
<1>12. word.kind = k /\ word.owner = s /\ word.start = start /\ word.field = chunk - 1
  BY <1>8
<1> QED BY <1>9, <1>10, <1>11, <1>12 DEF k, start, chunk

\* Where the cells an access in chunks touches are.
LEMMA InChunksCells ==
  ASSUME NEW s, NEW c \in Publishing \cup Scanning, InChunks(s, c)
  PROVE  /\ c.access \in Accesses
         /\ c.start .. c.start + Chunk(c) - 1 \subseteq CellsTouched(c.access)
<1>1. c.access \in Accesses
  BY DEF Publishing, Scanning
<1>2. /\ FirstCell(c.access) \in Nat
      /\ CellsTouched(c.access) = FirstCell(c.access) .. EndCell(c.access) - 1
  BY <1>1, CellsTouchedAre
<1>3. FirstCell(c.access) <= c.start /\ c.end = EndCell(c.access)
  BY DEF InChunks
<1>4. /\ Chunk(c) \in 1 .. MaxCount /\ c.start \in Nat /\ c.end \in Nat
      /\ c.start + Chunk(c) <= c.end
  BY ChunkIs
<1> HIDE DEF Chunk
<1>5. \A n \in c.start .. c.start + Chunk(c) - 1 :
        n \in FirstCell(c.access) .. EndCell(c.access) - 1
  BY <1>2, <1>3, <1>4
<1> QED BY <1>1, <1>2, <1>5

\* One more range behind those that tile.
LEMMA TiledMore ==
  ASSUME NEW ranges, NEW first \in Nat, NEW from \in Nat, NEW to \in Nat,
         first <= from, from < to, Tiled(ranges, first, from)
  PROVE  Tiled(ranges \cup {from .. to - 1}, first, to)
<1> DEFINE new == from .. to - 1
<1>1. (first .. from - 1) \cup new = first .. to - 1 /\ (first .. from - 1) \cap new = {}
  OBVIOUS
<1>2. UNION (ranges \cup {new}) = (UNION ranges) \cup new
  OBVIOUS
<1>3. \A p \in ranges : p \subseteq first .. from - 1
  BY DEF Tiled
<1> HIDE DEF new
<1>4. ASSUME NEW p \in ranges \cup {new}, NEW q \in ranges \cup {new}, p # q
      PROVE  p \cap q = {}
  BY <1>1, <1>3, <1>4 DEF Tiled
<1> QED BY <1>1, <1>2, <1>4 DEF Tiled, new

LEMMA NextChunkIs ==
  ASSUME NEW s, NEW c \in Publishing \cup Scanning, InChunks(s, c),
         NEW word, CellsOf(word) = c.start .. c.start + Chunk(c) - 1
  PROVE  /\ NextChunk(c, Chunk(c), word) \in Publishing \cup Returning
         /\ InAccess(s, NextChunk(c, Chunk(c), word))
         /\ NextChunk(c, Chunk(c), word).due = c.due
<1> DEFINE to == c.start + Chunk(c)
           cells == c.published \cup {CellsOf(word)}
           next == [pc |-> "publish", kind |-> c.kind, access |-> c.access,
                    start |-> to, end |-> c.end, due |-> c.due, published |-> cells]
           back == [pc |-> "return", access |-> c.access, published |-> cells,
                    due |-> c.due, full |-> FALSE]
           n == NextChunk(c, Chunk(c), word)
<1>1. /\ c.kind \in Kinds /\ c.access \in Accesses /\ c.end \in Nat /\ c.start \in Nat
      /\ c.published \in SUBSET SUBSET Nat /\ c.due \in SUBSET Slot
  BY DEF Publishing, Scanning
<1>2. to \in Nat /\ c.start < to /\ to <= c.end
  BY <1>1, ChunkIs
<1>3. CellsOf(word) = c.start .. to - 1
  <2>1. Chunk(c) \in Int /\ c.start \in Int
    BY <1>1, ChunkIs
  <2> QED BY <2>1
<1>4. FirstCell(c.access) \in Nat /\ EndCell(c.access) \in Nat
  BY <1>1, CellsTouchedAre
<1>5. Tiled(cells, FirstCell(c.access), to)
  BY <1>1, <1>2, <1>3, <1>4, TiledMore DEF InChunks
<1>6. cells \in SUBSET SUBSET Nat
  BY <1>1, <1>2, <1>3
<1>7. n = IF to < c.end THEN next ELSE back
  BY DEF NextChunk, Return
<1> HIDE DEF to, cells, n
<1>8. CASE to < c.end
  <2>1. n = next
    BY <1>7, <1>8
  <2>2. next \in Publishing
    BY <1>1, <1>2, <1>6 DEF Publishing
  <2>3. InChunks(s, next)
    BY <1>2, <1>4, <1>5, <1>8, <1>1 DEF InChunks
  <2> QED BY <2>1, <2>2, <2>3 DEF InAccess, n
<1>9. CASE ~(to < c.end)
  <2>1. n = back
    BY <1>7, <1>9
  <2>2. back \in Returning
    BY <1>1, <1>6 DEF Returning
  <2>3. to = EndCell(c.access) /\ FitsCells(c.access)
    BY <1>1, <1>2, <1>9 DEF InChunks, FitsCells
  <2> QED BY <1>5, <2>1, <2>2, <2>3 DEF InAccess, n
<1> QED BY <1>8, <1>9

-------------------------------------------------------------------------------
\* The steps

LEMMA StepsAre == Steps \subseteq Nat
<1>1. \A n \in Slot : (2 * n + 1) % Capacity \in Nat
  <2> TAKE n \in Slot
  <2>1. 2 * n + 1 \in Nat
    BY DEF Slot
  <2> QED BY <2>1, DivMod
<1> QED BY <1>1 DEF Steps

LEMMA SInit == Init => SInv
<1> SUFFICES ASSUME Init PROVE SInv
  OBVIOUS
<1>1. Idle \in Calls /\ Idle.pc = "idle"
  BY DEF Calls, Idle
<1>2. \A s \in Subgroup : call[s] = Idle
  BY DEF Init
<1>3. Sound
  BY <1>1, <1>2 DEF Sound, InAccess
<1>4. /\ 0 \in Epoch /\ 1 \in Generation /\ 0 \in 0 .. MaxEpoch + 1
      /\ call \in [Subgroup -> Calls]
  BY <1>1 DEF Init, Epoch, Generation
<1>5. token \in [Subgroup -> [Subgroup -> 0 .. MaxEpoch + 1]]
  BY <1>4 DEF Init, NoTokens
<1> QED BY <1>3, <1>4, <1>5 DEF SInv, Typed, Init

LEMMA SoundStep ==
  ASSUME UNCHANGED <<launch, epoch, made>>, \A s \in Subgroup : InAccess(s, call'[s])
  PROVE  Sound'
BY DEF Sound, InAccess, InChunks, Packed, launch

\* What each stage of a call says of it.
LEMMA CallIs ==
  ASSUME Typed, NEW s \in Subgroup
  PROVE  /\ IsAt(s, "idle") => call[s] = Idle
         /\ IsAt(s, "publish") => call[s] \in Publishing
         /\ IsAt(s, "scan") => call[s] \in Scanning
         /\ IsAt(s, "return") => call[s] \in Returning
         /\ call[s].pc \in {"idle", "publish", "scan", "return"}
BY DEF Typed, Calls, Idle, Publishing, Scanning, Returning, IsAt

LEMMA BeginAccessInv ==
  ASSUME SInv, NEW s \in Subgroup, NEW a \in Accesses, NEW k \in Kinds, BeginAccess(s, a, k)
  PROVE  SInv'
<1> DEFINE refused == IF IsStatic(a) THEN TooFarStatic(a) ELSE TooFar(a)
           first == FirstCell(a)
           end == IF IsStatic(a) THEN FirstCell(a) + StaticCount(a) ELSE EndCell(a)
           c == Begin(a, k, first, end)
           back == Return(c, context = "reporting")
           new == IF refused THEN back ELSE c
<1>1. /\ call' = [call EXCEPT ![s] = new]
      /\ made' = IF refused THEN made ELSE made \cup ({s} \X CellsTouched(a) \X {k})
      /\ UNCHANGED <<launch, epoch, token, table>>
  BY DEF BeginAccess
<1>2. /\ end = EndCell(a) /\ (refused <=> EndCell(a) > MaxStart + 1)
      /\ end \in Nat /\ first \in Nat /\ first < end
      /\ CellsTouched(a) = first .. end - 1
  BY StaticIs, CellsTouchedAre
<1> HIDE DEF refused, first, end
<1>3. c = [pc |-> "publish", kind |-> k, access |-> a, start |-> first, end |-> end,
           published |-> {}, due |-> {}]
  BY DEF Begin
<1>4. back = [pc |-> "return", access |-> a, published |-> {}, due |-> {},
              full |-> (context = "reporting")]
  BY <1>3 DEF Return
<1>5. c \in Publishing /\ back \in Returning
  <2>1. c \in Publishing
    BY <1>2, <1>3 DEF Publishing
  <2>2. (context = "reporting") \in BOOLEAN
    OBVIOUS
  <2>3. \A f \in BOOLEAN : [pc |-> "return", access |-> a, published |-> {}, due |-> {},
                          full |-> f] \in Returning
    BY DEF Returning
  <2> QED BY <1>4, <2>1, <2>2, <2>3, Zenon
<1> HIDE DEF c, back
<1>6. new \in Calls
  BY <1>5 DEF Calls
<1>7. made' \subseteq Subgroup \X Cell \X Kinds
  <2>1. ~refused => CellsTouched(a) \subseteq Cell
    BY <1>2 DEF Cell
  <2> QED BY <1>1, <2>1 DEF SInv, Typed
<1>8. Typed'
  BY <1>1, <1>6, <1>7 DEF SInv, Typed, launch
<1>9. ASSUME NEW r \in Subgroup PROVE InAccess(r, call[r])'
  <2>1. CASE r # s
    <3>1. call'[r] = call[r] /\ InAccess(r, call[r])
      BY <1>1, <2>1 DEF SInv, Sound, Typed
    <3>2. made \subseteq made' /\ UNCHANGED <<context, epoch, generation>>
      BY <1>1 DEF launch
    <3> QED BY <3>1, <3>2 DEF InAccess, InChunks, Packed
  <2>2. CASE r = s
    <3>1. call'[s] = new
      BY <1>1 DEF SInv, Typed
    <3>2. UNION {} = first .. first - 1
      BY <1>2
    <3>3. CASE refused
      <4>1. call'[s] = back /\ ~FitsCells(a)
        BY <1>2, <3>1, <3>3 DEF FitsCells
      <4>2. /\ back.pc = "return" /\ back.access = a /\ back.published = {}
            /\ context = "reporting" => back.full
        BY <1>4, Zenon
      <4>3. Tiled(back.published, FirstCell(a), FirstCell(a))
        BY <3>2, <4>2 DEF Tiled, first
      <4> QED BY <1>1, <2>2, <4>1, <4>2, <4>3 DEF InAccess, launch
    <3>4. CASE ~refused
      <4>1. call'[s] = c /\ \A cell \in CellsTouched(a) : <<s, cell, k>> \in made'
        BY <1>1, <3>1, <3>4
      <4>2. end <= MaxStart + 1
        BY <1>2, <3>4
      <4> QED BY <1>2, <1>3, <2>2, <3>2, <4>1, <4>2 DEF InAccess, InChunks, Tiled, first
    <3> QED BY <3>3, <3>4
  <2> QED BY <2>1, <2>2
<1> QED BY <1>8, <1>9 DEF SInv, Sound

\* Only a displaced word's slot goes from the calls of others.
LEMMA DisplacedIs ==
  ASSUME SInv, NEW s \in Subgroup, NEW x \in Slot, NEW r \in Subgroup
  PROVE  /\ Displaced(s, x)[r] \in Calls
         /\ InAccess(r, Displaced(s, x)[r])
<1>1. CASE r = s \/ IsAt(r, "idle")
  BY <1>1 DEF Displaced, SInv, Typed, Sound
<1>2. CASE ~(r = s \/ IsAt(r, "idle"))
  <2> DEFINE c == call[r]
             d == [c EXCEPT !.due = @ \ {x}]
  <2>1. Displaced(s, x)[r] = d
    BY <1>2 DEF Displaced
  <2>2. c \in Publishing \cup Scanning \cup Returning /\ InAccess(r, c)
    BY <1>2, CallIs DEF SInv, Sound, IsAt
  <2> HIDE DEF c
  <2>3. CASE c \in Publishing
    BY <2>1, <2>2, <2>3 DEF Publishing, InAccess, InChunks, Calls
  <2>4. CASE c \in Scanning
    <3>1. d \in Scanning /\ Chunk(d) = Chunk(c)
      BY <2>4 DEF Scanning, Chunk
    <3> QED BY <2>1, <2>2, <2>4, <3>1 DEF Scanning, InAccess, InChunks, Calls
  <2>5. CASE c \in Returning
    BY <2>1, <2>2, <2>5 DEF Returning, InAccess, Calls
  <2> QED BY <2>2, <2>3, <2>4, <2>5
<1> QED BY <1>1, <1>2

LEMMA PublishInv ==
  ASSUME SInv, NEW s \in Subgroup, Publish(s)
  PROVE  SInv'
<1> DEFINE c == call[s]
           chunk == Chunk(c)
           word == Packed(s, c.kind, c.start, chunk)
           x == SlotOf[<<c.start, epoch, generation>>]
<1>1. c \in Publishing /\ InChunks(s, c)
  <2>1. c \in Publishing /\ c.pc \in {"publish", "scan"}
    BY CallIs DEF Publish, SInv, IsAt
  <2> QED BY <2>1 DEF SInv, Sound, InAccess
<1>2. chunk \in 1 .. MaxCount /\ c.start + chunk <= MaxStart + 1 /\ c.start \in Nat
      /\ c.start \in Cell /\ c.kind \in Kinds
  BY <1>1, ChunkIs
<1>3. /\ word \in Words /\ CellsOf(word) = c.start .. c.start + chunk - 1
      /\ CellsOf(word) \subseteq Cell
  <2>1. Typed
    BY DEF SInv
  <2> HIDE DEF c
  <2> QED BY <1>1, <2>1, WordIs
<1>4. x \in Slot
  BY <1>2 DEF SInv, Typed
<1>5. UNCHANGED <<launch, epoch, token, made>> /\ table' = [table EXCEPT ![x] = word]
  BY DEF Publish
<1>6. ASSUME call' \in [Subgroup -> Calls], \A r \in Subgroup : InAccess(r, call'[r])
      PROVE  SInv'
  <2>1. Sound'
    BY <1>5, <1>6, SoundStep
  <2>2. /\ table' \in [Slot -> {Empty} \cup Words]
        /\ \A y \in Slot : table'[y] = Empty \/ CellsOf(table'[y]) \subseteq Cell
    BY <1>3, <1>4, <1>5 DEF SInv, Typed
  <2> QED BY <1>5, <1>6, <2>1, <2>2 DEF SInv, Typed, launch
<1> HIDE DEF c, chunk, word, x
<1>7. CASE context = "reporting"
  <2>1. PICK step \in Steps :
          call' = [Displaced(s, x) EXCEPT ![s] =
            [pc |-> "scan", kind |-> c.kind, access |-> c.access,
             start |-> c.start, end |-> c.end, published |-> c.published,
             due |-> c.due \cup DueAfterExchange(word, x),
             word |-> word, slot |-> x, step |-> step, probe |-> 0]]
    BY <1>7 DEF Publish, c, chunk, word, x
  <2> DEFINE new == [pc |-> "scan", kind |-> c.kind, access |-> c.access,
                     start |-> c.start, end |-> c.end, published |-> c.published,
                     due |-> c.due \cup DueAfterExchange(word, x),
                     word |-> word, slot |-> x, step |-> step, probe |-> 0]
  <2>2. step \in Nat
    BY StepsAre
  <2>3. DueAfterExchange(word, x) \subseteq Slot
    BY DEF DueAfterExchange
  <2>4. new \in Scanning
    <3>1. /\ c.access \in Accesses /\ c.end \in Nat
          /\ c.published \in SUBSET SUBSET Nat /\ c.due \in SUBSET Slot
      BY <1>1 DEF Publishing
    <3> QED BY <1>2, <1>3, <1>4, <2>2, <2>3, <3>1 DEF Scanning
  <2>5. InChunks(s, new)
    BY <1>1 DEF InChunks
  <2>6. Chunk(new) = chunk
    BY DEF Chunk, chunk
  <2>7. InAccess(s, new)
    BY <1>7, <2>5, <2>6 DEF InAccess, word
  <2> HIDE DEF new
  <2>8. DOMAIN Displaced(s, x) = Subgroup
    BY DEF Displaced
  <2>9. Displaced(s, x) \in [Subgroup -> Calls]
    BY <1>4, DisplacedIs DEF Displaced
  <2>10. call' = [Displaced(s, x) EXCEPT ![s] = new]
    BY <2>1 DEF new
  <2>11. call' \in [Subgroup -> Calls]
    BY <2>4, <2>9, <2>10 DEF Calls
  <2>12. ASSUME NEW r \in Subgroup PROVE InAccess(r, call'[r])
    <3>1. CASE r = s
      BY <2>7, <2>9, <2>10, <3>1
    <3>2. CASE r # s
      BY <1>4, <2>9, <2>10, <3>2, DisplacedIs
    <3> QED BY <3>1, <3>2
  <2> QED BY <1>6, <2>11, <2>12
<1>8. CASE context = "publish_only"
  <2>1. call' = [call EXCEPT ![s] = NextChunk(c, chunk, word)]
    BY <1>8 DEF Publish, c, chunk, word
  <2>2. /\ NextChunk(c, chunk, word) \in Calls
        /\ InAccess(s, NextChunk(c, chunk, word))
    BY <1>1, <1>3, NextChunkIs DEF Calls, chunk
  <2> QED BY <1>6, <2>1, <2>2 DEF SInv, Typed, Sound
<1> QED BY <1>7, <1>8 DEF Publish

LEMMA ScanProbeInv ==
  ASSUME SInv, NEW s \in Subgroup, ScanProbe(s)
  PROVE  SInv'
<1> DEFINE c == call[s]
           index == (c.slot + c.probe * c.step) % Capacity
           left == IF Reports(c.word, table[index]) THEN c.due \ {index} ELSE c.due
           after == [c EXCEPT !.probe = @ + 1, !.due = left]
           new == IF after.probe < Probes THEN after ELSE NextChunk(after, Chunk(c), c.word)
<1>1. c \in Scanning /\ InChunks(s, c) /\ context = "reporting"
      /\ c.word = Packed(s, c.kind, c.start, Chunk(c))
  <2>1. c \in Scanning /\ c.pc = "scan"
    BY CallIs DEF ScanProbe, SInv, IsAt
  <2> QED BY <2>1 DEF SInv, Sound, InAccess
<1>2. CellsOf(c.word) = c.start .. c.start + Chunk(c) - 1
  <2>1. Typed
    BY DEF SInv
  <2> HIDE DEF c
  <2> QED BY <1>1, <2>1, WordIs
<1>3. UNCHANGED <<launch, epoch, token, table, made>> /\ call' = [call EXCEPT ![s] = new]
  BY DEF ScanProbe
<1> HIDE DEF c, index
<1>9. left \subseteq c.due
  OBVIOUS
<1> HIDE DEF left
<1>4. /\ after \in Scanning /\ Chunk(after) = Chunk(c)
      /\ after.start = c.start /\ after.kind = c.kind /\ after.word = c.word
      /\ InChunks(s, after)
  <2>1. c.due \in SUBSET Slot /\ c.probe + 1 \in Nat
    BY <1>1 DEF Scanning
  <2>2. after \in Scanning
    BY <1>1, <1>9, <2>1 DEF Scanning
  <2>3. /\ after.start = c.start /\ after.kind = c.kind /\ after.word = c.word
        /\ after.end = c.end /\ after.access = c.access /\ after.published = c.published
    BY <1>1 DEF Scanning
  <2> QED BY <1>1, <2>2, <2>3 DEF Chunk, InChunks
<1> HIDE DEF after
<1>5. InAccess(s, after)
  BY <1>1, <1>4 DEF InAccess, Scanning
<1>6. /\ NextChunk(after, Chunk(c), c.word) \in Publishing \cup Returning
      /\ InAccess(s, NextChunk(after, Chunk(c), c.word))
  BY <1>2, <1>4, NextChunkIs
<1>7. new \in Calls /\ InAccess(s, new)
  BY <1>4, <1>5, <1>6 DEF Calls
<1> HIDE DEF new
<1>8. call' \in [Subgroup -> Calls] /\ \A r \in Subgroup : InAccess(r, call'[r])
  BY <1>3, <1>7 DEF SInv, Typed, Sound
<1> QED BY <1>3, <1>8, SoundStep DEF SInv, Typed, launch

LEMMA EndAccessInv ==
  ASSUME SInv, NEW s \in Subgroup, EndAccess(s)
  PROVE  SInv'
<1>1. Idle \in Calls /\ InAccess(s, Idle)
  BY DEF Calls, Idle, InAccess
<1>2. call' \in [Subgroup -> Calls] /\ \A r \in Subgroup : InAccess(r, call'[r])
  BY <1>1 DEF EndAccess, SInv, Typed, Sound
<1> QED BY <1>2, SoundStep DEF EndAccess, SInv, Typed, launch

LEMMA AcquireInv ==
  ASSUME SInv, NEW s \in Subgroup, NEW p \in Subgroup, Acquire(s, p)
  PROVE  SInv'
<1>1. /\ UNCHANGED <<launch, epoch, table, made>> /\ token[s][p] <= epoch
      /\ token' = [token EXCEPT ![s][p] = epoch + 1]
      /\ call' = IF IsAt(s, "idle") THEN call
                 ELSE [call EXCEPT ![s].due = {y \in @ : table[y].owner # p}]
  BY DEF Acquire
<1>2. token' \in [Subgroup -> [Subgroup -> 0 .. MaxEpoch + 1]]
  <2>1. epoch + 1 \in 0 .. MaxEpoch + 1
    BY DEF SInv, Typed, Epoch
  <2> QED BY <1>1, <2>1 DEF SInv, Typed
<1>3. call' \in [Subgroup -> Calls] /\ \A r \in Subgroup : InAccess(r, call'[r])
  <2>1. CASE IsAt(s, "idle")
    BY <1>1, <2>1 DEF SInv, Typed, Sound
  <2>2. CASE ~IsAt(s, "idle")
    <3> DEFINE c == call[s]
               d == [c EXCEPT !.due = {y \in @ : table[y].owner # p}]
    <3>1. call' = [call EXCEPT ![s] = d]
      BY <1>1, <2>2
    <3>2. c \in Publishing \cup Scanning \cup Returning /\ InAccess(s, c)
      BY <2>2, CallIs DEF SInv, Sound, IsAt
    <3> HIDE DEF c
    <3>3. d \in Calls /\ InAccess(s, d)
      <4>1. CASE c \in Publishing
        BY <3>2, <4>1 DEF Publishing, InAccess, InChunks, Calls
      <4>2. CASE c \in Scanning
        <5>1. d \in Scanning /\ Chunk(d) = Chunk(c)
          BY <4>2 DEF Scanning, Chunk
        <5> QED BY <3>2, <4>2, <5>1 DEF Scanning, InAccess, InChunks, Calls
      <4>3. CASE c \in Returning
        BY <3>2, <4>3 DEF Returning, InAccess, Calls
      <4> QED BY <3>2, <4>1, <4>2, <4>3
    <3> HIDE DEF d
    <3> QED BY <3>1, <3>3 DEF SInv, Typed, Sound
  <2> QED BY <2>1, <2>2
<1> QED BY <1>1, <1>2, <1>3, SoundStep DEF SInv, Typed, launch

\* Between accesses the invariant asks nothing of the calls.
LEMMA IdleInv ==
  ASSUME SInv, AllIdle, UNCHANGED call
  PROVE  Sound'
<1>1. \A s \in Subgroup : call'[s].pc = "idle"
  BY DEF AllIdle, IsAt
<1> QED BY <1>1 DEF Sound, InAccess

LEMMA EndEpochInv ==
  ASSUME SInv, EndEpoch
  PROVE  SInv'
BY IdleInv DEF EndEpoch, SInv, Typed, launch, Epoch

LEMMA LaunchInv ==
  ASSUME SInv, Launch
  PROVE  SInv'
<1>1. NoTokens \in [Subgroup -> [Subgroup -> 0 .. MaxEpoch + 1]]
  BY DEF NoTokens
<1> QED BY <1>1, IdleInv DEF Launch, SInv, Typed, Epoch, Generation

LEMMA SNext == SInv /\ [Next]_vars => SInv'
<1> SUFFICES ASSUME SInv, [Next]_vars PROVE SInv'
  OBVIOUS
<1>1. ASSUME NEW s \in Subgroup, NEW a \in Accesses, NEW k \in Kinds, BeginAccess(s, a, k)
      PROVE  SInv'
  BY <1>1, BeginAccessInv
<1>2. ASSUME NEW s \in Subgroup, Publish(s) PROVE SInv'
  BY <1>2, PublishInv
<1>3. ASSUME NEW s \in Subgroup, ScanProbe(s) PROVE SInv'
  BY <1>3, ScanProbeInv
<1>4. ASSUME NEW s \in Subgroup, EndAccess(s) PROVE SInv'
  BY <1>4, EndAccessInv
<1>5. ASSUME NEW s \in Subgroup, NEW p \in Subgroup, Acquire(s, p) PROVE SInv'
  BY <1>5, AcquireInv
<1>6. CASE EndEpoch
  BY <1>6, EndEpochInv
<1>7. CASE Launch
  BY <1>7, LaunchInv
<1>8. CASE UNCHANGED vars
  <2>1. UNCHANGED <<launch, context, generation, epoch, token, table, call, made>>
    BY <1>8 DEF vars, launch
  <2>2. Sound'
    BY <2>1, SoundStep DEF SInv, Sound
  <2> QED BY <2>1, <2>2 DEF SInv, Typed
<1> QED BY <1>1, <1>2, <1>3, <1>4, <1>5, <1>6, <1>7, <1>8 DEF Next

LEMMA SInvariance == Spec => []SInv
BY SInit, SNext, PTL DEF Spec

\* No word outgrows its fields, names a cell beyond the last, or is put out
\* for no cell (pack_sampled_watchpoint_entry).
THEOREM SampledTypes == Spec => []STypeOK
<1>1. SInv => STypeOK
  BY CallIs DEF SInv, STypeOK, Typed
<1> QED BY <1>1, SInvariance, PTL

\* The words of an access tile the cells its bytes touch, and an access that
\* leaves the cells puts out nothing and is told of.
THEOREM AccessesAreTiled == Spec => []RangeTiled
<1>1. SInv => RangeTiled
  <2> SUFFICES ASSUME SInv, NEW s \in Subgroup, IsAt(s, "return")
               PROVE  LET c == call[s]
                          fits == CellsTouched(c.access) \subseteq Cell
                      IN  /\ UNION c.published = (IF fits THEN CellsTouched(c.access) ELSE {})
                          /\ \A p, q \in c.published : p = q \/ p \cap q = {}
                          /\ ~fits /\ context = "reporting" => c.full
    BY DEF RangeTiled
  <2> DEFINE c == call[s]
  <2>1. c.access \in Accesses /\ c.pc = "return"
    BY CallIs DEF Returning, IsAt, SInv
  <2>2. /\ Tiled(c.published, FirstCell(c.access),
                 IF FitsCells(c.access) THEN EndCell(c.access) ELSE FirstCell(c.access))
        /\ ~FitsCells(c.access) /\ context = "reporting" => c.full
    BY <2>1 DEF SInv, Sound, InAccess
  <2> HIDE DEF c
  <2>3. /\ FirstCell(c.access) \in Nat /\ EndCell(c.access) \in Nat
        /\ FirstCell(c.access) < EndCell(c.access)
        /\ CellsTouched(c.access) = FirstCell(c.access) .. EndCell(c.access) - 1
    BY <2>1, CellsTouchedAre
  <2>4. FitsCells(c.access) <=> CellsTouched(c.access) \subseteq Cell
    <3>1. EndCell(c.access) - 1 \in CellsTouched(c.access)
      BY <2>3
    <3> QED BY <2>3, <3>1 DEF FitsCells, Cell
  <2>5. FirstCell(c.access) .. FirstCell(c.access) - 1 = {}
    BY <2>3
  <2> QED BY <2>2, <2>3, <2>4, <2>5 DEF Tiled, c
<1> QED BY <1>1, SInvariance, PTL

-------------------------------------------------------------------------------
\* Reports

\* Words of this launch are of an epoch so far, and those of this epoch tell of
\* accesses that were made in it.
Dated ==
  \A x \in Slot : table[x] # Empty =>
    /\ table[x].generation <= generation
    /\ table[x].generation = generation =>
         /\ table[x].epoch <= epoch
         /\ table[x].epoch = epoch =>
              \A cell \in CellsOf(table[x]) : <<table[x].owner, cell, table[x].kind>> \in made

\* The bits of a word hold every epoch and generation of the run.
NoWrap == MaxEpoch < EpochModulus /\ MaxLaunch < GenerationModulus

LEMMA DateIs ==
  ASSUME NoWrap, Typed, NEW s, NEW k, NEW start, NEW chunk
  PROVE  /\ Packed(s, k, start, chunk).epoch = epoch
         /\ Packed(s, k, start, chunk).generation = generation
         /\ epoch \in Nat /\ generation \in Nat
<1>1. epoch \in 0 .. EpochModulus - 1 /\ generation \in 0 .. GenerationModulus - 1
  BY DEF NoWrap, Typed, Epoch, Generation
<1>2. epoch % EpochModulus = epoch /\ generation % GenerationModulus = generation
  BY <1>1, Remainder
<1> QED BY <1>1, <1>2 DEF Packed

\* The cells of the word in hand are among those the access made known.
LEMMA WordMade ==
  ASSUME NEW s, NEW c \in Publishing \cup Scanning, InChunks(s, c),
         NEW word, CellsOf(word) = c.start .. c.start + Chunk(c) - 1
  PROVE  \A cell \in CellsOf(word) : <<s, cell, c.kind>> \in made
BY InChunksCells DEF InChunks

LEMMA DatedInit == Init => Dated
BY DEF Init, Dated

LEMMA DatedNext ==
  ASSUME NoWrap, SInv, Dated, [Next]_vars
  PROVE  Dated'
<1>1. ASSUME UNCHANGED <<launch, epoch, table>>, made \subseteq made'
      PROVE  Dated'
  BY <1>1 DEF Dated, launch
<1>2. ASSUME NEW s \in Subgroup, NEW a \in Accesses, NEW k \in Kinds, BeginAccess(s, a, k)
      PROVE  Dated'
  BY <1>1, <1>2 DEF BeginAccess
<1>3. ASSUME NEW s \in Subgroup, Publish(s) PROVE Dated'
  <2> DEFINE c == call[s]
             word == Packed(s, c.kind, c.start, Chunk(c))
             x == SlotOf[<<c.start, epoch, generation>>]
  <2>1. c \in Publishing \cup Scanning /\ InChunks(s, c)
    <3>1. c \in Publishing /\ c.pc \in {"publish", "scan"}
      BY <1>3, CallIs DEF Publish, SInv, IsAt
    <3> QED BY <3>1 DEF SInv, Sound, InAccess
  <2>2. UNCHANGED <<launch, epoch, made>> /\ table' = [table EXCEPT ![x] = word]
    BY <1>3 DEF Publish
  <2> HIDE DEF c, x
  <2>3. word.epoch = epoch /\ word.generation = generation /\ epoch \in Nat /\ generation \in Nat
    BY DateIs DEF SInv
  <2>4. /\ word.owner = s
        /\ word.kind = c.kind
        /\ CellsOf(word) = c.start .. c.start + Chunk(c) - 1
    BY <2>1, WordIs DEF SInv
  <2> HIDE DEF word
  <2>5. \A cell \in CellsOf(word) : <<word.owner, cell, word.kind>> \in made
    BY <2>1, <2>4, WordMade
  <2>6. \A y \in Slot : table'[y] = word \/ table'[y] = table[y]
    BY <2>2 DEF SInv, Typed
  <2> QED BY <2>2, <2>3, <2>5, <2>6 DEF Dated, launch
<1>4. ASSUME NEW s \in Subgroup, ScanProbe(s) \/ EndAccess(s) PROVE Dated'
  BY <1>1, <1>4 DEF ScanProbe, EndAccess
<1>5. ASSUME NEW s \in Subgroup, NEW p \in Subgroup, Acquire(s, p) PROVE Dated'
  BY <1>1, <1>5 DEF Acquire
<1>6. CASE EndEpoch
  <2>1. \A x \in Slot : table[x] # Empty /\ table[x].generation = generation
                          => table[x].epoch <= epoch /\ table[x].epoch \in Nat
    BY DEF Dated, SInv, Typed, Words
  <2>2. epoch' = epoch + 1 /\ UNCHANGED <<launch, table>> /\ epoch \in Nat
    BY <1>6 DEF EndEpoch, SInv, Typed, Epoch
  <2> QED BY <2>1, <2>2 DEF Dated, launch
<1>7. CASE Launch
  <2>1. \A x \in Slot : table[x] # Empty
                          => table[x].generation <= generation /\ table[x].generation \in Nat
    BY DEF Dated, SInv, Typed, Words
  <2>2. generation' = generation + 1 /\ UNCHANGED table /\ generation \in Nat
    BY <1>7 DEF Launch, SInv, Typed, Generation
  <2> QED BY <2>1, <2>2 DEF Dated
<1>8. CASE UNCHANGED vars
  BY <1>1, <1>8 DEF vars
<1> QED BY <1>2, <1>3, <1>4, <1>5, <1>6, <1>7, <1>8 DEF Next

\* While the bits of a word suffice, what the backend reports is a race of two
\* subgroups in the present epoch, whatever older words the table still holds
\* (sampled_watchpoints_conflict).
THEOREM SampledReportsAreRaces ==
  ASSUME NoWrap
  PROVE  Spec => []ReportsAreRaces
<1> DEFINE Inv == SInv /\ Dated
<1>1. Init => Inv
  BY SInit, DatedInit
<1>2. Inv /\ [Next]_vars => Inv'
  BY SNext, DatedNext
<1>3. Inv => ReportsAreRaces
  <2> SUFFICES ASSUME Inv, NEW s \in Subgroup, NEW x \in Slot,
                      IsAt(s, "publish") \/ IsAt(s, "scan"),
                      Reports(WordInHand(s), table[x])
               PROVE  \E cell \in CellsOf(WordInHand(s)) \cap CellsOf(table[x]) :
                        /\ <<s, cell, WordInHand(s).kind>> \in made
                        /\ <<table[x].owner, cell, table[x].kind>> \in made
    BY DEF ReportsAreRaces
  <2> DEFINE c == call[s]
             word == WordInHand(s)
             prior == table[x]
  <2>1. c \in Publishing \cup Scanning /\ InChunks(s, c)
    <3>1. c \in Publishing \cup Scanning /\ c.pc \in {"publish", "scan"}
      BY CallIs DEF SInv, IsAt
    <3> QED BY <3>1 DEF SInv, Sound, InAccess
  <2>2. word = Packed(s, c.kind, c.start, Chunk(c))
    BY <2>1 DEF WordInHand, IsAt, SInv, Sound, InAccess
  <2> HIDE DEF c, word
  <2>3. /\ word \in Words
        /\ word.kind = c.kind
        /\ CellsOf(word) = c.start .. c.start + Chunk(c) - 1
    BY <2>1, <2>2, WordIs DEF SInv
  <2>4. \A cell \in CellsOf(word) : <<s, cell, word.kind>> \in made
    BY <2>1, <2>3, WordMade
  <2>5. /\ prior # Empty /\ prior.epoch = epoch /\ prior.generation = generation
        /\ word.start < prior.start + prior.field + 1
        /\ prior.start < word.start + word.field + 1
    <3>1. WordsConflict(word, prior)
      BY DEF Reports, word
    <3>2. prior.kind # "empty" /\ word.epoch = prior.epoch /\ word.generation = prior.generation
          /\ Overlap(word, prior)
      BY <3>1 DEF WordsConflict
    <3>3. word.epoch = epoch /\ word.generation = generation
      BY <2>2, DateIs DEF SInv
    <3>4. prior # Empty
      BY <3>2 DEF Empty
    <3> HIDE DEF prior
    <3> QED BY <3>2, <3>3, <3>4 DEF Overlap
  <2>6. \A cell \in CellsOf(prior) : <<prior.owner, cell, prior.kind>> \in made
    BY <2>5 DEF Dated
  <2>7. prior \in Words
    BY <2>5 DEF SInv, Typed
  <2> HIDE DEF prior
  <2>8. /\ word.start \in Nat /\ word.field \in Nat
        /\ prior.start \in Nat /\ prior.field \in Nat
    BY <2>3, <2>7 DEF Words, Cell
  <2>9. \E cell : cell \in CellsOf(word) \cap CellsOf(prior)
    <3> DEFINE cell == IF word.start < prior.start THEN prior.start ELSE word.start
    <3>1. cell \in CellsOf(word) \cap CellsOf(prior)
      BY <2>5, <2>8 DEF CellsOf
    <3> QED BY <3>1
  <2> QED BY <2>4, <2>6, <2>9 DEF word, prior
<1> QED BY <1>1, <1>2, <1>3, PTL DEF Spec

-------------------------------------------------------------------------------
\* The scan

\* The powers of two, as the least set with one and the double of each member
PowersOfTwo ==
  {p \in Nat : \A T \in SUBSET Nat : 1 \in T /\ (\A n \in T : 2 * n \in T) => p \in T}

\* An odd factor does not help a power of two to divide.
LEMMA OddCancels ==
  ASSUME NEW p \in PowersOfTwo, NEW h \in Nat
  PROVE  \A n \in Nat : (\E k \in Nat : n * (2 * h + 1) = p * k) => \E m \in Nat : n = p * m
<1> DEFINE d == 2 * h + 1
           T == {c \in Nat : \A n \in Nat : (\E k \in Nat : n * d = c * k)
                                              => \E m \in Nat : n = c * m}
<1>1. 1 \in T
  <2>1. \A n \in Nat : n = 1 * n
    OBVIOUS
  <2> QED BY <2>1
<1>2. ASSUME NEW c \in T PROVE 2 * c \in T
  <2> HIDE DEF d
  <2>5. c \in Nat /\ 2 * c \in Nat
    OBVIOUS
  <2> SUFFICES ASSUME NEW n \in Nat, NEW k \in Nat, n * d = (2 * c) * k
               PROVE  \E m \in Nat : n = (2 * c) * m
    BY <2>5
  <2> USE DEF d
  <2>1. c \in Nat /\ c * k \in Nat /\ (2 * c) * k = 2 * (c * k)
    BY <2>5
  <2>2. PICK a \in Nat : n = 2 * a \/ n = 2 * a + 1
    <3>1. n \div 2 \in Nat /\ n % 2 \in 0 .. 1 /\ n = 2 * (n \div 2) + (n % 2)
      BY DivMod
    <3> QED BY <3>1
  <2>3. CASE n = 2 * a + 1
    <3>1. (2 * a + 1) * (2 * h + 1) = 2 * (2 * (a * h) + a + h) + 1
      OBVIOUS
    <3>2. a * h \in Nat
      OBVIOUS
    <3>3. 2 * (2 * (a * h) + a + h) + 1 = 2 * (c * k)
      BY <2>1, <2>3, <3>1
    <3> QED BY <2>1, <3>2, <3>3
  <2>4. CASE n = 2 * a
    <3>1. (2 * a) * d = 2 * (a * d) /\ a * d \in Nat
      OBVIOUS
    <3>2. a * d = c * k
      BY <2>1, <2>4, <3>1
    <3>3. PICK m \in Nat : a = c * m
      BY <3>2
    <3>4. n = (2 * c) * m
      BY <2>1, <2>4, <3>3
    <3> QED BY <3>4
  <2> QED BY <2>2, <2>3, <2>4
<1> HIDE DEF d
<1>3. T \in SUBSET Nat
  OBVIOUS
<1> HIDE DEF T
<1>4. p \in T
  BY <1>1, <1>2, <1>3 DEF PowersOfTwo
<1> QED BY <1>4 DEF T, d

LEMMA EvenOrOne ==
  ASSUME NEW p \in PowersOfTwo
  PROVE  p = 1 \/ \E c \in Nat : p = 2 * c
<1> DEFINE T == {n \in Nat : n = 1 \/ \E c \in Nat : n = 2 * c}
<1>1. 1 \in T /\ T \in SUBSET Nat /\ \A n \in T : 2 * n \in T
  OBVIOUS
<1> HIDE DEF T
<1>2. p \in T
  BY <1>1 DEF PowersOfTwo
<1> QED BY <1>2 DEF T

LEMMA SlotDivision ==
  \A a \in Nat : /\ a \div Capacity \in Nat /\ a % Capacity \in Nat
                 /\ a = Capacity * (a \div Capacity) + (a % Capacity)
BY DivMod

\* Every step but that of a table with one slot is odd.
LEMMA StepIsOdd ==
  ASSUME Capacity \in PowersOfTwo, Capacity # 1, NEW step \in Steps
  PROVE  \E h \in Nat : step = 2 * h + 1
<1>1. PICK c \in Nat : Capacity = 2 * c
  BY EvenOrOne
<1>2. PICK n \in Slot : step = (2 * n + 1) % Capacity
  BY DEF Steps
<1> DEFINE t == 2 * n + 1
           q == t \div Capacity
           r == t % Capacity
<1>3. n \in Nat /\ t \in Nat
  BY DEF Slot
<1>4. q \in Nat /\ r \in Nat /\ t = Capacity * q + r
  <2> HIDE DEF t
  <2> QED BY <1>3, SlotDivision
<1> HIDE DEF q, r
<1>5. c * q \in Nat /\ Capacity * q = 2 * (c * q)
  BY <1>1, <1>4
<1>6. r = 2 * (n - c * q) + 1 /\ n - c * q \in Nat
  BY <1>3, <1>4, <1>5
<1> QED BY <1>2, <1>6 DEF r

\* So the probes from any slot come to every slot.
LEMMA AllVisited ==
  ASSUME Capacity \in PowersOfTwo, NEW step \in Steps, NEW x \in Slot, NEW y \in Slot
  PROVE  \E j \in 0 .. Capacity - 1 : y = (x + j * step) % Capacity
<1>1. step \in Nat
  BY StepsAre
<1>2. CASE Capacity = 1
  <2>1. x = 0 /\ y = 0 /\ 0 \in 0 .. Capacity - 1
    BY <1>2 DEF Slot
  <2>2. 0 + 0 * step = 0 /\ 0 % 1 = 0
    BY <1>1
  <2> QED BY <1>2, <2>1, <2>2
<1>3. CASE Capacity # 1
  <2> DEFINE f == [j \in Slot |-> (x + j * step) % Capacity]
  <2>1. PICK h \in Nat : step = 2 * h + 1
    BY <1>3, StepIsOdd
  <2>2. \A j \in Slot : x + j * step \in Nat /\ j \in Nat
    <3> TAKE j \in Slot
    <3>1. x \in Nat /\ j \in Nat
      BY DEF Slot
    <3>2. j * step \in Nat
      BY <1>1, <3>1
    <3> QED BY <3>1, <3>2
  <2>3. f \in [Slot -> Slot]
    BY <2>2, DivMod DEF Slot
  <2>4. ASSUME NEW i \in Slot, NEW j \in Slot, i < j, f[i] = f[j] PROVE FALSE
    <3> DEFINE u == x + i * step
               v == x + j * step
               q1 == u \div Capacity
               q2 == v \div Capacity
               r == u % Capacity
    <3>7. u \in Nat /\ v \in Nat /\ v % Capacity = r
      BY <2>2, <2>4
    <3>1. /\ q1 \in Nat /\ q2 \in Nat /\ r \in Nat
          /\ x + i * step = Capacity * q1 + r
          /\ x + j * step = Capacity * q2 + r
      <4> HIDE DEF u, v
      <4>1. /\ q1 \in Nat /\ q2 \in Nat /\ r \in Nat
            /\ u = Capacity * q1 + r
            /\ v = Capacity * q2 + (v % Capacity)
        BY <3>7, SlotDivision
      <4> QED BY <3>7, <4>1 DEF u, v
    <3> HIDE DEF q1, q2, r
    <3>2. i \in Nat /\ j \in Nat /\ x \in Nat /\ j - i \in Nat
          /\ j - i > 0 /\ j - i < Capacity
      BY <2>4 DEF Slot
    <3>3. (j - i) * step = Capacity * (q2 - q1)
      <4>1. (j - i) * step = j * step - i * step /\ j * step \in Nat /\ i * step \in Nat
        BY <1>1, <3>2
      <4>2. Capacity * (q2 - q1) = Capacity * q2 - Capacity * q1
            /\ Capacity * q2 \in Nat /\ Capacity * q1 \in Nat
        BY <3>1
      <4> QED BY <3>1, <3>2, <4>1, <4>2
    <3>4. q2 - q1 \in Nat
      <4>1. (j - i) * step >= 0
        BY <1>1, <3>2
      <4>2. ASSUME NEW k \in Int, k < 0 PROVE Capacity * k < 0
        BY <4>2
      <4> QED BY <3>1, <3>3, <4>1, <4>2
    <3>5. PICK m \in Nat : j - i = Capacity * m
      <4>1. (j - i) * (2 * h + 1) = Capacity * (q2 - q1)
        BY <2>1, <3>3
      <4> DEFINE n == j - i
                 k == q2 - q1
      <4>2. n \in Nat /\ k \in Nat /\ n * (2 * h + 1) = Capacity * k
        BY <3>2, <3>4, <4>1
      <4> HIDE DEF n, k
      <4>3. \E m \in Nat : n = Capacity * m
        <5>1. \A a \in Nat : (\E b \in Nat : a * (2 * h + 1) = Capacity * b)
                               => \E m \in Nat : a = Capacity * m
          BY OddCancels
        <5> QED BY <4>2, <5>1, Zenon
      <4> QED BY <4>3 DEF n
    <3>6. m = 0 \/ Capacity * m >= Capacity
      OBVIOUS
    <3> QED BY <3>2, <3>5, <3>6
  <2>5. f \in Injection(Slot, Slot)
    <3>1. ASSUME NEW i \in Slot, NEW j \in Slot, f[i] = f[j] PROVE i = j
      <4>1. i \in Nat /\ j \in Nat
        BY DEF Slot
      <4> QED BY <2>4, <3>1, <4>1
    <3> QED BY <2>3, <3>1 DEF Injection, IsInjective
  <2>6. IsFiniteSet(Slot)
    BY FS_Interval DEF Slot
  <2>7. f \in Surjection(Slot, Slot)
    BY <2>5, <2>6, FS_Injection
  <2>8. PICK j \in Slot : f[j] = y
    BY <2>7 DEF Surjection
  <2> QED BY <2>8 DEF Slot
<1> QED BY <1>2, <1>3

\* The probes of the scan cover the table.
FullScan == ProbeCount = 0 \/ ProbeCount >= Capacity

\* Reports, of given tokens
Conflict(tokens, word, prior) ==
  WordsConflict(word, prior) /\ ~(tokens[word.owner][prior.owner] >= prior.epoch + 1)

\* What a scan has still to report is ahead of it, and is still a conflict.
Ahead(words, tokens, c) ==
  /\ c.pc \in {"publish", "return"} => c.due = {}
  /\ c.pc = "scan" =>
       /\ c.probe < Capacity
       /\ \A y \in c.due :
            /\ Conflict(tokens, c.word, words[y])
            /\ \E j \in c.probe .. Capacity - 1 : y = (c.slot + j * c.step) % Capacity

Tracked == \A s \in Subgroup : Ahead(table, token, call[s])

LEMMA TrackedInit == Init => Tracked
BY DEF Init, Tracked, Ahead, Idle

\* A call that gives up some of what it had to report, as others change words
\* it no longer waits for.
LEMMA AheadLess ==
  ASSUME NEW c \in Publishing \cup Scanning \cup Returning, NEW due \in SUBSET c.due,
         NEW words, NEW others, NEW tokens, NEW later, Ahead(words, tokens, c),
         \A y \in due : Conflict(tokens, c.word, words[y]) => Conflict(later, c.word, others[y])
  PROVE  Ahead(others, later, [c EXCEPT !.due = due])
<1> DEFINE d == [c EXCEPT !.due = due]
<1>1. CASE c \in Publishing \cup Returning
  <2>1. d.pc = c.pc /\ d.due = due /\ c.pc \in {"publish", "return"} /\ c.pc # "scan"
    BY <1>1 DEF Publishing, Returning
  <2> QED BY <2>1 DEF Ahead
<1>2. CASE c \in Scanning
  <2>1. /\ d.pc = "scan" /\ d.due = due /\ c.pc = "scan" /\ d.word = c.word
        /\ d.probe = c.probe /\ d.slot = c.slot /\ d.step = c.step
    BY <1>2 DEF Scanning
  <2> HIDE DEF d
  <2>2. Ahead(others, later, d)
    BY <2>1 DEF Ahead
  <2> QED BY <2>2 DEF d
<1> QED BY <1>1, <1>2

LEMMA TrackedPublish ==
  ASSUME Capacity \in PowersOfTwo, SInv, Tracked, NEW s \in Subgroup, Publish(s)
  PROVE  Tracked'
<1> DEFINE c == call[s]
           chunk == Chunk(c)
           word == Packed(s, c.kind, c.start, chunk)
           x == SlotOf[<<c.start, epoch, generation>>]
<1>1. c \in Publishing /\ InChunks(s, c) /\ c.due = {} /\ call \in [Subgroup -> Calls]
  <2>1. c \in Publishing /\ c.pc = "publish"
    BY CallIs DEF Publish, SInv, IsAt
  <2> QED BY <2>1 DEF SInv, Typed, Sound, InAccess, Tracked, Ahead
<1>2. x \in Slot
  <2>1. c.start \in Cell
    BY <1>1, ChunkIs
  <2> QED BY <2>1 DEF SInv, Typed
<1>3. UNCHANGED <<launch, epoch, token, made>> /\ table' = [table EXCEPT ![x] = word]
  BY DEF Publish
<1>4. \A y \in Slot : y # x => table'[y] = table[y]
  BY <1>3 DEF SInv, Typed
<1>5. CellsOf(word) = c.start .. c.start + Chunk(c) - 1
  <2>1. Typed
    BY DEF SInv
  <2> HIDE DEF c
  <2> QED BY <1>1, <2>1, WordIs
<1>6. ASSUME NEW r \in Subgroup PROVE Ahead(table, token, call[r])
  BY DEF Tracked
<1>7. SUFFICES ASSUME NEW r \in Subgroup PROVE Ahead(table', token, call'[r])
  BY <1>3 DEF Tracked
<1> HIDE DEF c, chunk, word, x
<1>8. CASE context = "reporting"
  <2>1. PICK step \in Steps :
          call' = [Displaced(s, x) EXCEPT ![s] =
            [pc |-> "scan", kind |-> c.kind, access |-> c.access,
             start |-> c.start, end |-> c.end, published |-> c.published,
             due |-> c.due \cup DueAfterExchange(word, x),
             word |-> word, slot |-> x, step |-> step, probe |-> 0]]
    BY <1>8 DEF Publish, c, chunk, word, x
  <2> DEFINE new == [pc |-> "scan", kind |-> c.kind, access |-> c.access,
                     start |-> c.start, end |-> c.end, published |-> c.published,
                     due |-> c.due \cup DueAfterExchange(word, x),
                     word |-> word, slot |-> x, step |-> step, probe |-> 0]
  <2>2. /\ new.pc = "scan" /\ new.word = word /\ new.slot = x /\ new.step = step
        /\ new.probe = 0 /\ new.due = DueAfterExchange(word, x)
    BY <1>1
  <2>3. call' = [Displaced(s, x) EXCEPT ![s] = new]
    BY <2>1
  <2> HIDE DEF new
  <2>4. CASE r = s
    <3>1. call'[s] = new
      BY <2>3 DEF Displaced
    <3>2. ASSUME NEW y \in DueAfterExchange(word, x)
          PROVE  /\ Conflict(token, word, table'[y])
                 /\ \E j \in 0 .. Capacity - 1 : y = (x + j * step) % Capacity
      <4>1. y \in Slot /\ y # x /\ Conflict(token, word, table[y])
        BY DEF DueAfterExchange, Reports, Acquired, Conflict
      <4>2. \E j \in 0 .. Capacity - 1 : y = (x + j * step) % Capacity
        BY <1>2, <4>1, AllVisited
      <4> QED BY <1>4, <4>1, <4>2
    <3>3. Capacity > 0
      OBVIOUS
    <3> QED BY <2>2, <2>4, <3>1, <3>2, <3>3 DEF Ahead
  <2>5. CASE r # s
    <3>1. call'[r] = IF IsAt(r, "idle") THEN call[r] ELSE [call[r] EXCEPT !.due = @ \ {x}]
      BY <2>3, <2>5 DEF Displaced
    <3>2. CASE IsAt(r, "idle")
      BY <3>1, <3>2 DEF Ahead, IsAt
    <3>3. CASE ~IsAt(r, "idle")
      <4>1. call[r] \in Publishing \cup Scanning \cup Returning
        BY <3>3, CallIs DEF SInv, IsAt
      <4>2. call[r].due \in SUBSET Slot
        BY <4>1 DEF Publishing, Scanning, Returning
      <4>3. \A y \in call[r].due \ {x} : table'[y] = table[y]
        BY <1>4, <4>2
      <4> DEFINE b == call[r]
      <4>4. call'[r] = [b EXCEPT !.due = b.due \ {x}]
        BY <3>1, <3>3
      <4>5. b.due \ {x} \in SUBSET b.due
        OBVIOUS
      <4>6. Ahead(table, token, b)
        BY <1>6
      <4>7. \A y \in b.due \ {x} : Conflict(token, b.word, table[y])
                                      => Conflict(token, b.word, table'[y])
        BY <4>3
      <4>8. b \in Publishing \cup Scanning \cup Returning
        BY <4>1
      <4> HIDE DEF b
      <4>9. Ahead(table', token, [b EXCEPT !.due = b.due \ {x}])
        BY <4>5, <4>6, <4>7, <4>8, AheadLess, Zenon
      <4> QED BY <4>4, <4>9
    <3> QED BY <3>2, <3>3
  <2> QED BY <2>4, <2>5
<1>9. CASE context = "publish_only"
  <2>1. call' = [call EXCEPT ![s] = NextChunk(c, chunk, word)]
    BY <1>9 DEF Publish, c, chunk, word
  <2>2. CASE r = s
    <3>1. /\ NextChunk(c, chunk, word) \in Publishing \cup Returning
          /\ NextChunk(c, chunk, word).due = {}
      BY <1>1, <1>5, NextChunkIs DEF chunk
    <3>2. call'[s] = NextChunk(c, chunk, word)
      BY <1>1, <2>1
    <3> HIDE DEF c, chunk, word
    <3> QED BY <2>2, <3>1, <3>2 DEF Ahead, Publishing, Returning
  <2>3. CASE r # s
    <3>1. call'[r] = call[r] /\ Ahead(table, token, call[r])
      BY <1>6, <2>1, <2>3
    <3>2. call[r].pc # "scan"
      BY <1>9 DEF SInv, Sound, InAccess
    <3> QED BY <3>1, <3>2 DEF Ahead
  <2> QED BY <2>2, <2>3
<1> QED BY <1>8, <1>9 DEF Publish

LEMMA TrackedScan ==
  ASSUME FullScan, SInv, Tracked, NEW s \in Subgroup, ScanProbe(s)
  PROVE  Tracked'
<1> DEFINE c == call[s]
           index == (c.slot + c.probe * c.step) % Capacity
           left == IF Reports(c.word, table[index]) THEN c.due \ {index} ELSE c.due
           after == [c EXCEPT !.probe = @ + 1, !.due = left]
           new == IF after.probe < Probes THEN after ELSE NextChunk(after, Chunk(c), c.word)
<1>1. /\ c \in Scanning /\ c.pc = "scan" /\ InChunks(s, c)
      /\ c.word = Packed(s, c.kind, c.start, Chunk(c))
      /\ call \in [Subgroup -> Calls]
  <2>1. c \in Scanning /\ c.pc = "scan"
    BY CallIs DEF ScanProbe, SInv, IsAt
  <2> QED BY <2>1 DEF SInv, Sound, InAccess, Typed
<1>2. UNCHANGED <<launch, epoch, token, table, made>> /\ call' = [call EXCEPT ![s] = new]
  BY DEF ScanProbe
<1>3. /\ c.probe < Capacity
      /\ \A y \in c.due : /\ Conflict(token, c.word, table[y])
                          /\ \E j \in c.probe .. Capacity - 1 :
                               y = (c.slot + j * c.step) % Capacity
  BY <1>1 DEF Tracked, Ahead
<1>4. Probes = Capacity
  BY DEF Probes, FullScan
<1>5. Reports(c.word, table[index]) <=> Conflict(token, c.word, table[index])
  BY DEF Reports, Acquired, Conflict
<1>6. index \notin left /\ left \subseteq c.due
  BY <1>3, <1>5
<1>7. CellsOf(c.word) = c.start .. c.start + Chunk(c) - 1
  <2>1. Typed
    BY DEF SInv
  <2> HIDE DEF c
  <2> QED BY <1>1, <2>1, WordIs
<1>8. c.probe \in Nat /\ c.due \subseteq Slot
  BY <1>1 DEF Scanning
<1>9. /\ after \in Scanning /\ after.pc = "scan" /\ after.probe = c.probe + 1
      /\ after.due = left /\ after.word = c.word /\ after.slot = c.slot /\ after.step = c.step
      /\ after.start = c.start /\ after.kind = c.kind
      /\ after.end = c.end /\ after.access = c.access /\ after.published = c.published
  <2> HIDE DEF c, left
  <2>1. left \in SUBSET Slot /\ c.probe + 1 \in Nat
    BY <1>6, <1>8
  <2>2. after \in Scanning
    BY <1>1, <2>1 DEF Scanning
  <2> QED BY <1>1, <2>2 DEF Scanning
<1> HIDE DEF c, left, after
<1>10. \A y \in left : \E j \in c.probe + 1 .. Capacity - 1 :
         y = (c.slot + j * c.step) % Capacity
  <2> TAKE y \in left
  <2>1. PICK j \in c.probe .. Capacity - 1 : y = (c.slot + j * c.step) % Capacity
    BY <1>3, <1>6
  <2>2. j # c.probe
    BY <1>6, <2>1
  <2>3. j \in c.probe + 1 .. Capacity - 1
    BY <1>8, <2>1, <2>2
  <2> QED BY <2>1, <2>3
<1> HIDE DEF index
<1>11. Ahead(table, token, new)
  <2>1. CASE after.probe < Probes
    <3>1. new = after /\ after.probe < Capacity
      BY <1>4, <2>1
    <3>2. \A y \in left : Conflict(token, c.word, table[y])
      BY <1>3, <1>6
    <3> QED BY <1>9, <1>10, <3>1, <3>2 DEF Ahead
  <2>2. CASE ~(after.probe < Probes)
    <3>1. new = NextChunk(after, Chunk(c), c.word)
      BY <2>2
    <3>2. c.probe + 1 .. Capacity - 1 = {}
      BY <1>3, <1>4, <1>8, <1>9, <2>2
    <3>3. after.due = {}
      BY <1>9, <1>10, <3>2
    <3>4. Chunk(after) = Chunk(c) /\ InChunks(s, after)
      BY <1>1, <1>9 DEF Chunk, InChunks
    <3>5. /\ NextChunk(after, Chunk(after), c.word) \in Publishing \cup Returning
          /\ NextChunk(after, Chunk(after), c.word).due = {}
      BY <1>7, <1>9, <3>3, <3>4, NextChunkIs
    <3> HIDE DEF new
    <3>6. new.due = {} /\ new.pc # "scan"
      BY <3>1, <3>4, <3>5 DEF Publishing, Returning
    <3> QED BY <3>6 DEF Ahead
  <2> QED BY <2>1, <2>2
<1> HIDE DEF new
<1> QED BY <1>1, <1>2, <1>11 DEF Tracked

LEMMA TrackedAcquire ==
  ASSUME SInv, Tracked, NEW s \in Subgroup, NEW p \in Subgroup, Acquire(s, p)
  PROVE  Tracked'
<1>1. /\ UNCHANGED table /\ token' = [token EXCEPT ![s][p] = epoch + 1]
      /\ call' = IF IsAt(s, "idle") THEN call
                 ELSE [call EXCEPT ![s].due = {y \in @ : table[y].owner # p}]
      /\ call \in [Subgroup -> Calls] /\ token \in [Subgroup -> [Subgroup -> 0 .. MaxEpoch + 1]]
  BY DEF Acquire, SInv, Typed
<1>2. \A r, q \in Subgroup : ~(r = s /\ q = p) => token'[r][q] = token[r][q]
  BY <1>1
<1>3. SUFFICES ASSUME NEW r \in Subgroup PROVE Ahead(table, token', call'[r])
  BY <1>1 DEF Tracked
<1> DEFINE c == call[r]
           due == IF r = s THEN {y \in c.due : table[y].owner # p} ELSE c.due
<1>4. CASE IsAt(r, "idle")
  BY <1>1, <1>4 DEF Ahead, IsAt
<1>5. CASE ~IsAt(r, "idle")
  <2>1. /\ c \in Publishing \cup Scanning \cup Returning
        /\ Ahead(table, token, c) /\ c.due \subseteq Slot
    <3>1. c \in Publishing \cup Scanning \cup Returning
      BY <1>5, CallIs DEF SInv, IsAt
    <3> QED BY <3>1 DEF Tracked, Publishing, Scanning, Returning
  <2>2. call'[r] = [c EXCEPT !.due = due]
    <3>1. CASE r = s
      BY <1>1, <1>5, <3>1
    <3>2. CASE r # s
      <4>1. call'[r] = c
        BY <1>1, <3>2
      <4>2. c = [c EXCEPT !.due = c.due]
        <5> HIDE DEF c
        <5> QED BY <2>1 DEF Publishing, Scanning, Returning
      <4> QED BY <3>2, <4>1, <4>2
    <3> QED BY <3>1, <3>2
  <2>3. due \in SUBSET c.due
    OBVIOUS
  <2>4. CASE c.pc = "scan"
    <3>1. c.word.owner = r
      <4>1. InAccess(r, c)
        BY DEF SInv, Sound
      <4> HIDE DEF c
      <4> QED BY <2>4, <4>1 DEF InAccess, Packed
    <3>2. \A y \in due : Conflict(token, c.word, table[y]) => Conflict(token', c.word, table[y])
      <4> SUFFICES ASSUME NEW y \in due, Conflict(token, c.word, table[y])
                   PROVE  Conflict(token', c.word, table[y])
        OBVIOUS
      <4>1. table[y] # Empty /\ table[y] \in Words
        BY <2>1 DEF Conflict, WordsConflict, Empty, SInv, Typed
      <4>2. table[y].owner \in Subgroup /\ ~(r = s /\ table[y].owner = p)
        BY <4>1 DEF Words
      <4> QED BY <1>2, <3>1, <4>2 DEF Conflict
    <3> HIDE DEF c, due
    <3> QED BY <2>1, <2>2, <2>3, <3>2, AheadLess
  <2>5. CASE c.pc # "scan"
    <3>1. due = {} /\ c.pc \in {"publish", "return"}
      BY <2>1, <2>5 DEF Ahead, Publishing, Scanning, Returning
    <3>2. \A y \in due : Conflict(token, c.word, table[y]) => Conflict(token', c.word, table[y])
      BY <3>1
    <3> HIDE DEF c, due
    <3> QED BY <2>1, <2>2, <2>3, <3>2, AheadLess
  <2> QED BY <2>4, <2>5
<1> QED BY <1>4, <1>5

LEMMA TrackedNext ==
  ASSUME Capacity \in PowersOfTwo, FullScan, SInv, Tracked, [Next]_vars
  PROVE  Tracked'
<1>1. call \in [Subgroup -> Calls]
  BY DEF SInv, Typed
<1>2. ASSUME UNCHANGED <<table, token>>, NEW s \in Subgroup, NEW new,
             call' = [call EXCEPT ![s] = new], Ahead(table, token, new)
      PROVE  Tracked'
  BY <1>1, <1>2 DEF Tracked
<1>3. ASSUME NEW s \in Subgroup, NEW a \in Accesses, NEW k \in Kinds, BeginAccess(s, a, k)
      PROVE  Tracked'
  <2> DEFINE end == IF IsStatic(a) THEN FirstCell(a) + StaticCount(a) ELSE EndCell(a)
             refused == IF IsStatic(a) THEN TooFarStatic(a) ELSE TooFar(a)
             c == Begin(a, k, FirstCell(a), end)
             new == IF refused THEN Return(c, context = "reporting") ELSE c
  <2>1. UNCHANGED <<table, token>> /\ call' = [call EXCEPT ![s] = new]
    BY <1>3 DEF BeginAccess
  <2>2. new.due = {} /\ new.pc # "scan"
    <3> HIDE DEF refused, end
    <3> QED BY DEF Begin, Return
  <2> HIDE DEF new
  <2> QED BY <1>2, <2>1, <2>2 DEF Ahead
<1>4. ASSUME NEW s \in Subgroup, EndAccess(s) PROVE Tracked'
  <2>1. Ahead(table, token, Idle)
    BY DEF Ahead, Idle
  <2> QED BY <1>2, <1>4, <2>1 DEF EndAccess
<1>5. CASE EndEpoch \/ Launch
  <2>1. \A s \in Subgroup : call'[s].pc = "idle"
    BY <1>5 DEF EndEpoch, Launch, AllIdle, IsAt
  <2> QED BY <2>1 DEF Tracked, Ahead
<1>6. CASE UNCHANGED vars
  BY <1>6 DEF vars, Tracked
<1> QED BY <1>3, <1>4, <1>5, <1>6, TrackedPublish, TrackedScan, TrackedAcquire DEF Next

\* With a full scan of a table whose capacity is a power of two, no conflict
\* that the table shows when a word is exchanged is left unreported, unless its
\* word is displaced or its release acquired first: the odd step comes to every
\* slot (scan_sampled_watchpoint_conflicts, sampled_probe_step).
THEOREM ScansTellAll ==
  ASSUME Capacity \in PowersOfTwo
  PROVE  Spec => []ConflictsTold
<1>1. CASE FullScan
  <2> DEFINE Inv == SInv /\ Tracked
  <2>1. Init => Inv
    BY SInit, TrackedInit
  <2>2. Inv /\ [Next]_vars => Inv'
    BY <1>1, SNext, TrackedNext
  <2>3. Inv => ConflictsTold
    BY DEF Tracked, Ahead, ConflictsTold, IsAt
  <2> QED BY <2>1, <2>2, <2>3, PTL DEF Spec
<1>2. CASE ~FullScan
  <2>1. ConflictsTold
    BY <1>2 DEF ConflictsTold, FullScan
  <2> QED BY <2>1, PTL
<1> QED BY <1>1, <1>2

================================================================================
