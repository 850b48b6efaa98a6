--------------------------- MODULE AtomicTableProofs ---------------------------
(***************************************************************************)
(* Proofs about AtomicTable, for any number of lanes, subgroups, addresses *)
(* and slots, any hash and any retry budgets: IInv is an inductive         *)
(* invariant.                                                              *)
(***************************************************************************)
EXTENDS AtomicTable, TLAPS

USE SubgroupAssumption, TableAssumption, BudgetAssumption, BoundAssumption

-------------------------------------------------------------------------------
\* Probe chains

\* A probe of a key lands on a slot of the table.
LEMMA SlotAtInTable ==
  ASSUME NEW a \in Address, NEW p \in Subgroup, NEW n \in Slot
  PROVE  SlotAt(a, p, n) \in Slot
<1>1. HashStart[<<a, p>>] \in Slot
  BY DEF Key
<1> QED BY <1>1 DEF SlotAt, Slot

\* The probes of a key visit every slot of the table.
LEMMA ProbesCoverTable ==
  ASSUME NEW a \in Address, NEW p \in Subgroup, NEW s \in Slot
  PROVE  \E n \in Slot : SlotAt(a, p, n) = s
<1>1. HashStart[<<a, p>>] \in Slot
  BY DEF Key
<1>2. ASSUME NEW h \in Slot, h = HashStart[<<a, p>>]
      PROVE  \E n \in Slot : SlotAt(a, p, n) = s
  <2>1. CASE s >= h
    <3>1. s - h \in Slot /\ h + (s - h) = s
      BY <2>1 DEF Slot
    <3>2. SlotAt(a, p, s - h) = s
      BY <1>2, <3>1 DEF SlotAt, Slot
    <3> QED BY <3>1, <3>2
  <2>2. CASE s < h
    <3>1. s - h + Capacity \in Slot /\ h + (s - h + Capacity) = s + Capacity
      BY <2>2 DEF Slot
    <3>2. SlotAt(a, p, s - h + Capacity) = s
      BY <1>2, <3>1 DEF SlotAt, Slot
    <3> QED BY <3>1, <3>2
  <2> QED BY <2>1, <2>2 DEF Slot
<1> QED BY <1>1, <1>2

\* Two probes of a key that land on one slot are the same probe.
LEMMA ProbesDiffer ==
  ASSUME NEW a \in Address, NEW p \in Subgroup, NEW m \in Slot, NEW n \in Slot,
         SlotAt(a, p, m) = SlotAt(a, p, n)
  PROVE  m = n
<1>1. HashStart[<<a, p>>] \in Slot
  BY DEF Key
<1> QED BY <1>1 DEF SlotAt, Slot

-------------------------------------------------------------------------------
\* The updates that the steps make to the record of a call

Pc == {"idle"} \cup ReleasePc \cup AcquirePc

LEMMA CallIdle == Idle \in Call
<1>1. 0 \in Subgroup /\ 0 \in Slot /\ 0 \in Epoch
  BY DEF Subgroup, Slot, Epoch
<1> QED BY <1>1 DEF Idle, Call

LEMMA CallAt ==
  ASSUME NEW c \in Call, NEW pc \in Pc
  PROVE  [c EXCEPT !.pc = pc] \in Call
BY DEF Call, Pc

LEMMA CallMoved ==
  ASSUME NEW c \in Call, NEW pc \in Pc, NEW probe \in Slot
  PROVE  [c EXCEPT !.pc = pc, !.probe = probe] \in Call
BY DEF Call, Pc

LEMMA CallNextProbe ==
  ASSUME NEW c \in Call, NEW claimed \in BOOLEAN
  PROVE  NextProbe(c, claimed) \in Call
<1>1. /\ c.probe + 1 < Capacity => c.probe + 1 \in Slot
      /\ FirstProbe \in Slot /\ "probe" \in Pc /\ "full" \in Pc
  BY DEF Call, Slot, FirstProbe, Pc, ReleasePc
<1>2. ASSUME NEW n \in Slot
      PROVE  [c EXCEPT !.pc = "probe", !.probe = n, !.sawClaimed = claimed, !.seen = 0]
               \in Call
  BY <1>1 DEF Call, Pc
<1>3. [c EXCEPT !.pc = "probe", !.probe = FirstProbe, !.attempt = @ + 1,
                !.sawClaimed = FALSE, !.seen = 0] \in Call
  <2>1. ASSUME NEW n \in Nat
        PROVE  [c EXCEPT !.pc = "probe", !.probe = FirstProbe, !.attempt = n,
                         !.sawClaimed = FALSE, !.seen = 0] \in Call
    BY <1>1 DEF Call, Pc
  <2>2. c.attempt + 1 \in Nat
    BY DEF Call
  <2> QED BY <2>1, <2>2
<1>4. CASE c.probe + 1 < Capacity
  BY <1>1, <1>2, <1>4 DEF NextProbe
<1>5. CASE ~(c.probe + 1 < Capacity) /\ claimed /\ c.attempt < ClaimAttempts
  BY <1>3, <1>5 DEF NextProbe
<1>6. CASE ~(c.probe + 1 < Capacity) /\ ~(claimed /\ c.attempt < ClaimAttempts)
  BY <1>1, <1>6, CallAt DEF NextProbe
<1> QED BY <1>4, <1>5, <1>6

LEMMA CallNextLookup ==
  ASSUME NEW c \in Call
  PROVE  NextLookup(c) \in Call
<1>1. /\ c.probe + 1 < Capacity => c.probe + 1 \in Slot
      /\ "lookup" \in Pc /\ "absent" \in Pc
  BY DEF Call, Slot, Pc, AcquirePc
<1> QED BY <1>1, CallAt, CallMoved DEF NextLookup

LEMMA CallSearch ==
  ASSUME NEW c \in Call, NEW p \in Subgroup, NEW owed \in SUBSET Epoch
  PROVE  [c EXCEPT !.pc = "lookup", !.producer = p, !.probe = FirstProbe,
                   !.owed = owed] \in Call
<1>1. FirstProbe \in Slot /\ "lookup" \in Pc
  BY DEF Slot, FirstProbe, Pc, AcquirePc
<1> QED BY <1>1 DEF Call, Pc

-------------------------------------------------------------------------------
\* Consequences of the invariant about one lane

\* A lane inside a call looks at a slot of the table.
LEMMA HereInTable ==
  ASSUME IInv, NEW t \in Thread, call[t].pc # "idle"
  PROVE  Here(t) \in Slot
<1>1. call[t] \in Call /\ call[t].address \in Address
  BY DEF IInv, TypeOK, CallFacts
<1>2. call[t].producer \in Subgroup /\ call[t].probe \in Slot
  BY <1>1 DEF Call
<1> QED BY <1>1, <1>2, SlotAtInTable DEF Here

\* What a step of lane t may do to the table and to the other lanes.
Effect(t) ==
  /\ generation' = generation
  /\ subgroup_epoch' = subgroup_epoch
  /\ \A u \in Thread \ {t} : call'[u] = call[u]
  /\ \A s \in Slot :
       /\ IsStale(s)' => atomic_objects'[s] = atomic_objects[s]
       /\ IsCurrent(s) => /\ IsCurrent(s)'
                          /\ atomic_objects'[s].address = atomic_objects[s].address
                          /\ atomic_objects'[s].producer = atomic_objects[s].producer
                          /\ atomic_objects'[s].epoch <= subgroup_epoch
       /\ IsClaimed(s) /\ ~Holds(t, s) => atomic_objects'[s] = atomic_objects[s]

\* A step that leaves the table alone.
LEMMA SharedEffect ==
  ASSUME IInv, NEW t \in Thread, NEW c, Set(t, c),
         UNCHANGED <<generation, subgroup_epoch, atomic_objects>>
  PROVE  Effect(t)
<1>1. \A u \in Thread \ {t} : call'[u] = call[u]
  BY DEF Set, IInv, TypeOK
<1>2. \A s \in Slot : IsCurrent(s) => atomic_objects[s].epoch <= subgroup_epoch
  BY DEF IInv, RowsValid
<1> QED BY <1>1, <1>2 DEF Effect, IsStale, IsCurrent, IsClaimed

LEMMA ClaimEffect ==
  ASSUME IInv, NEW t \in Thread, ClaimSlot(t)
  PROVE  Effect(t)
<1>1. Here(t) \in Slot
  BY HereInTable DEF ClaimSlot
<1>2. CASE MayClaim(t)
  <2>1. /\ atomic_objects' = [atomic_objects EXCEPT ![Here(t)].generation = Claimed]
        /\ \A u \in Thread \ {t} : call'[u] = call[u]
        /\ UNCHANGED <<generation, subgroup_epoch>>
    BY <1>2 DEF ClaimSlot, Set, IInv, TypeOK
  <2>2. call[t].seen # generation /\ call[t].seen \in Nat
    BY DEF IInv, CallFacts, ClaimSlot, TypeOK, Call
  <2>3. ~IsCurrent(Here(t)) /\ ~IsClaimed(Here(t))
    BY <1>2, <2>2 DEF MayClaim, IsCurrent, IsClaimed, Claimed
  <2>4. atomic_objects'[Here(t)].generation = Claimed
    BY <1>1, <2>1 DEF IInv, TypeOK, Row
  <2>5. \A s \in Slot \ {Here(t)} : atomic_objects'[s] = atomic_objects[s]
    BY <2>1 DEF IInv, TypeOK
  <2>6. \A s \in Slot : IsCurrent(s) => atomic_objects[s].epoch <= subgroup_epoch
    BY DEF IInv, RowsValid
  <2> QED BY <2>1, <2>3, <2>4, <2>5, <2>6 DEF Effect, IsStale, IsCurrent, IsClaimed
<1>3. CASE ~MayClaim(t)
  BY <1>3, SharedEffect DEF ClaimSlot
<1> QED BY <1>2, <1>3

LEMMA FillEffect ==
  ASSUME IInv, NEW t \in Thread, FillRow(t)
  PROVE  Effect(t)
<1>1. Here(t) \in Slot /\ IsClaimed(Here(t)) /\ Holds(t, Here(t))
  BY HereInTable DEF FillRow, IInv, CallFacts, Holds
<1>2. /\ atomic_objects' = [atomic_objects EXCEPT ![Here(t)] = FreshRow(@, call[t])]
      /\ \A u \in Thread \ {t} : call'[u] = call[u]
      /\ UNCHANGED <<generation, subgroup_epoch>>
  BY DEF FillRow, Set, IInv, TypeOK
<1>3. atomic_objects'[Here(t)].generation = atomic_objects[Here(t)].generation
  BY <1>1, <1>2 DEF IInv, TypeOK, Row, FreshRow
<1>4. \A s \in Slot \ {Here(t)} : atomic_objects'[s] = atomic_objects[s]
  BY <1>2 DEF IInv, TypeOK
<1>5. \A s \in Slot : IsCurrent(s) => atomic_objects[s].epoch <= subgroup_epoch
  BY DEF IInv, RowsValid
<1>6. ~IsCurrent(Here(t))
  BY <1>1 DEF IsClaimed, IsCurrent, Claimed, IInv, TypeOK
<1> QED BY <1>1, <1>2, <1>3, <1>4, <1>5, <1>6 DEF Effect, IsStale, IsCurrent, IsClaimed

LEMMA RecordEffect ==
  ASSUME IInv, NEW t \in Thread, RecordEpoch(t)
  PROVE  Effect(t)
<1>1. /\ Here(t) \in Slot /\ ~IsStale(Here(t)) /\ Holds(t, Here(t))
      /\ RowMatches(Here(t), call[t].address, call[t].producer)
      /\ atomic_objects[Here(t)].epoch <= subgroup_epoch
      /\ call[t].epoch <= subgroup_epoch
  BY HereInTable DEF RecordEpoch, IInv, CallFacts, Holds, ReleasePc
<1>2. /\ atomic_objects' = [atomic_objects EXCEPT ![Here(t)] = JoinedRow(@, call[t])]
      /\ \A u \in Thread \ {t} : call'[u] = call[u]
      /\ UNCHANGED <<generation, subgroup_epoch>>
  BY DEF RecordEpoch, Set, IInv, TypeOK
<1>3. /\ atomic_objects'[Here(t)].generation = atomic_objects[Here(t)].generation
      /\ atomic_objects'[Here(t)].address = atomic_objects[Here(t)].address
      /\ atomic_objects'[Here(t)].producer = atomic_objects[Here(t)].producer
      /\ atomic_objects'[Here(t)].epoch <= subgroup_epoch
  BY <1>1, <1>2 DEF IInv, TypeOK, Row, JoinedRow, RaiseTo, RowMatches
<1>4. \A s \in Slot \ {Here(t)} : atomic_objects'[s] = atomic_objects[s]
  BY <1>2 DEF IInv, TypeOK
<1>5. \A s \in Slot : IsCurrent(s) => atomic_objects[s].epoch <= subgroup_epoch
  BY DEF IInv, RowsValid
<1> QED BY <1>1, <1>2, <1>3, <1>4, <1>5 DEF Effect, IsStale, IsCurrent, IsClaimed

LEMMA PublishEffect ==
  ASSUME IInv, NEW t \in Thread, PublishRow(t)
  PROVE  Effect(t)
<1>1. /\ Here(t) \in Slot /\ Holds(t, Here(t))
      /\ atomic_objects[Here(t)].epoch <= subgroup_epoch
  BY HereInTable DEF PublishRow, IInv, CallFacts, Holds
<1>2. /\ atomic_objects' = [atomic_objects EXCEPT ![Here(t)].generation = generation]
      /\ \A u \in Thread \ {t} : call'[u] = call[u]
      /\ UNCHANGED <<generation, subgroup_epoch>>
  BY DEF PublishRow, Return, Set, IInv, TypeOK
<1>3. /\ atomic_objects'[Here(t)].generation = generation
      /\ atomic_objects'[Here(t)].address = atomic_objects[Here(t)].address
      /\ atomic_objects'[Here(t)].producer = atomic_objects[Here(t)].producer
      /\ atomic_objects'[Here(t)].epoch = atomic_objects[Here(t)].epoch
  BY <1>1, <1>2 DEF IInv, TypeOK, Row
<1>4. \A s \in Slot \ {Here(t)} : atomic_objects'[s] = atomic_objects[s]
  BY <1>2 DEF IInv, TypeOK
<1>5. \A s \in Slot : IsCurrent(s) => atomic_objects[s].epoch <= subgroup_epoch
  BY DEF IInv, RowsValid
<1> QED BY <1>1, <1>2, <1>3, <1>4, <1>5 DEF Effect, IsStale, IsCurrent, IsClaimed

-------------------------------------------------------------------------------
\* The other lanes

Own(t) == CallFacts(t) /\ WalkSolid(t) /\ RowAhead(t)

\* A step of lane t keeps what every other lane relies on.
LEMMA OthersKeep ==
  ASSUME IInv, NEW t \in Thread, Effect(t), NEW u \in Thread, u # t
  PROVE  Own(u)'
<1> USE DEF Own
<1>1. /\ call'[u] = call[u] /\ generation' = generation
      /\ subgroup_epoch' = subgroup_epoch /\ Here(u)' = Here(u)
  BY DEF Effect, Here
<1>2. call[u] \in Call /\ CallFacts(u) /\ WalkSolid(u) /\ RowAhead(u)
  BY DEF IInv, TypeOK
<1>3. \A s \in Slot : ~IsStale(s) => ~IsStale(s)'
  BY <1>1 DEF Effect, IsStale, IsCurrent, IsClaimed
<1>4. \A s \in Slot : \A a, p : HasRow(s, a, p) => HasRow(s, a, p)'
  BY DEF Effect, HasRow, RowMatches
<1>5. call[u].pc # "idle" => Here(u) \in Slot
  BY HereInTable
<1>6. ASSUME call[u].address \in Address, NEW n \in Slot
      PROVE  SlotAt(call[u].address, call[u].producer, n) \in Slot
  BY <1>2, <1>6, SlotAtInTable DEF Call
<1>7. CallFacts(u)'
  <2>1. ASSUME call[u].pc \in {"fill", "record", "publish"}, IsClaimed(Here(u))
        PROVE  atomic_objects'[Here(u)] = atomic_objects[Here(u)]
    <3>1. Holds(u, Here(u)) /\ Here(u) \in Slot
      BY <1>5, <2>1 DEF Holds
    <3>2. ~Holds(t, Here(u))
      BY <2>1, <3>1 DEF IInv, ClaimsOwned
    <3> QED BY <2>1, <3>1, <3>2 DEF Effect
  <2>2. call[u].pc \in {"match", "compare"} => IsCurrent(Here(u))'
    BY <1>1, <1>2, <1>5 DEF CallFacts, Effect, IsCurrent
  <2>3. call[u].pc = "claim" =>
          (IsStale(Here(u)) => atomic_objects[Here(u)].generation = call[u].seen)'
    BY <1>1, <1>2, <1>3, <1>5 DEF CallFacts, Effect
  <2>4. call[u].pc = "fill" => IsClaimed(Here(u))'
    BY <1>1, <1>2, <2>1 DEF CallFacts, IsClaimed
  <2>5. call[u].pc \in {"record", "publish"} =>
          /\ ~IsStale(Here(u))'
          /\ RowMatches(Here(u), call[u].address, call[u].producer)'
          /\ (atomic_objects[Here(u)].epoch <= subgroup_epoch)'
    <3>1. SUFFICES ASSUME call[u].pc \in {"record", "publish"}
                   PROVE  /\ ~IsStale(Here(u))'
                          /\ RowMatches(Here(u), call[u].address, call[u].producer)'
                          /\ (atomic_objects[Here(u)].epoch <= subgroup_epoch)'
      OBVIOUS
    <3>2. CASE IsClaimed(Here(u))
      BY <1>1, <1>2, <1>3, <1>5, <2>1, <3>1, <3>2 DEF CallFacts, RowMatches
    <3>3. CASE IsCurrent(Here(u))
      BY <1>1, <1>2, <1>3, <1>5, <3>1, <3>3 DEF CallFacts, RowMatches, Effect
    <3> QED BY <1>2, <3>1, <3>2, <3>3 DEF CallFacts, IsStale
  <2>6. call[u].pc = "import" => HasRow(Here(u), call[u].address, call[u].producer)'
    BY <1>1, <1>2, <1>4, <1>5 DEF CallFacts
  <2> QED BY <1>1, <1>2, <2>2, <2>3, <2>4, <2>5, <2>6 DEF CallFacts
<1>8. WalkSolid(u)'
  <2>1. \A n \in 0 .. call[u].probe - 1 : n \in Slot
    BY <1>2 DEF Call, Slot
  <2> QED BY <1>1, <1>2, <1>3, <1>6, <2>1 DEF WalkSolid, CallFacts, ReleasePc
<1>9. RowAhead(u)'
  <2>1. \A n \in call[u].probe .. Capacity - 1 : n \in Slot
    BY <1>2 DEF Call, Slot
  <2>2. CASE call[u].pc \in {"lookup", "compare"} /\ call[u].owed # {}
    <3>1. PICK n \in call[u].probe .. Capacity - 1 :
            HasRow(SlotAt(call[u].address, call[u].producer, n),
                   call[u].address, call[u].producer)
      BY <1>2, <2>2 DEF RowAhead
    <3>2. SlotAt(call[u].address, call[u].producer, n) \in Slot
      BY <1>2, <1>6, <2>1, <2>2 DEF CallFacts
    <3>3. HasRow(SlotAt(call[u].address, call[u].producer, n),
                 call[u].address, call[u].producer)'
      BY <1>1, <1>4, <3>1, <3>2
    <3> QED BY <1>1, <2>2, <3>3 DEF RowAhead
  <2>3. CASE ~(call[u].pc \in {"lookup", "compare"} /\ call[u].owed # {})
    BY <1>1, <1>2, <2>3 DEF RowAhead
  <2> QED BY <2>2, <2>3
<1> QED BY <1>7, <1>8, <1>9

\* A step of lane t that leaves the table alone keeps the table's own facts,
\* if t neither owned a slot before nor owns a claimed one after.
LEMMA TableKept ==
  ASSUME IInv, NEW t \in Thread, NEW c, Set(t, c),
         UNCHANGED <<generation, subgroup_epoch, atomic_objects>>,
         call[t].pc \notin {"fill", "record", "publish"},
         \A s \in Slot : IsClaimed(s) => ~Holds(t, s)'
  PROVE  (RowsValid /\ ClaimsOwned /\ ChainUnbroken)'
<1>1. RowsValid' /\ ChainUnbroken'
  BY DEF IInv, RowsValid, ChainUnbroken, IsStale, IsCurrent, IsClaimed
<1>2. ASSUME NEW s \in Slot, IsClaimed(s)'
      PROVE  \E w \in Thread : Holds(w, s)' /\ \A u \in Thread : Holds(u, s)' => u = w
  <2>1. IsClaimed(s)
    BY <1>2 DEF IsClaimed
  <2>2. PICK w \in Thread : Holds(w, s) /\ \A u \in Thread : Holds(u, s) => u = w
    BY <2>1 DEF IInv, ClaimsOwned
  <2>3. w # t /\ ~Holds(t, s)'
    BY <2>1, <2>2 DEF Holds
  <2>4. \A u \in Thread \ {t} : Holds(u, s)' <=> Holds(u, s)
    BY DEF Set, IInv, TypeOK, Holds, Here
  <2> QED BY <2>2, <2>3, <2>4
<1> QED BY <1>1, <1>2 DEF ClaimsOwned

-------------------------------------------------------------------------------
\* The lane that takes the step

\* Going on to the next probe: the slot just visited is not stale.
LEMMA NextProbeOwn ==
  ASSUME IInv, NEW t \in Thread, NEW claimed \in BOOLEAN,
         call[t].pc \in {"probe", "match", "claim"}, ~IsStale(Here(t)),
         Set(t, NextProbe(call[t], claimed)),
         UNCHANGED <<generation, subgroup_epoch, atomic_objects>>
  PROVE  /\ NextProbe(call[t], claimed) \in Call
         /\ NextProbe(call[t], claimed).pc \in {"probe", "full"}
         /\ Own(t)'
<1> DEFINE c == NextProbe(call[t], claimed)
<1>1. /\ call[t] \in Call /\ call[t].address \in Address
      /\ call[t].producer = SubgroupOf[t] /\ call[t].epoch <= subgroup_epoch
      /\ \A n \in 0 .. call[t].probe - 1 :
           ~IsStale(SlotAt(call[t].address, call[t].producer, n))
  BY DEF IInv, TypeOK, CallFacts, WalkSolid, ReleasePc
<1>2. c \in Call /\ c.pc \in {"probe", "full"}
  <2>1. c \in Call
    BY <1>1, CallNextProbe
  <2>2. c.pc \in {"probe", "full"}
    BY <1>1 DEF NextProbe, Call
  <2> QED BY <2>1, <2>2
<1>3. /\ c.address = call[t].address /\ c.producer = call[t].producer
      /\ c.epoch = call[t].epoch
      /\ c.pc = "probe" => c.probe = 0 \/ c.probe = call[t].probe + 1
      /\ c.pc = "full" => call[t].probe + 1 = Capacity
  BY <1>1 DEF NextProbe, Call, FirstProbe, Slot
<1>4. call'[t] = c
  BY DEF Set, IInv, TypeOK
<1> HIDE DEF c
<1>5. \A s : IsStale(s)' <=> IsStale(s)
  BY DEF IsStale, IsCurrent, IsClaimed
<1>6. ~IsStale(SlotAt(call[t].address, call[t].producer, call[t].probe))
  BY DEF Here
<1>7. ASSUME c.pc = "probe"
      PROVE  Own(t)'
  <2>1. \A n \in 0 .. c.probe - 1 : ~IsStale(SlotAt(call[t].address, call[t].producer, n))
    BY <1>1, <1>3, <1>6, <1>7 DEF Call, Slot
  <2> QED BY <1>1, <1>3, <1>4, <1>5, <1>7, <2>1
          DEF Own, CallFacts, WalkSolid, RowAhead, ReleasePc, AcquirePc
<1>8. ASSUME c.pc = "full"
      PROVE  Own(t)'
  <2>1. ASSUME NEW s \in Slot
        PROVE  ~IsStale(s)
    <3>1. PICK n \in Slot : SlotAt(call[t].address, call[t].producer, n) = s
      BY <1>1, ProbesCoverTable DEF Call
    <3>2. n \in 0 .. call[t].probe - 1 \/ n = call[t].probe
      BY <1>1, <1>3, <1>8, <3>1 DEF Call, Slot
    <3> QED BY <1>1, <1>6, <3>1, <3>2
  <2> QED BY <1>1, <1>3, <1>4, <1>5, <1>8, <2>1
          DEF Own, CallFacts, WalkSolid, RowAhead, ReleasePc, AcquirePc
<1> QED BY <1>2, <1>7, <1>8 DEF c

\* Beginning to search the chain of a producer.
LEMMA SearchOwn ==
  ASSUME IInv, NEW t \in Thread, NEW c \in Call, NEW first \in Subgroup \cup {SubgroupCapacity},
         c.address \in Address, Candidate(t, first) < SubgroupCapacity,
         Set(t, Search(t, c, first)),
         UNCHANGED <<generation, subgroup_epoch, atomic_objects>>
  PROVE  /\ Search(t, c, first) \in Call
         /\ Search(t, c, first).pc = "lookup"
         /\ Own(t)'
<1> DEFINE d == Search(t, c, first)
           p == Candidate(t, first)
<1>1. p \in Subgroup /\ p # SubgroupOf[t]
  BY DEF Candidate, Subgroup
<1>2. PublishedEpochs(c.address, p) \subseteq Epoch
  BY DEF PublishedEpochs, IInv, TypeOK, Row
<1>3. /\ d \in Call /\ d.pc = "lookup" /\ d.address = c.address /\ d.producer = p
      /\ d.probe = 0 /\ d.owed = PublishedEpochs(c.address, p)
  <2>1. d \in Call
    BY <1>1, <1>2, CallSearch DEF Search
  <2> QED BY <2>1 DEF Search, Call, FirstProbe
<1>4. call'[t] = d
  BY DEF Set, IInv, TypeOK
<1> HIDE DEF d, p
<1>5. ASSUME d.owed # {}
      PROVE  \E n \in 0 .. Capacity - 1 : HasRow(SlotAt(c.address, p, n), c.address, p)
  <2>1. PICK s \in Slot : HasRow(s, c.address, p)
    BY <1>3, <1>5 DEF PublishedEpochs
  <2> QED BY <1>1, <2>1, ProbesCoverTable DEF Slot
<1>6. \A s, a, q : HasRow(s, a, q)' <=> HasRow(s, a, q)
  BY DEF HasRow, RowMatches, IsCurrent
<1>7. CallFacts(t)' /\ WalkSolid(t)'
  BY <1>1, <1>3, <1>4 DEF CallFacts, WalkSolid, ReleasePc
<1>8. RowAhead(t)'
  BY <1>3, <1>4, <1>5, <1>6 DEF RowAhead
<1> QED BY <1>3, <1>7, <1>8 DEF Own, d

\* Going on along a chain whose current slot is not the record searched for.
LEMMA NextLookupOwn ==
  ASSUME IInv, NEW t \in Thread, call[t].pc \in {"lookup", "compare"},
         ~HasRow(Here(t), call[t].address, call[t].producer),
         Set(t, NextLookup(call[t])),
         UNCHANGED <<generation, subgroup_epoch, atomic_objects>>
  PROVE  /\ NextLookup(call[t]) \in Call
         /\ NextLookup(call[t]).pc \in {"lookup", "absent"}
         /\ Own(t)'
<1> DEFINE c == NextLookup(call[t])
<1>1. call[t] \in Call /\ CallFacts(t) /\ RowAhead(t)
  BY DEF IInv, TypeOK
<1>2. c \in Call /\ c.pc \in {"lookup", "absent"}
  BY <1>1, CallNextLookup DEF NextLookup, Call
<1>3. /\ c.address = call[t].address /\ c.producer = call[t].producer
      /\ c.owed = call[t].owed
      /\ c.pc = "lookup" => c.probe = call[t].probe + 1
      /\ c.pc = "absent" => call[t].probe + 1 >= Capacity
  <2>1. call[t].probe + 1 < Capacity \/ call[t].probe + 1 >= Capacity
    BY <1>1 DEF Call, Slot
  <2> QED BY <1>1, <2>1 DEF NextLookup, Call
<1>4. call'[t] = c
  BY DEF Set, IInv, TypeOK
<1> HIDE DEF c
<1>5. ASSUME call[t].owed # {}
      PROVE  \E n \in call[t].probe + 1 .. Capacity - 1 :
               HasRow(SlotAt(call[t].address, call[t].producer, n),
                      call[t].address, call[t].producer)
  <2>1. PICK n \in call[t].probe .. Capacity - 1 :
          HasRow(SlotAt(call[t].address, call[t].producer, n),
                 call[t].address, call[t].producer)
    BY <1>1, <1>5 DEF RowAhead
  <2>2. n # call[t].probe
    BY <2>1 DEF Here
  <2> QED BY <1>1, <2>1, <2>2 DEF Call, Slot
<1>6. \A s, a, q : HasRow(s, a, q)' <=> HasRow(s, a, q)
  BY DEF HasRow, RowMatches, IsCurrent
<1>7. CallFacts(t)' /\ WalkSolid(t)'
  BY <1>1, <1>2, <1>3, <1>4 DEF CallFacts, WalkSolid, ReleasePc, AcquirePc
<1>8. RowAhead(t)'
  <2>1. CASE c.pc = "lookup"
    BY <1>3, <1>4, <1>5, <1>6, <2>1 DEF RowAhead
  <2>2. CASE c.pc = "absent"
    <3>1. call[t].owed = {}
      BY <1>1, <1>3, <1>5, <2>2 DEF Call, Slot
    <3> QED BY <1>3, <1>4, <2>2, <3>1 DEF RowAhead
  <2> QED BY <1>2, <2>1, <2>2
<1> QED BY <1>2, <1>7, <1>8 DEF Own, c

-------------------------------------------------------------------------------
\* The invariant after a step: what is left to show for each action

TokenType == [Subgroup -> [Subgroup -> 0 .. MaxEpoch + 1]]

\* for a step that leaves the table alone,
LEMMA SharedStep ==
  ASSUME IInv, NEW t \in Thread, NEW c \in Call, Set(t, c), Own(t)',
         UNCHANGED <<generation, subgroup_epoch, atomic_objects>>,
         call[t].pc \notin {"fill", "record", "publish"},
         \A s \in Slot : IsClaimed(s) => ~Holds(t, s)',
         acquired_token' \in TokenType, metadata_full' \in BOOLEAN,
         metadata_full' => metadata_full \/ call[t].pc = "full"
  PROVE  IInv'
<1>1. TypeOK'
  BY DEF IInv, TypeOK, Set, TokenType
<1>2. (RowsValid /\ ClaimsOwned /\ ChainUnbroken)'
  BY TableKept
<1>3. \A u \in Thread : Own(u)'
  BY SharedEffect, OthersKeep
<1>4. metadata_full' => \A s \in Slot : ~IsStale(s)'
  BY DEF IInv, WalkSolid, IsStale, IsCurrent, IsClaimed
<1> QED BY <1>1, <1>2, <1>3, <1>4 DEF IInv, Own

\* and for one that writes to it.
LEMMA TableStep ==
  ASSUME IInv, NEW t \in Thread, NEW c \in Call, Set(t, c), Own(t)', Effect(t),
         atomic_objects' \in [Slot -> Row],
         (RowsValid /\ ClaimsOwned /\ ChainUnbroken)',
         UNCHANGED <<acquired_token, metadata_full>>
  PROVE  IInv'
<1>1. TypeOK'
  BY DEF IInv, TypeOK, Set, Effect
<1>2. \A u \in Thread : Own(u)'
  BY OthersKeep
<1>3. metadata_full' => \A s \in Slot : ~IsStale(s)'
  BY DEF IInv, Effect, IsStale, IsCurrent, IsClaimed
<1> QED BY <1>1, <1>2, <1>3 DEF IInv, Own

-------------------------------------------------------------------------------
\* Releases

LEMMA BeginReleaseInv ==
  ASSUME IInv, NEW t \in Thread, NEW a \in Address, NEW e \in Epoch, BeginRelease(t, a, e)
  PROVE  IInv'
<1> DEFINE c == [Idle EXCEPT !.pc = "probe", !.address = a, !.producer = SubgroupOf[t],
                             !.epoch = e, !.probe = FirstProbe, !.attempt = 1]
<1>1. /\ Set(t, c) /\ call[t].pc = "idle" /\ e <= subgroup_epoch
      /\ UNCHANGED <<generation, subgroup_epoch, atomic_objects, acquired_token, metadata_full>>
  BY DEF BeginRelease, shared, IInv, TypeOK, Epoch
<1>2. /\ c.pc = "probe" /\ c.address = a /\ c.producer = SubgroupOf[t]
      /\ c.epoch = e /\ c.probe = 0 /\ c.owed = {}
  BY DEF Idle, FirstProbe
<1>3. c \in Call
  <2>1. FirstProbe \in Slot /\ SubgroupOf[t] \in Subgroup /\ 1 \in Nat /\ "probe" \in Pc
    BY DEF FirstProbe, Slot, Pc, ReleasePc
  <2> QED BY <2>1, CallIdle DEF Call, Pc
<1>4. call'[t] = c
  BY <1>1 DEF Set, IInv, TypeOK
<1> HIDE DEF c
<1>5. Own(t)'
  BY <1>1, <1>2, <1>4 DEF Own, CallFacts, WalkSolid, RowAhead, ReleasePc, AcquirePc
<1>6. \A s \in Slot : ~Holds(t, s)'
  BY <1>2, <1>4 DEF Holds
<1> QED BY <1>1, <1>3, <1>5, <1>6, SharedStep DEF IInv, TypeOK, TokenType

\* A lane that sees a record of this launch, or a stale slot, stays on it.
LEMMA ProbeInv ==
  ASSUME IInv, NEW t \in Thread, ProbeCurrent(t) \/ ProbeStale(t)
  PROVE  IInv'
<1>1. PICK c : /\ Set(t, c)
               /\ \/ c = [call[t] EXCEPT !.pc = "match"] /\ IsCurrent(Here(t))
                  \/ /\ c = [call[t] EXCEPT !.pc = "claim",
                                            !.seen = atomic_objects[Here(t)].generation]
                     /\ IsStale(Here(t))
  BY DEF ProbeCurrent, ProbeStale
<1>2. /\ call[t].pc = "probe"
      /\ UNCHANGED <<generation, subgroup_epoch, atomic_objects, acquired_token, metadata_full>>
  BY DEF ProbeCurrent, ProbeStale, shared
<1>3. call[t] \in Call /\ CallFacts(t) /\ WalkSolid(t) /\ Here(t) \in Slot
  BY <1>2, HereInTable DEF IInv, TypeOK
<1>4. IsStale(Here(t)) => atomic_objects[Here(t)].generation \in Nat \ {generation}
  BY <1>3 DEF IInv, TypeOK, Row, IsStale, IsCurrent, IsClaimed
<1>5. c \in Call
  BY <1>1, <1>3, <1>4 DEF Call, ReleasePc
<1>6. /\ c.address = call[t].address /\ c.producer = call[t].producer
      /\ c.epoch = call[t].epoch /\ c.probe = call[t].probe
      /\ \/ c.pc = "match" /\ IsCurrent(Here(t))
         \/ /\ c.pc = "claim" /\ c.seen # generation
            /\ c.seen = atomic_objects[Here(t)].generation
  BY <1>1, <1>3, <1>4 DEF Call
<1>7. call'[t] = c /\ Here(t)' = Here(t)
  BY <1>1, <1>6 DEF Set, IInv, TypeOK, Here
<1>8. Own(t)'
  BY <1>2, <1>3, <1>6, <1>7
     DEF Own, CallFacts, WalkSolid, RowAhead, ReleasePc, AcquirePc, IsStale, IsCurrent, IsClaimed
<1>9. \A s \in Slot : ~Holds(t, s)'
  BY <1>6, <1>7 DEF Holds
<1> QED BY <1>1, <1>2, <1>5, <1>8, <1>9, SharedStep DEF IInv, TypeOK, TokenType

\* Going on to the next probe, whatever the reason.
LEMMA NextProbeInv ==
  ASSUME IInv, NEW t \in Thread, NEW claimed \in BOOLEAN,
         call[t].pc \in {"probe", "match", "claim"}, ~IsStale(Here(t)),
         Set(t, NextProbe(call[t], claimed)), UNCHANGED shared
  PROVE  IInv'
<1>1. UNCHANGED <<generation, subgroup_epoch, atomic_objects, acquired_token, metadata_full>>
  BY DEF shared
<1>2. /\ NextProbe(call[t], claimed) \in Call /\ Own(t)'
      /\ NextProbe(call[t], claimed).pc \in {"probe", "full"}
  BY <1>1, NextProbeOwn
<1>3. call'[t].pc \in {"probe", "full"}
  BY <1>2 DEF Set, IInv, TypeOK
<1>4. \A s \in Slot : ~Holds(t, s)'
  BY <1>3 DEF Holds
<1> QED BY <1>1, <1>2, <1>4, SharedStep DEF IInv, TypeOK, TokenType

LEMMA ProbeClaimedInv ==
  ASSUME IInv, NEW t \in Thread, ProbeClaimed(t)
  PROVE  IInv'
BY NextProbeInv DEF ProbeClaimed, IsStale

LEMMA MatchRowInv ==
  ASSUME IInv, NEW t \in Thread, MatchRow(t)
  PROVE  IInv'
<1>1. /\ call[t].pc = "match" /\ call[t] \in Call /\ CallFacts(t) /\ WalkSolid(t)
      /\ Here(t) \in Slot
  BY HereInTable DEF MatchRow, IInv, TypeOK
<1>2. IsCurrent(Here(t))
  BY <1>1 DEF CallFacts
<1>3. CASE RowMatches(Here(t), call[t].address, call[t].producer)
  <2> DEFINE c == [call[t] EXCEPT !.pc = "record"]
  <2>1. Set(t, c) /\ UNCHANGED <<generation, subgroup_epoch, atomic_objects, acquired_token,
                                 metadata_full>>
    BY <1>3 DEF MatchRow, shared
  <2>2. /\ c \in Call /\ c.pc = "record" /\ c.address = call[t].address
        /\ c.producer = call[t].producer /\ c.epoch = call[t].epoch
        /\ c.probe = call[t].probe
    BY <1>1, CallAt DEF Pc, ReleasePc, Call
  <2>3. call'[t] = c
    BY <2>1 DEF Set, IInv, TypeOK
  <2> HIDE DEF c
  <2>4. Here(t)' = Here(t)
    BY <2>2, <2>3 DEF Here
  <2>5. atomic_objects[Here(t)].epoch <= subgroup_epoch
    BY <1>1, <1>2 DEF IInv, RowsValid
  <2>6. Own(t)'
    BY <1>1, <1>2, <1>3, <2>1, <2>2, <2>3, <2>4, <2>5
       DEF Own, CallFacts, WalkSolid, RowAhead, RowMatches, ReleasePc, AcquirePc,
           IsStale, IsCurrent, IsClaimed
  <2>7. \A s \in Slot : IsClaimed(s) => ~Holds(t, s)'
    BY <1>1, <1>2, <2>4 DEF Holds, IsClaimed, IsCurrent, IInv, TypeOK, Claimed
  <2> QED BY <1>1, <2>1, <2>2, <2>6, <2>7, SharedStep DEF IInv, TypeOK, TokenType
<1>4. CASE ~RowMatches(Here(t), call[t].address, call[t].producer)
  BY <1>1, <1>2, <1>4, NextProbeInv DEF MatchRow, IsStale, Call
<1> QED BY <1>3, <1>4

LEMMA ClaimSlotInv ==
  ASSUME IInv, NEW t \in Thread, ClaimSlot(t)
  PROVE  IInv'
<1>1. /\ call[t].pc = "claim" /\ call[t] \in Call /\ CallFacts(t) /\ WalkSolid(t)
      /\ Here(t) \in Slot
  BY HereInTable DEF ClaimSlot, IInv, TypeOK
<1>2. CASE ~MayClaim(t)
  <2>1. ~IsStale(Here(t))
    BY <1>1, <1>2 DEF CallFacts, MayClaim
  <2> QED BY <1>1, <1>2, <2>1, NextProbeInv DEF ClaimSlot, shared
<1>3. CASE MayClaim(t)
  <2> DEFINE c == [call[t] EXCEPT !.pc = "fill"]
  <2>0. PICK h \in Slot : h = Here(t)
    BY <1>1
  <2>1. /\ Set(t, c) /\ UNCHANGED <<generation, subgroup_epoch, acquired_token, metadata_full>>
        /\ atomic_objects' = [atomic_objects EXCEPT ![h].generation = Claimed]
    BY <1>3, <2>0 DEF ClaimSlot
  <2>2. /\ c \in Call /\ c.pc = "fill" /\ c.address = call[t].address
        /\ c.producer = call[t].producer /\ c.epoch = call[t].epoch
        /\ c.probe = call[t].probe
    BY <1>1, CallAt DEF Pc, ReleasePc, Call
  <2>3. call'[t] = c
    BY <2>1 DEF Set, IInv, TypeOK
  <2>4. ~IsCurrent(h) /\ ~IsClaimed(h)
    BY <1>1, <1>3, <2>0 DEF MayClaim, CallFacts, IsCurrent, IsClaimed, Claimed, Call
  <2> HIDE DEF c
  <2>5. Here(t)' = h
    BY <2>0, <2>2, <2>3 DEF Here
  <2>6. /\ h \in Slot
        /\ atomic_objects' \in [Slot -> Row]
        /\ atomic_objects'[h].generation = Claimed
        /\ \A s \in Slot \ {h} : atomic_objects'[s] = atomic_objects[s]
    BY <2>1 DEF IInv, TypeOK, Row
  <2>7. Effect(t)
    BY ClaimEffect
  <2>8. \A s \in Slot : ~IsStale(s) => ~IsStale(s)'
    BY <2>1, <2>6 DEF IsStale, IsCurrent, IsClaimed
  <2>9. \A n \in 0 .. call[t].probe - 1 :
          SlotAt(call[t].address, call[t].producer, n) \in Slot
    BY <1>1, SlotAtInTable DEF Call, Slot, CallFacts
  <2>10. CallFacts(t)'
    BY <1>1, <2>1, <2>2, <2>3, <2>5, <2>6 DEF CallFacts, ReleasePc, AcquirePc, IsClaimed
  <2>11. WalkSolid(t)' /\ RowAhead(t)'
    BY <1>1, <2>2, <2>3, <2>8, <2>9 DEF WalkSolid, RowAhead, ReleasePc
  <2>12. RowsValid'
    BY <2>1, <2>6 DEF IInv, TypeOK, RowsValid, IsCurrent, Claimed
  <2>13. ChainUnbroken'
    <3>1. SUFFICES ASSUME NEW s \in Slot, IsCurrent(s)'
                   PROVE  (\E probe \in Slot :
                            /\ SlotAt(atomic_objects[s].address, atomic_objects[s].producer,
                                      probe) = s
                            /\ \A n \in 0 .. probe - 1 :
                                 ~IsStale(SlotAt(atomic_objects[s].address,
                                                 atomic_objects[s].producer, n)))'
      BY DEF ChainUnbroken
    <3>2. s # h /\ IsCurrent(s) /\ atomic_objects'[s] = atomic_objects[s]
      BY <2>1, <2>6, <3>1 DEF IsCurrent, Claimed, IInv, TypeOK
    <3>3. PICK probe \in Slot :
            /\ SlotAt(atomic_objects[s].address, atomic_objects[s].producer, probe) = s
            /\ \A n \in 0 .. probe - 1 :
                 ~IsStale(SlotAt(atomic_objects[s].address, atomic_objects[s].producer, n))
      BY <3>2 DEF IInv, ChainUnbroken
    <3>4. \A n \in 0 .. probe - 1 :
            SlotAt(atomic_objects[s].address, atomic_objects[s].producer, n) \in Slot
      <4>1. atomic_objects[s].address \in Address /\ atomic_objects[s].producer \in Subgroup
        BY <3>2 DEF IInv, RowsValid, TypeOK, Row
      <4> QED BY <4>1, SlotAtInTable DEF Slot
    <3> QED BY <2>8, <3>2, <3>3, <3>4
  <2>14. ClaimsOwned'
    <3>1. SUFFICES ASSUME NEW s \in Slot, IsClaimed(s)'
                   PROVE  \E w \in Thread : /\ Holds(w, s)'
                                            /\ \A u \in Thread : Holds(u, s)' => u = w
      BY DEF ClaimsOwned
    <3>2. \A u \in Thread \ {t}, x \in Slot : Holds(u, x)' <=> Holds(u, x)
      BY <2>7 DEF Effect, Holds, Here
    <3>3. Holds(t, h)' /\ \A x : x # h => ~Holds(t, x)' /\ ~Holds(t, x)
      BY <1>1, <2>2, <2>3, <2>5 DEF Holds
    <3>4. CASE s = h
      <4>1. \A u \in Thread \ {t} : ~Holds(u, h)
        BY <2>4, <2>6 DEF IInv, CallFacts, Holds, IsStale
      <4> QED BY <3>2, <3>3, <3>4, <4>1, <2>6
    <3>5. CASE s # h
      <4>1. IsClaimed(s)
        BY <2>6, <3>1, <3>5 DEF IsClaimed
      <4> QED BY <3>2, <3>3, <3>5, <4>1 DEF IInv, ClaimsOwned
    <3> QED BY <3>4, <3>5
  <2> QED BY <2>1, <2>2, <2>6, <2>7, <2>10, <2>11, <2>12, <2>13, <2>14, TableStep DEF Own
<1> QED BY <1>2, <1>3

\* The owner of a slot, or a lane that joins its epoch to a published record,
\* rewrites the fields and leaves the generation alone.
LEMMA RewriteKeepsTable ==
  ASSUME IInv, NEW t \in Thread, Effect(t), NEW h \in Slot, Holds(t, h), Holds(t, h)',
         NEW row \in Row, row.generation = atomic_objects[h].generation,
         atomic_objects' = [atomic_objects EXCEPT ![h] = row]
  PROVE  (RowsValid /\ ClaimsOwned /\ ChainUnbroken)'
<1>1. /\ generation' = generation /\ subgroup_epoch' = subgroup_epoch
      /\ \A s \in Slot : atomic_objects'[s].generation = atomic_objects[s].generation
  BY DEF Effect, IInv, TypeOK
<1>2. \A s \in Slot : /\ IsStale(s)' <=> IsStale(s)
                      /\ IsClaimed(s)' <=> IsClaimed(s)
                      /\ IsCurrent(s)' <=> IsCurrent(s)
  BY <1>1 DEF IsStale, IsCurrent, IsClaimed
<1>3. \A s \in Slot : IsCurrent(s) =>
        /\ atomic_objects'[s].address = atomic_objects[s].address
        /\ atomic_objects'[s].producer = atomic_objects[s].producer
        /\ atomic_objects'[s].epoch <= subgroup_epoch
        /\ atomic_objects[s].address \in Address /\ atomic_objects[s].producer \in Subgroup
  BY DEF Effect, IInv, RowsValid, TypeOK, Row
<1>4. RowsValid'
  BY <1>1, <1>2, <1>3 DEF IInv, RowsValid
<1>5. ChainUnbroken'
  <2>1. SUFFICES ASSUME NEW s \in Slot, IsCurrent(s)'
                 PROVE  (\E probe \in Slot :
                          /\ SlotAt(atomic_objects[s].address, atomic_objects[s].producer,
                                    probe) = s
                          /\ \A n \in 0 .. probe - 1 :
                               ~IsStale(SlotAt(atomic_objects[s].address,
                                               atomic_objects[s].producer, n)))'
    BY DEF ChainUnbroken
  <2>2. IsCurrent(s)
    BY <1>2, <2>1
  <2>3. PICK probe \in Slot :
          /\ SlotAt(atomic_objects[s].address, atomic_objects[s].producer, probe) = s
          /\ \A n \in 0 .. probe - 1 :
               ~IsStale(SlotAt(atomic_objects[s].address, atomic_objects[s].producer, n))
    BY <2>2 DEF IInv, ChainUnbroken
  <2>4. \A n \in 0 .. probe - 1 :
          SlotAt(atomic_objects[s].address, atomic_objects[s].producer, n) \in Slot
    BY <1>3, <2>2, SlotAtInTable DEF Slot
  <2> QED BY <1>2, <1>3, <2>2, <2>3, <2>4
<1>6. ClaimsOwned'
  <2>1. \A u \in Thread, s \in Slot : Holds(u, s)' <=> Holds(u, s)
    <3>1. \A u \in Thread \ {t}, s \in Slot : Holds(u, s)' <=> Holds(u, s)
      BY DEF Effect, Holds, Here
    <3>2. \A s \in Slot : Holds(t, s)' <=> Holds(t, s)
      BY DEF Holds
    <3> QED BY <3>1, <3>2
  <2> QED BY <1>2, <2>1 DEF IInv, ClaimsOwned
<1> QED BY <1>4, <1>5, <1>6

\* Rewriting a record keeps its type and its generation.
Rewritten(r, a, p, e) == [r EXCEPT !.address = a, !.producer = p, !.epoch = e]

LEMMA RowRewritten ==
  ASSUME NEW r \in Row, NEW a \in Address, NEW p \in Subgroup, NEW e \in Epoch
  PROVE  /\ Rewritten(r, a, p, e) \in Row
         /\ Rewritten(r, a, p, e).generation = r.generation
         /\ Rewritten(r, a, p, e).address = a
         /\ Rewritten(r, a, p, e).producer = p
         /\ Rewritten(r, a, p, e).epoch = e
BY DEF Row, Rewritten

LEMMA FillRowInv ==
  ASSUME IInv, NEW t \in Thread, FillRow(t)
  PROVE  IInv'
<1> DEFINE c == [call[t] EXCEPT !.pc = "record"]
<1>1. /\ call[t].pc = "fill" /\ call[t] \in Call /\ CallFacts(t) /\ WalkSolid(t)
      /\ Here(t) \in Slot
  BY HereInTable DEF FillRow, IInv, TypeOK
<1>2. PICK h \in Slot : h = Here(t)
  BY <1>1
<1>3. /\ Set(t, c) /\ UNCHANGED <<generation, subgroup_epoch, acquired_token, metadata_full>>
      /\ atomic_objects' = [atomic_objects EXCEPT ![h] = FreshRow(atomic_objects[h], call[t])]
  BY <1>2 DEF FillRow, IInv, TypeOK
<1>4. /\ c \in Call /\ c.pc = "record" /\ c.address = call[t].address
      /\ c.producer = call[t].producer /\ c.epoch = call[t].epoch
      /\ c.probe = call[t].probe
  BY <1>1, CallAt DEF Pc, ReleasePc, Call
<1>5. call'[t] = c
  BY <1>3 DEF Set, IInv, TypeOK
<1> HIDE DEF c
<1>6. Here(t)' = h
  BY <1>2, <1>4, <1>5 DEF Here
<1> DEFINE row == FreshRow(atomic_objects[h], call[t])
<1>7. /\ row \in Row /\ row.generation = atomic_objects[h].generation
      /\ row.address = call[t].address /\ row.producer = call[t].producer
      /\ row.epoch = 0
  <2>1. /\ atomic_objects[h] \in Row /\ call[t].address \in Address
        /\ call[t].producer \in Subgroup /\ 0 \in Epoch
    BY <1>1 DEF IInv, TypeOK, CallFacts, Call, Epoch
  <2>2. row = Rewritten(atomic_objects[h], call[t].address, call[t].producer, 0)
    BY DEF FreshRow, Rewritten
  <2> QED BY <2>1, <2>2, RowRewritten
<1>8. Holds(t, h) /\ Holds(t, h)'
  BY <1>1, <1>2, <1>4, <1>5, <1>6 DEF Holds
<1>9. Effect(t) /\ (RowsValid /\ ClaimsOwned /\ ChainUnbroken)'
  BY <1>3, <1>7, <1>8, FillEffect, RewriteKeepsTable
<1>10. atomic_objects' \in [Slot -> Row] /\ atomic_objects'[h] = row
  BY <1>3, <1>7 DEF IInv, TypeOK
<1>11. ~IsStale(h)'
  BY <1>1, <1>2, <1>3, <1>7, <1>10 DEF CallFacts, IsStale, IsClaimed
<1>12. CallFacts(t)'
  BY <1>1, <1>3, <1>4, <1>5, <1>6, <1>7, <1>10, <1>11
     DEF CallFacts, RowMatches, ReleasePc, AcquirePc, IInv, TypeOK, Epoch, IsStale, IsCurrent,
         IsClaimed
<1>13. WalkSolid(t)' /\ RowAhead(t)'
  <2>1. \A s \in Slot : ~IsStale(s) => ~IsStale(s)'
    BY <1>9 DEF Effect, IsStale, IsCurrent, IsClaimed
  <2>2. \A n \in 0 .. call[t].probe - 1 :
          SlotAt(call[t].address, call[t].producer, n) \in Slot
    BY <1>1, SlotAtInTable DEF Call, Slot, CallFacts
  <2> QED BY <1>1, <1>4, <1>5, <2>1, <2>2 DEF WalkSolid, RowAhead, ReleasePc
<1> QED BY <1>3, <1>4, <1>9, <1>10, <1>12, <1>13, TableStep DEF Own

LEMMA RecordEpochInv ==
  ASSUME IInv, NEW t \in Thread, RecordEpoch(t)
  PROVE  IInv'
<1> DEFINE c == [call[t] EXCEPT !.pc = "publish"]
<1>1. /\ call[t].pc = "record" /\ call[t] \in Call /\ CallFacts(t) /\ WalkSolid(t)
      /\ Here(t) \in Slot /\ ~IsStale(Here(t))
      /\ atomic_objects[Here(t)].epoch <= subgroup_epoch /\ call[t].epoch <= subgroup_epoch
  BY HereInTable DEF RecordEpoch, IInv, TypeOK, CallFacts, ReleasePc
<1>2. PICK h \in Slot : h = Here(t)
  BY <1>1
<1>3. /\ Set(t, c) /\ UNCHANGED <<generation, subgroup_epoch, acquired_token, metadata_full>>
      /\ atomic_objects' = [atomic_objects EXCEPT ![h] = JoinedRow(atomic_objects[h], call[t])]
  BY <1>2 DEF RecordEpoch, IInv, TypeOK
<1>4. /\ c \in Call /\ c.pc = "publish" /\ c.address = call[t].address
      /\ c.producer = call[t].producer /\ c.epoch = call[t].epoch
      /\ c.probe = call[t].probe
  BY <1>1, CallAt DEF Pc, ReleasePc, Call
<1>5. call'[t] = c
  BY <1>3 DEF Set, IInv, TypeOK
<1> HIDE DEF c
<1>6. Here(t)' = h
  BY <1>2, <1>4, <1>5 DEF Here
<1> DEFINE row == JoinedRow(atomic_objects[h], call[t])
<1>7. /\ row \in Row /\ row.generation = atomic_objects[h].generation
      /\ row.address = call[t].address /\ row.producer = call[t].producer
      /\ row.epoch <= subgroup_epoch
  <2> DEFINE e == RaiseTo(atomic_objects[h].epoch, call[t].epoch)
  <2>1. /\ atomic_objects[h] \in Row /\ call[t].address \in Address
        /\ call[t].producer \in Subgroup
        /\ atomic_objects[h].epoch \in Epoch /\ call[t].epoch \in Epoch
    BY <1>1 DEF IInv, TypeOK, CallFacts, Call, Row
  <2>2. e \in Epoch /\ e <= subgroup_epoch
    BY <1>1, <1>2, <2>1 DEF RaiseTo
  <2>3. row = Rewritten(atomic_objects[h], call[t].address, call[t].producer, e)
    BY DEF JoinedRow, Rewritten
  <2> HIDE DEF e, row
  <2> QED BY <2>1, <2>2, <2>3, RowRewritten
<1>8. Holds(t, h) /\ Holds(t, h)'
  BY <1>1, <1>2, <1>4, <1>5, <1>6 DEF Holds
<1>9. Effect(t) /\ (RowsValid /\ ClaimsOwned /\ ChainUnbroken)'
  BY <1>3, <1>7, <1>8, RecordEffect, RewriteKeepsTable
<1>10. atomic_objects' \in [Slot -> Row] /\ atomic_objects'[h] = row
  BY <1>3, <1>7 DEF IInv, TypeOK
<1>11. \A s \in Slot : ~IsStale(s) => ~IsStale(s)'
  BY <1>9 DEF Effect, IsStale, IsCurrent, IsClaimed
<1>12. CallFacts(t)'
  BY <1>1, <1>2, <1>3, <1>4, <1>5, <1>6, <1>7, <1>10, <1>11
     DEF CallFacts, RowMatches, ReleasePc, AcquirePc
<1>13. WalkSolid(t)' /\ RowAhead(t)'
  <2>1. \A n \in 0 .. call[t].probe - 1 :
          SlotAt(call[t].address, call[t].producer, n) \in Slot
    BY <1>1, SlotAtInTable DEF Call, Slot, CallFacts
  <2> QED BY <1>1, <1>4, <1>5, <1>11, <2>1 DEF WalkSolid, RowAhead, ReleasePc
<1> QED BY <1>3, <1>4, <1>9, <1>10, <1>12, <1>13, TableStep DEF Own

\* A lane that has returned from its call relies on nothing.
LEMMA ReturnOwn ==
  ASSUME IInv, NEW t \in Thread, Return(t)
  PROVE  Own(t)' /\ \A s : ~Holds(t, s)'
<1>1. call'[t] = Idle
  BY DEF Return, Set, IInv, TypeOK
<1>2. Idle.pc = "idle"
  BY DEF Idle
<1> QED BY <1>1, <1>2 DEF Own, CallFacts, WalkSolid, RowAhead, ReleasePc, AcquirePc, Holds

LEMMA PublishRowInv ==
  ASSUME IInv, NEW t \in Thread, PublishRow(t)
  PROVE  IInv'
<1>1. /\ call[t].pc = "publish" /\ call[t] \in Call /\ CallFacts(t) /\ WalkSolid(t)
      /\ Here(t) \in Slot
  BY HereInTable DEF PublishRow, IInv, TypeOK
<1>2. PICK h \in Slot : h = Here(t)
  BY <1>1
<1>3. /\ Return(t) /\ UNCHANGED <<generation, subgroup_epoch, acquired_token, metadata_full>>
      /\ atomic_objects' = [atomic_objects EXCEPT ![h].generation = generation]
  BY <1>2 DEF PublishRow
<1>4. /\ atomic_objects[h].address = call[t].address
      /\ atomic_objects[h].producer = call[t].producer
      /\ atomic_objects[h].epoch <= subgroup_epoch
      /\ call[t].address \in Address /\ call[t].producer \in Subgroup
  BY <1>1, <1>2 DEF CallFacts, RowMatches, Call
<1>5. /\ atomic_objects' \in [Slot -> Row]
      /\ atomic_objects'[h].generation = generation
      /\ atomic_objects'[h].address = atomic_objects[h].address
      /\ atomic_objects'[h].producer = atomic_objects[h].producer
      /\ atomic_objects'[h].epoch = atomic_objects[h].epoch
      /\ \A s \in Slot \ {h} : atomic_objects'[s] = atomic_objects[s]
  BY <1>3 DEF IInv, TypeOK, Row
<1>6. Effect(t)
  BY PublishEffect
<1>7. \A s \in Slot : ~IsStale(s) => ~IsStale(s)'
  BY <1>6 DEF Effect, IsStale, IsCurrent, IsClaimed
<1>8. RowsValid'
  BY <1>3, <1>4, <1>5 DEF IInv, RowsValid, TypeOK, IsCurrent
<1>9. ChainUnbroken'
  <2>1. SUFFICES ASSUME NEW s \in Slot, IsCurrent(s)'
                 PROVE  (\E probe \in Slot :
                          /\ SlotAt(atomic_objects[s].address, atomic_objects[s].producer,
                                    probe) = s
                          /\ \A n \in 0 .. probe - 1 :
                               ~IsStale(SlotAt(atomic_objects[s].address,
                                               atomic_objects[s].producer, n)))'
    BY DEF ChainUnbroken
  <2>2. PICK a \in Address, p \in Subgroup :
          a = atomic_objects'[s].address /\ p = atomic_objects'[s].producer
    BY <1>5, <1>8, <2>1 DEF RowsValid, Row
  <2>3. \E probe \in Slot :
          SlotAt(a, p, probe) = s /\ \A n \in 0 .. probe - 1 : ~IsStale(SlotAt(a, p, n))
    <3>1. CASE s = h
      BY <1>1, <1>2, <1>4, <1>5, <2>2, <3>1 DEF WalkSolid, Here, ReleasePc, Call
    <3>2. CASE s # h
      BY <1>3, <1>5, <2>1, <2>2, <3>2 DEF IInv, ChainUnbroken, IsCurrent
    <3> QED BY <3>1, <3>2
  <2>4. \A n \in Slot : ~IsStale(SlotAt(a, p, n)) => ~IsStale(SlotAt(a, p, n))'
    BY <1>7, SlotAtInTable
  <2>5. PICK probe \in Slot :
          SlotAt(a, p, probe) = s /\ \A n \in 0 .. probe - 1 : ~IsStale(SlotAt(a, p, n))
    BY <2>3
  <2>6. \A n \in 0 .. probe - 1 : n \in Slot
    BY DEF Slot
  <2> QED BY <2>2, <2>4, <2>5, <2>6
<1>10. ClaimsOwned'
  <2>1. SUFFICES ASSUME NEW s \in Slot, IsClaimed(s)'
                 PROVE  \E w \in Thread : /\ Holds(w, s)'
                                          /\ \A u \in Thread : Holds(u, s)' => u = w
    BY DEF ClaimsOwned
  <2>2. s # h /\ IsClaimed(s)
    BY <1>5, <2>1 DEF IsClaimed, IInv, TypeOK, Claimed
  <2>3. PICK w \in Thread : Holds(w, s) /\ \A u \in Thread : Holds(u, s) => u = w
    BY <2>2 DEF IInv, ClaimsOwned
  <2>4. w # t
    BY <1>2, <2>2, <2>3 DEF Holds
  <2>5. \A u \in Thread \ {t} : Holds(u, s)' <=> Holds(u, s)
    BY <1>6 DEF Effect, Holds, Here
  <2> QED BY <1>3, <2>3, <2>4, <2>5, ReturnOwn
<1> QED BY <1>3, <1>5, <1>6, <1>8, <1>9, <1>10, CallIdle, ReturnOwn, TableStep DEF Return

LEMMA EmitFullInv ==
  ASSUME IInv, NEW t \in Thread, EmitFull(t)
  PROVE  IInv'
<1>1. /\ Set(t, Idle) /\ call[t].pc = "full" /\ metadata_full' = TRUE
      /\ UNCHANGED <<generation, subgroup_epoch, atomic_objects, acquired_token>>
  BY DEF EmitFull, Return
<1>2. Own(t)' /\ \A s : ~Holds(t, s)'
  BY ReturnOwn DEF EmitFull
<1> QED BY <1>1, <1>2, CallIdle, SharedStep DEF IInv, TypeOK, TokenType

-------------------------------------------------------------------------------
\* Acquires

\* Producer 0 or 1 is a candidate: there are two subgroups at least.
LEMMA BeginAcquireInv ==
  ASSUME IInv, NEW t \in Thread, NEW a \in Address, NEW r \in AcquireRetries,
         BeginAcquire(t, a, r)
  PROVE  IInv'
<1> DEFINE c == [Idle EXCEPT !.address = a, !.attempt = 1, !.retries = r]
           d == Search(t, c, 0)
<1>1. /\ Set(t, d) /\ call[t].pc = "idle"
      /\ UNCHANGED <<generation, subgroup_epoch, atomic_objects, acquired_token, metadata_full>>
  BY DEF BeginAcquire, shared
<1>2. c \in Call /\ c.address = a
  <2>1. r \in Nat /\ 1 \in Nat
    OBVIOUS
  <2> QED BY <2>1, CallIdle DEF Call
<1>3. 0 \in Subgroup \cup {SubgroupCapacity} /\ Candidate(t, 0) < SubgroupCapacity
  BY DEF Candidate, Subgroup
<1> HIDE DEF c
<1>4. d \in Call /\ d.pc = "lookup" /\ Own(t)'
  BY <1>1, <1>2, <1>3, SearchOwn
<1>5. \A s : ~Holds(t, s)'
  BY <1>1, <1>4 DEF Holds, Set, IInv, TypeOK
<1> QED BY <1>1, <1>4, <1>5, SharedStep DEF IInv, TypeOK, TokenType

\* The stale slot that ends a search has no record of the key behind it.
LEMMA LookupSlotInv ==
  ASSUME IInv, NEW t \in Thread, LookupSlot(t)
  PROVE  IInv'
<1>1. /\ call[t].pc = "lookup" /\ call[t] \in Call /\ CallFacts(t) /\ RowAhead(t)
      /\ Here(t) \in Slot /\ call[t].address \in Address
      /\ call[t].producer \in Subgroup /\ call[t].probe \in Slot
  BY HereInTable DEF LookupSlot, IInv, TypeOK, CallFacts, Call
<1>2. UNCHANGED <<generation, subgroup_epoch, atomic_objects, acquired_token, metadata_full>>
  BY DEF LookupSlot, shared
<1>3. CASE LookupPasses(Here(t)) /\ Set(t, NextLookup(call[t]))
  <2>1. ~HasRow(Here(t), call[t].address, call[t].producer)
    BY <1>3 DEF LookupPasses, HasRow, IsClaimed, IsCurrent, IInv, TypeOK, Claimed
  <2>2. /\ NextLookup(call[t]) \in Call /\ NextLookup(call[t]).pc \in {"lookup", "absent"}
        /\ Own(t)'
    BY <1>1, <1>2, <1>3, <2>1, NextLookupOwn
  <2>3. \A s : ~Holds(t, s)'
    BY <1>3, <2>2 DEF Holds, Set, IInv, TypeOK
  <2> QED BY <1>1, <1>2, <1>3, <2>2, <2>3, SharedStep DEF IInv, TypeOK, TokenType
<1>4. CASE LookupEnds(Here(t)) /\ Set(t, [call[t] EXCEPT !.pc = "absent"])
  <2> DEFINE c == [call[t] EXCEPT !.pc = "absent"]
  <2>1. /\ c \in Call /\ c.pc = "absent" /\ c.owed = call[t].owed
        /\ c.address = call[t].address /\ c.producer = call[t].producer
    BY <1>1, CallAt DEF Pc, AcquirePc, Call
  <2>2. call'[t] = c
    BY <1>4 DEF Set, IInv, TypeOK
  <2> HIDE DEF c
  <2>3. ASSUME call[t].owed # {}
        PROVE  FALSE
    <3>1. PICK a \in Address, p \in Subgroup, m \in Slot :
            a = call[t].address /\ p = call[t].producer /\ m = call[t].probe
      BY <1>1
    <3>2. PICK n \in m .. Capacity - 1 : HasRow(SlotAt(a, p, n), a, p)
      BY <1>1, <2>3, <3>1 DEF RowAhead
    <3>3. SlotAt(a, p, m) = Here(t) /\ IsStale(SlotAt(a, p, m))
      BY <1>4, <3>1 DEF Here, LookupEnds
    <3>4. n \in Slot /\ m < n
      BY <3>2, <3>3 DEF HasRow, IsStale, Slot
    <3>5. SlotAt(a, p, n) \in Slot
      BY <3>4, SlotAtInTable
    <3>6. PICK q \in Slot : /\ SlotAt(a, p, q) = SlotAt(a, p, n)
                            /\ \A k \in 0 .. q - 1 : ~IsStale(SlotAt(a, p, k))
      BY <3>2, <3>5 DEF IInv, ChainUnbroken, HasRow, RowMatches
    <3>7. q = n
      BY <3>4, <3>6, ProbesDiffer
    <3>8. m \in 0 .. q - 1
      BY <3>4, <3>7 DEF Slot
    <3> QED BY <3>3, <3>6, <3>8
  <2>4. Own(t)'
    BY <1>1, <2>1, <2>2, <2>3 DEF Own, CallFacts, WalkSolid, RowAhead, ReleasePc, AcquirePc
  <2>5. \A s : ~Holds(t, s)'
    BY <2>1, <2>2 DEF Holds
  <2>6. Set(t, c)
    BY <1>4 DEF c
  <2> QED BY <1>1, <1>2, <2>1, <2>4, <2>5, <2>6, SharedStep DEF IInv, TypeOK, TokenType
<1>5. CASE IsCurrent(Here(t)) /\ Set(t, [call[t] EXCEPT !.pc = "compare"])
  <2> DEFINE c == [call[t] EXCEPT !.pc = "compare"]
  <2>1. /\ c \in Call /\ c.pc = "compare" /\ c.owed = call[t].owed
        /\ c.address = call[t].address /\ c.producer = call[t].producer
        /\ c.probe = call[t].probe
    BY <1>1, CallAt DEF Pc, AcquirePc, Call
  <2>2. call'[t] = c
    BY <1>5 DEF Set, IInv, TypeOK
  <2>3. Set(t, c)
    BY <1>5
  <2> HIDE DEF c
  <2>4. Here(t)' = Here(t)
    BY <2>1, <2>2 DEF Here
  <2>5. \A s, a, q : HasRow(s, a, q)' <=> HasRow(s, a, q)
    BY <1>2 DEF HasRow, RowMatches, IsCurrent
  <2>6. CallFacts(t)' /\ WalkSolid(t)'
    BY <1>1, <1>2, <1>5, <2>1, <2>2, <2>4
       DEF CallFacts, WalkSolid, ReleasePc, AcquirePc, IsCurrent
  <2>7. RowAhead(t)'
    BY <1>1, <2>1, <2>2, <2>5 DEF RowAhead
  <2>8. \A s : ~Holds(t, s)'
    BY <2>1, <2>2 DEF Holds
  <2> QED BY <1>1, <1>2, <2>1, <2>3, <2>6, <2>7, <2>8, SharedStep
          DEF IInv, TypeOK, TokenType, Own
<1> QED BY <1>3, <1>4, <1>5 DEF LookupSlot

LEMMA LookupCompareInv ==
  ASSUME IInv, NEW t \in Thread, LookupCompare(t)
  PROVE  IInv'
<1>1. /\ call[t].pc = "compare" /\ call[t] \in Call /\ CallFacts(t)
      /\ IsCurrent(Here(t))
      /\ UNCHANGED <<generation, subgroup_epoch, atomic_objects, acquired_token, metadata_full>>
  BY DEF LookupCompare, IInv, TypeOK, CallFacts, shared
<1>2. CASE RowMatches(Here(t), call[t].address, call[t].producer)
  <2> DEFINE c == [call[t] EXCEPT !.pc = "import"]
  <2>1. /\ c \in Call /\ c.pc = "import" /\ c.address = call[t].address
        /\ c.producer = call[t].producer /\ c.probe = call[t].probe
    BY <1>1, CallAt DEF Pc, AcquirePc, Call
  <2>2. Set(t, c)
    BY <1>2 DEF LookupCompare
  <2>3. call'[t] = c
    BY <2>2 DEF Set, IInv, TypeOK
  <2> HIDE DEF c
  <2>4. Here(t)' = Here(t)
    BY <2>1, <2>3 DEF Here
  <2>5. Own(t)'
    BY <1>1, <1>2, <2>1, <2>3, <2>4
       DEF Own, CallFacts, WalkSolid, RowAhead, HasRow, RowMatches, ReleasePc, AcquirePc,
           IsCurrent
  <2>6. \A s : ~Holds(t, s)'
    BY <2>1, <2>3 DEF Holds
  <2> QED BY <1>1, <2>1, <2>2, <2>5, <2>6, SharedStep DEF IInv, TypeOK, TokenType
<1>3. CASE ~RowMatches(Here(t), call[t].address, call[t].producer)
  <2>1. Set(t, NextLookup(call[t]))
    BY <1>3 DEF LookupCompare
  <2>2. /\ NextLookup(call[t]) \in Call /\ NextLookup(call[t]).pc \in {"lookup", "absent"}
        /\ Own(t)'
    BY <1>1, <1>3, <2>1, NextLookupOwn DEF HasRow
  <2>3. \A s : ~Holds(t, s)'
    BY <2>1, <2>2 DEF Holds, Set, IInv, TypeOK
  <2> QED BY <1>1, <2>1, <2>2, <2>3, SharedStep DEF IInv, TypeOK, TokenType
<1> QED BY <1>2, <1>3

\* Going on to the next producer, the next attempt or the caller.
LEMMA NextProducerOwn ==
  ASSUME IInv, NEW t \in Thread, NEW anyFound \in BOOLEAN,
         call[t].pc \in {"absent", "import"}, NextProducer(t, anyFound),
         UNCHANGED <<generation, subgroup_epoch, atomic_objects>>
  PROVE  \E c \in Call : Set(t, c) /\ Own(t)' /\ \A s : ~Holds(t, s)'
<1> DEFINE c == [call[t] EXCEPT !.found = anyFound]
           next == call[t].producer + 1
<1>1. call[t] \in Call /\ call[t].address \in Address /\ call[t].producer \in Subgroup
  BY DEF IInv, TypeOK, CallFacts, Call
<1>2. /\ c \in Call /\ c.address = call[t].address /\ c.producer = call[t].producer
      /\ next \in Subgroup \cup {SubgroupCapacity}
  BY <1>1 DEF Call, Subgroup
<1>3. ASSUME NEW d \in Call, d.address \in Address,
             NEW first \in Subgroup \cup {SubgroupCapacity},
             Candidate(t, first) < SubgroupCapacity, Set(t, Search(t, d, first))
      PROVE  \E x \in Call : Set(t, x) /\ Own(t)' /\ \A s : ~Holds(t, s)'
  <2>1. /\ Search(t, d, first) \in Call /\ Search(t, d, first).pc = "lookup" /\ Own(t)'
    BY <1>3, SearchOwn
  <2>2. \A s : ~Holds(t, s)'
    BY <1>3, <2>1 DEF Holds, Set, IInv, TypeOK
  <2> QED BY <1>3, <2>1, <2>2
<1>4. CASE Set(t, Search(t, c, next)) /\ Candidate(t, next) < SubgroupCapacity
  BY <1>1, <1>2, <1>3, <1>4
<1>5. CASE Return(t)
  BY <1>5, CallIdle, ReturnOwn DEF Return
<1>6. CASE Set(t, Search(t, [c EXCEPT !.attempt = @ + 1], 0))
  <2>1. [c EXCEPT !.attempt = @ + 1] \in Call
    <3>1. c.attempt + 1 \in Nat
      BY <1>2 DEF Call
    <3> QED BY <1>2, <3>1 DEF Call
  <2>2. [c EXCEPT !.attempt = @ + 1].address \in Address
    BY <1>1, <1>2 DEF Call
  <2>3. 0 \in Subgroup \cup {SubgroupCapacity} /\ Candidate(t, 0) < SubgroupCapacity
    BY DEF Candidate, Subgroup
  <2> QED BY <1>3, <1>6, <2>1, <2>2, <2>3
<1>7. \/ Set(t, Search(t, c, next)) /\ Candidate(t, next) < SubgroupCapacity
      \/ Return(t)
      \/ Set(t, Search(t, [c EXCEPT !.attempt = @ + 1], 0))
  <2>1. c.producer + 1 = next
    BY <1>2
  <2> HIDE DEF c
  <2> QED BY <2>1 DEF NextProducer, c
<1> QED BY <1>4, <1>5, <1>6, <1>7

LEMMA LookupAbsentInv ==
  ASSUME IInv, NEW t \in Thread, LookupAbsent(t)
  PROVE  IInv'
<1>1. /\ call[t].pc = "absent" /\ call[t].found \in BOOLEAN
      /\ UNCHANGED <<generation, subgroup_epoch, atomic_objects, acquired_token, metadata_full>>
  BY DEF LookupAbsent, shared, IInv, TypeOK, Call
<1>2. PICK c \in Call : Set(t, c) /\ Own(t)' /\ \A s : ~Holds(t, s)'
  BY <1>1, NextProducerOwn DEF LookupAbsent
<1> QED BY <1>1, <1>2, SharedStep DEF IInv, TypeOK, TokenType

LEMMA ImportTokenInv ==
  ASSUME IInv, NEW t \in Thread, ImportToken(t)
  PROVE  IInv'
<1>1. /\ call[t].pc = "import" /\ call[t] \in Call /\ call[t].producer \in Subgroup
      /\ UNCHANGED <<generation, subgroup_epoch, atomic_objects, metadata_full>>
      /\ Here(t) \in Slot
  BY HereInTable DEF ImportToken, IInv, TypeOK, Call
<1>2. PICK c \in Call : Set(t, c) /\ Own(t)' /\ \A s : ~Holds(t, s)'
  BY <1>1, NextProducerOwn DEF ImportToken
<1>3. acquired_token' \in TokenType
  <2>1. atomic_objects[Here(t)].epoch + 1 \in 0 .. MaxEpoch + 1
    BY <1>1 DEF IInv, TypeOK, Row, Epoch
  <2>2. acquired_token \in TokenType /\ SubgroupOf[t] \in Subgroup
    BY DEF IInv, TypeOK, TokenType
  <2>3. RaiseTo(acquired_token[SubgroupOf[t]][call[t].producer],
                atomic_objects[Here(t)].epoch + 1) \in 0 .. MaxEpoch + 1
    BY <1>1, <2>1, <2>2 DEF RaiseTo, TokenType
  <2>4. acquired_token' = [acquired_token EXCEPT ![SubgroupOf[t]][call[t].producer] =
          RaiseTo(acquired_token[SubgroupOf[t]][call[t].producer],
                  atomic_objects[Here(t)].epoch + 1)]
    BY <1>1, <2>2 DEF ImportToken, TokenType
  <2> QED BY <1>1, <2>2, <2>3, <2>4 DEF TokenType
<1> QED BY <1>1, <1>2, <1>3, SharedStep DEF IInv, TypeOK, TokenType

-------------------------------------------------------------------------------
\* Barriers and launches

LEMMA BarrierInv ==
  ASSUME IInv, Barrier
  PROVE  IInv'
<1>1. /\ subgroup_epoch' = subgroup_epoch + 1 /\ subgroup_epoch < MaxEpoch
      /\ UNCHANGED <<generation, atomic_objects, acquired_token, metadata_full, call>>
      /\ \A t \in Thread : call[t].pc = "idle"
  BY DEF Barrier, Quiet
<1>2. subgroup_epoch \in Epoch /\ subgroup_epoch' \in Epoch
  BY <1>1 DEF IInv, TypeOK, Epoch
<1>3. TypeOK'
  BY <1>1, <1>2 DEF IInv, TypeOK
<1>4. RowsValid'
  <2>1. \A s \in Slot : atomic_objects[s].epoch \in Nat
    BY DEF IInv, TypeOK, Row, Epoch
  <2> QED BY <1>1, <1>2, <2>1 DEF IInv, RowsValid, IsCurrent, Epoch
<1>5. ClaimsOwned' /\ ChainUnbroken'
  BY <1>1 DEF IInv, ClaimsOwned, Holds, Here, ChainUnbroken, IsStale, IsCurrent, IsClaimed
<1>6. metadata_full' => \A s \in Slot : ~IsStale(s)'
  BY <1>1 DEF IInv, IsStale, IsCurrent, IsClaimed
<1>7. \A t \in Thread : CallFacts(t)' /\ WalkSolid(t)' /\ RowAhead(t)'
  BY <1>1 DEF CallFacts, WalkSolid, RowAhead, ReleasePc, AcquirePc
<1> QED BY <1>3, <1>4, <1>5, <1>6, <1>7 DEF IInv

\* After a launch every slot is stale: none was claimed, since no lane was
\* inside a release, and no record can carry a generation not yet handed out.
LEMMA LaunchStale ==
  ASSUME IInv, Launch
  PROVE  \A s \in Slot : ~IsCurrent(s)' /\ ~IsClaimed(s)'
<1>1. /\ generation' = generation + 1 /\ UNCHANGED <<atomic_objects, call>>
      /\ \A t \in Thread : call[t].pc = "idle"
  BY DEF Launch, Quiet
<1>2. \A s \in Slot : ~IsClaimed(s)
  BY <1>1 DEF IInv, ClaimsOwned, Holds
<1>3. \A s \in Slot : atomic_objects[s].generation <= generation
  BY DEF IInv, RowsValid
<1>4. \A s \in Slot : atomic_objects[s].generation \in Int /\ generation \in Nat
  BY DEF IInv, TypeOK, Row, Claimed
<1> QED BY <1>1, <1>2, <1>3, <1>4 DEF IsCurrent, IsClaimed

LEMMA LaunchInv ==
  ASSUME IInv, Launch
  PROVE  IInv'
<1>1. /\ generation' = generation + 1 /\ subgroup_epoch' = 0
      /\ acquired_token' = NoTokens /\ metadata_full' = FALSE
      /\ UNCHANGED <<atomic_objects, call>>
      /\ \A t \in Thread : call[t].pc = "idle"
  BY DEF Launch, Quiet
<1>2. TypeOK'
  <2>1. NoTokens \in [Subgroup -> [Subgroup -> 0 .. MaxEpoch + 1]]
    BY DEF NoTokens
  <2>2. 0 \in Epoch /\ generation + 1 \in Nat \ {0}
    BY DEF Epoch, IInv, TypeOK
  <2> QED BY <1>1, <2>1, <2>2 DEF IInv, TypeOK
<1>3. \A s \in Slot : ~IsCurrent(s)' /\ ~IsClaimed(s)'
  BY LaunchStale
<1>4. RowsValid'
  <2>1. \A s \in Slot : /\ atomic_objects[s].generation \in Int
                         /\ atomic_objects[s].generation <= generation
    BY DEF IInv, RowsValid, TypeOK, Row, Claimed
  <2>2. generation \in Nat
    BY DEF IInv, TypeOK
  <2> QED BY <1>1, <1>3, <2>1, <2>2 DEF RowsValid
<1>5. ClaimsOwned' /\ ChainUnbroken'
  BY <1>3 DEF ClaimsOwned, ChainUnbroken
<1>6. \A t \in Thread : CallFacts(t)' /\ WalkSolid(t)' /\ RowAhead(t)'
  BY <1>1 DEF CallFacts, WalkSolid, RowAhead, ReleasePc, AcquirePc
<1> QED BY <1>1, <1>2, <1>4, <1>5, <1>6 DEF IInv

-------------------------------------------------------------------------------
\* The invariant

LEMMA InitInv == Init => IInv
<1> SUFFICES ASSUME Init
             PROVE  IInv
  OBVIOUS
<1>1. TypeOK
  <2>1. acquired_token \in [Subgroup -> [Subgroup -> 0 .. MaxEpoch + 1]]
    BY DEF Init, NoTokens
  <2>2. 0 \in Epoch /\ 0 \in Subgroup
    BY DEF Epoch, Subgroup
  <2>3. ZeroRow \in Row
    BY <2>2 DEF ZeroRow, Row
  <2>4. generation \in Nat \ {0} /\ subgroup_epoch \in Epoch
    BY <2>2 DEF Init
  <2>5. atomic_objects \in [Slot -> Row] /\ call \in [Thread -> Call]
    BY <2>3, CallIdle DEF Init
  <2>6. metadata_full \in BOOLEAN
    BY Zenon DEF Init
  <2> QED BY <2>1, <2>4, <2>5, <2>6 DEF TypeOK
<1>2. \A s \in Slot : ~IsCurrent(s) /\ ~IsClaimed(s) /\ atomic_objects[s].generation = 0
  BY DEF Init, ZeroRow, IsCurrent, IsClaimed, Claimed
<1>3. \A t \in Thread : call[t].pc = "idle"
  BY DEF Init, Idle
<1>4. RowsValid /\ ClaimsOwned /\ ChainUnbroken
  BY <1>2 DEF Init, RowsValid, ClaimsOwned, ChainUnbroken
<1>5. \A t \in Thread : CallFacts(t) /\ WalkSolid(t) /\ RowAhead(t)
  BY <1>3 DEF CallFacts, WalkSolid, RowAhead, ReleasePc, AcquirePc
<1> QED BY <1>1, <1>4, <1>5 DEF Init, IInv

LEMMA StutterInv == IInv /\ UNCHANGED vars => IInv'
<1> SUFFICES ASSUME IInv, UNCHANGED vars
             PROVE  IInv'
  OBVIOUS
<1>1. TypeOK' /\ RowsValid'
  BY DEF vars, IInv, TypeOK, RowsValid, IsCurrent
<1>2. ClaimsOwned' /\ ChainUnbroken'
  BY DEF vars, IInv, ClaimsOwned, Holds, Here, ChainUnbroken, IsStale, IsCurrent, IsClaimed
<1>3. metadata_full' => \A s \in Slot : ~IsStale(s)'
  BY DEF vars, IInv, IsStale, IsCurrent, IsClaimed
<1>4. \A t \in Thread : Own(t)'
  <2> SUFFICES ASSUME NEW t \in Thread
               PROVE  Own(t)'
    OBVIOUS
  <2>1. CallFacts(t)'
    BY DEF vars, IInv, Own, CallFacts, Here, HasRow, RowMatches, IsStale, IsCurrent, IsClaimed
  <2>2. WalkSolid(t)'
    BY DEF vars, IInv, Own, WalkSolid, IsStale, IsCurrent, IsClaimed
  <2>3. RowAhead(t)'
    BY DEF vars, IInv, Own, RowAhead, HasRow, RowMatches, IsCurrent
  <2> QED BY <2>1, <2>2, <2>3 DEF Own
<1> QED BY <1>1, <1>2, <1>3, <1>4 DEF IInv, Own

LEMMA StepInv ==
  ASSUME IInv, NEW t \in Thread, Step(t)
  PROVE  IInv'
<1>1. CASE ProbeCurrent(t) \/ ProbeStale(t)  BY <1>1, ProbeInv
<1>2. CASE ProbeClaimed(t)   BY <1>2, ProbeClaimedInv
<1>3. CASE MatchRow(t)       BY <1>3, MatchRowInv
<1>4. CASE ClaimSlot(t)      BY <1>4, ClaimSlotInv
<1>5. CASE FillRow(t)        BY <1>5, FillRowInv
<1>6. CASE RecordEpoch(t)    BY <1>6, RecordEpochInv
<1>7. CASE PublishRow(t)     BY <1>7, PublishRowInv
<1>8. CASE EmitFull(t)       BY <1>8, EmitFullInv
<1>9. CASE LookupSlot(t)     BY <1>9, LookupSlotInv
<1>10. CASE LookupCompare(t) BY <1>10, LookupCompareInv
<1>11. CASE LookupAbsent(t)  BY <1>11, LookupAbsentInv
<1>12. CASE ImportToken(t)   BY <1>12, ImportTokenInv
<1> QED BY <1>1, <1>2, <1>3, <1>4, <1>5, <1>6, <1>7, <1>8, <1>9, <1>10, <1>11, <1>12
        DEF Step, ReleaseStep, AcquireStep

LEMMA NextInv == IInv /\ [Next]_vars => IInv'
<1> SUFFICES ASSUME IInv, [Next]_vars
             PROVE  IInv'
  OBVIOUS
<1>1. CASE \E t \in Thread, a \in Address, e \in Epoch : BeginRelease(t, a, e)
  BY <1>1, BeginReleaseInv
<1>2. CASE \E t \in Thread, a \in Address, r \in AcquireRetries : BeginAcquire(t, a, r)
  BY <1>2, BeginAcquireInv
<1>3. CASE \E t \in Thread : Step(t)
  BY <1>3, StepInv
<1>4. CASE Barrier
  BY <1>4, BarrierInv
<1>5. CASE Launch
  BY <1>5, LaunchInv
<1>6. CASE UNCHANGED vars
  BY <1>6, StutterInv
<1> QED BY <1>1, <1>2, <1>3, <1>4, <1>5, <1>6 DEF Next

\* IInv holds in every reachable state: what each lane knows while it probes,
\* claims, fills, publishes and searches stays true under the steps of all
\* others (context.hpp:614-728).
THEOREM Invariance == Spec => []IInv
<1>1. Init => IInv
  BY InitInv
<1>2. IInv /\ [Next]_vars => IInv'
  BY NextInv
<1> QED BY <1>1, <1>2, PTL DEF Spec

\* Every variable keeps its range (storage_ref, context.hpp:43-82).
THEOREM TypeCorrect == Spec => []TypeOK
<1>1. IInv => TypeOK
  BY DEF IInv
<1> QED BY <1>1, Invariance, PTL

\* A claimed slot has exactly one owner, which is about to publish it
\* (context.hpp:657-668, 780-782).
THEOREM ClaimsAreOwned == Spec => []ClaimsOwned
<1>1. IInv => ClaimsOwned
  BY DEF IInv
<1> QED BY <1>1, Invariance, PTL

\* No stale slot ever breaks the chain in front of a published record
\* (context.hpp:614-683, 711-717).
THEOREM ChainsUnbroken == Spec => []ChainUnbroken
<1>1. IInv => ChainUnbroken
  BY DEF IInv
<1> QED BY <1>1, Invariance, PTL

\* A search returns null only if its key had no published record when the
\* search began (context.hpp:685-728).
THEOREM ReleasesAreFound == Spec => []NoReleaseOverlooked
<1>1. IInv => NoReleaseOverlooked
  BY DEF IInv, RowAhead, NoReleaseOverlooked
<1> QED BY <1>1, Invariance, PTL

\* A release is dropped, and metadata_full emitted, only when the table has no
\* stale slot (context.hpp:630-682).
THEOREM FullIsFull == Spec => []FullMeansNoRoom
<1>1. IInv => FullMeansNoRoom
  BY DEF IInv, WalkSolid, FullMeansNoRoom
<1> QED BY <1>1, Invariance, PTL

-------------------------------------------------------------------------------
\* The table implements ReleaseRecords

\* A step that changes no published record, epoch or token is no step at all.
LEMMA InvisibleStep ==
  ASSUME UNCHANGED <<generation, subgroup_epoch, acquired_token>>,
         \A s \in Slot, a \in Address, p \in Subgroup :
           /\ HasRow(s, a, p)' <=> HasRow(s, a, p)
           /\ HasRow(s, a, p) => atomic_objects'[s].epoch = atomic_objects[s].epoch
  PROVE  UNCHANGED Promise!rvars
<1>1. PublishedReleases' = PublishedReleases
  BY DEF PublishedReleases
<1> QED BY <1>1 DEF Promise!rvars

\* The epochs released for one address and producer
Covered(a, p, e) == {a} \X {p} \X (0 .. e)

LEMMA CoveredMember ==
  ASSUME NEW a \in Address, NEW p \in Subgroup, NEW e \in Epoch,
         NEW b \in Address, NEW q \in Subgroup, NEW f \in Epoch
  PROVE  <<b, q, f>> \in Covered(a, p, e) <=> b = a /\ q = p /\ f <= e
BY DEF Covered, Epoch

\* A step that makes one record visible, or raises the epoch of a visible one,
\* is a release of that record's key at that epoch.
LEMMA ReleaseStepRefines ==
  ASSUME IInv, UNCHANGED <<generation, subgroup_epoch, acquired_token>>,
         NEW h \in Slot, NEW a \in Address, NEW p \in Subgroup, NEW e \in Epoch,
         e <= subgroup_epoch,
         HasRow(h, a, p)',
         \A b \in Address, q \in Subgroup, f \in Epoch :
           HasRow(h, b, q)' /\ f <= atomic_objects'[h].epoch
             <=> \/ HasRow(h, b, q) /\ f <= atomic_objects[h].epoch
                 \/ b = a /\ q = p /\ f <= e,
         \A s \in Slot \ {h} : atomic_objects'[s] = atomic_objects[s]
  PROVE  Promise!Release(a, p, e)
<1>1. \A s \in Slot \ {h} : \A b, q : HasRow(s, b, q)' <=> HasRow(s, b, q)
  BY DEF HasRow, RowMatches, IsCurrent
<1>2. \A b \in Address, q \in Subgroup, f \in Epoch :
        (\E s \in Slot : HasRow(s, b, q)' /\ f <= atomic_objects'[s].epoch)
          <=> \/ \E s \in Slot : HasRow(s, b, q) /\ f <= atomic_objects[s].epoch
              \/ b = a /\ q = p /\ f <= e
  BY <1>1
<1>3. PublishedReleases' = PublishedReleases \cup Covered(a, p, e)
  <2>1. ASSUME NEW r
        PROVE  r \in PublishedReleases' <=> r \in PublishedReleases \cup Covered(a, p, e)
    <3>1. r \in PublishedReleases' => r \in Address \X Subgroup \X Epoch
      BY DEF PublishedReleases
    <3>2. r \in PublishedReleases => r \in Address \X Subgroup \X Epoch
      BY DEF PublishedReleases
    <3>3. r \in Covered(a, p, e) => r \in Address \X Subgroup \X Epoch
      BY DEF Covered, Epoch
    <3>4. ASSUME NEW b \in Address, NEW q \in Subgroup, NEW f \in Epoch, r = <<b, q, f>>
          PROVE  r \in PublishedReleases' <=> r \in PublishedReleases \cup Covered(a, p, e)
      BY <1>2, <3>4, CoveredMember DEF PublishedReleases
    <3> QED BY <3>1, <3>2, <3>3, <3>4
  <2> QED BY <2>1
<1> QED BY <1>3 DEF Promise!Release, Covered

LEMMA RecordEpochRefines ==
  ASSUME IInv, NEW t \in Thread, RecordEpoch(t)
  PROVE  Promise!RNext \/ UNCHANGED Promise!rvars
<1>1. /\ CallFacts(t) /\ call[t].pc = "record" /\ call[t].producer \in Subgroup
      /\ call[t].epoch \in Epoch /\ Here(t) \in Slot
  BY HereInTable DEF RecordEpoch, IInv, TypeOK, Call
<1>2. PICK h \in Slot, a \in Address, p \in Subgroup, e \in Epoch :
        h = Here(t) /\ a = call[t].address /\ p = call[t].producer /\ e = call[t].epoch
  BY <1>1 DEF CallFacts
<1>3. /\ UNCHANGED <<generation, subgroup_epoch, acquired_token>>
      /\ atomic_objects' = [atomic_objects EXCEPT ![h] = JoinedRow(atomic_objects[h], call[t])]
      /\ e <= subgroup_epoch
      /\ atomic_objects[h].address = a /\ atomic_objects[h].producer = p
  BY <1>1, <1>2 DEF RecordEpoch, IInv, TypeOK, CallFacts, RowMatches, ReleasePc
<1>4. /\ \A s \in Slot \ {h} : atomic_objects'[s] = atomic_objects[s]
      /\ atomic_objects'[h] = Rewritten(atomic_objects[h], a, p,
                                        RaiseTo(atomic_objects[h].epoch, e))
  BY <1>2, <1>3 DEF IInv, TypeOK, JoinedRow, Rewritten
<1>5. atomic_objects[h] \in Row /\ atomic_objects[h].epoch \in Epoch
  BY DEF IInv, TypeOK, Row
<1>6. RaiseTo(atomic_objects[h].epoch, e) \in Epoch
  BY <1>5 DEF RaiseTo
<1>7. /\ atomic_objects'[h].generation = atomic_objects[h].generation
      /\ atomic_objects'[h].address = a /\ atomic_objects'[h].producer = p
      /\ atomic_objects'[h].epoch = RaiseTo(atomic_objects[h].epoch, e)
  BY <1>4, <1>5, <1>6, RowRewritten
<1>8. CASE IsCurrent(h)
  <2>1. \A b, q : /\ HasRow(h, b, q)' <=> b = a /\ q = p
                 /\ HasRow(h, b, q) <=> b = a /\ q = p
    BY <1>3, <1>7, <1>8 DEF HasRow, RowMatches, IsCurrent
  <2>2. \A f \in Epoch : f <= atomic_objects'[h].epoch
                          <=> f <= atomic_objects[h].epoch \/ f <= e
    BY <1>5, <1>7 DEF RaiseTo, Epoch
  <2>3. \A b \in Address, q \in Subgroup, f \in Epoch :
          HasRow(h, b, q)' /\ f <= atomic_objects'[h].epoch
            <=> \/ HasRow(h, b, q) /\ f <= atomic_objects[h].epoch
                \/ b = a /\ q = p /\ f <= e
    BY <2>1, <2>2 DEF HasRow, RowMatches, IsCurrent
  <2>4. HasRow(h, a, p)'
    BY <2>1 DEF HasRow, RowMatches, IsCurrent
  <2>5. Promise!Release(a, p, e)
    BY <1>3, <1>4, <2>3, <2>4, ReleaseStepRefines
  <2> QED BY <2>5 DEF Promise!RNext, Promise!Epoch, Subgroup, Epoch
<1>9. CASE ~IsCurrent(h)
  <2>1. ~IsCurrent(h)'
    BY <1>3, <1>7, <1>9 DEF IsCurrent
  <2>2. \A s \in Slot : IsCurrent(s)' <=> IsCurrent(s)
    BY <1>3, <1>4, <1>9, <2>1 DEF IsCurrent
  <2> QED BY <1>3, <1>4, <1>9, <2>1, <2>2, InvisibleStep DEF HasRow, RowMatches
<1> QED BY <1>8, <1>9

LEMMA PublishRowRefines ==
  ASSUME IInv, NEW t \in Thread, PublishRow(t)
  PROVE  Promise!RNext \/ UNCHANGED Promise!rvars
<1>1. /\ CallFacts(t) /\ call[t].pc = "publish" /\ call[t].producer \in Subgroup
      /\ Here(t) \in Slot
  BY HereInTable DEF PublishRow, IInv, TypeOK, Call
<1>2. PICK h \in Slot, a \in Address, p \in Subgroup, e \in Epoch :
        /\ h = Here(t) /\ a = call[t].address /\ p = call[t].producer
        /\ e = atomic_objects[h].epoch
  BY <1>1 DEF CallFacts, IInv, TypeOK, Row
<1>3. /\ UNCHANGED <<generation, subgroup_epoch, acquired_token>>
      /\ atomic_objects' = [atomic_objects EXCEPT ![h].generation = generation]
      /\ e <= subgroup_epoch
      /\ atomic_objects[h].address = a /\ atomic_objects[h].producer = p
  BY <1>1, <1>2 DEF PublishRow, CallFacts, RowMatches
<1>4. /\ \A s \in Slot \ {h} : atomic_objects'[s] = atomic_objects[s]
      /\ atomic_objects'[h].generation = generation
      /\ atomic_objects'[h].address = a /\ atomic_objects'[h].producer = p
      /\ atomic_objects'[h].epoch = e
  BY <1>2, <1>3 DEF IInv, TypeOK, Row
<1>5. \A b \in Address, q \in Subgroup, f \in Epoch :
        HasRow(h, b, q)' /\ f <= atomic_objects'[h].epoch
          <=> \/ HasRow(h, b, q) /\ f <= atomic_objects[h].epoch
              \/ b = a /\ q = p /\ f <= e
  BY <1>2, <1>3, <1>4 DEF HasRow, RowMatches, IsCurrent
<1>6. HasRow(h, a, p)'
  BY <1>3, <1>4 DEF HasRow, RowMatches, IsCurrent
<1>7. Promise!Release(a, p, e)
  BY <1>3, <1>4, <1>5, <1>6, ReleaseStepRefines
<1> QED BY <1>7 DEF Promise!RNext, Promise!Epoch, Subgroup, Epoch

\* Claiming and filling work on slots that hold no record of this launch.
LEMMA PreparationInvisible ==
  ASSUME IInv, NEW t \in Thread, ClaimSlot(t) \/ FillRow(t)
  PROVE  UNCHANGED Promise!rvars
<1>1. call[t].pc \in {"claim", "fill"} /\ call[t] \in Call /\ CallFacts(t) /\ Here(t) \in Slot
  BY HereInTable DEF ClaimSlot, FillRow, IInv, TypeOK
<1>2. UNCHANGED <<generation, subgroup_epoch, acquired_token>>
  BY DEF ClaimSlot, FillRow
<1>3. PICK h \in Slot : h = Here(t)
  BY <1>1
<1>4. CASE atomic_objects' = atomic_objects
  BY <1>2, <1>4, InvisibleStep DEF HasRow, RowMatches, IsCurrent
<1>5. CASE atomic_objects' # atomic_objects
  <2>1. ~IsCurrent(h) /\ ~IsCurrent(h)' /\ \A s \in Slot \ {h} : atomic_objects'[s] = atomic_objects[s]
    <3>1. CASE ClaimSlot(t)
      <4>1. MayClaim(t) /\ atomic_objects' = [atomic_objects EXCEPT ![h].generation = Claimed]
        BY <1>3, <1>5, <3>1 DEF ClaimSlot
      <4>2. ~IsCurrent(h)
        BY <1>1, <1>3, <3>1, <4>1 DEF MayClaim, CallFacts, IsCurrent, ClaimSlot
      <4>3. atomic_objects'[h].generation = Claimed /\ generation \in Nat
        BY <4>1 DEF IInv, TypeOK, Row
      <4> QED BY <1>2, <4>1, <4>2, <4>3 DEF IInv, TypeOK, IsCurrent, Claimed
    <3>2. CASE FillRow(t)
      <4>1. atomic_objects' = [atomic_objects EXCEPT ![h] = FreshRow(atomic_objects[h], call[t])]
        BY <1>3, <3>2 DEF FillRow, IInv, TypeOK
      <4>2. IsClaimed(h) /\ generation \in Nat
        BY <1>1, <1>3, <3>2 DEF CallFacts, FillRow, IInv, TypeOK
      <4>3. atomic_objects'[h].generation = atomic_objects[h].generation
        BY <4>1 DEF IInv, TypeOK, Row, FreshRow
      <4> QED BY <1>2, <4>1, <4>2, <4>3 DEF IInv, TypeOK, IsCurrent, IsClaimed, Claimed
    <3> QED BY <3>1, <3>2
  <2>2. \A s \in Slot : \A a, p : HasRow(s, a, p)' <=> HasRow(s, a, p)
    BY <1>2, <2>1 DEF HasRow, RowMatches, IsCurrent
  <2> QED BY <1>2, <2>1, <2>2, InvisibleStep DEF HasRow
<1> QED BY <1>4, <1>5

LEMMA ImportRefines ==
  ASSUME IInv, NEW t \in Thread, ImportToken(t)
  PROVE  Promise!RNext
<1>1. /\ call[t].pc = "import" /\ call[t].producer \in Subgroup /\ CallFacts(t)
      /\ Here(t) \in Slot /\ SubgroupOf[t] \in Subgroup
  BY HereInTable DEF ImportToken, IInv, TypeOK, Call
<1>2. PICK h \in Slot, a \in Address, p \in Subgroup, e \in Epoch :
        /\ h = Here(t) /\ a = call[t].address /\ p = call[t].producer
        /\ e = atomic_objects[h].epoch
  BY <1>1 DEF CallFacts, IInv, TypeOK, Row
<1>3. HasRow(h, a, p) /\ SubgroupOf[t] # p
  BY <1>1, <1>2 DEF CallFacts, AcquirePc
<1>4. <<a, p, e>> \in PublishedReleases
  <2>1. e <= atomic_objects[h].epoch
    BY <1>2 DEF Epoch
  <2> QED BY <1>3, <2>1 DEF PublishedReleases
<1>5. UNCHANGED <<generation, subgroup_epoch, atomic_objects>>
  BY DEF ImportToken
<1>6. PublishedReleases' = PublishedReleases
  BY <1>5 DEF PublishedReleases, HasRow, RowMatches, IsCurrent
<1>7. acquired_token' = [acquired_token EXCEPT ![SubgroupOf[t]][p] =
                           Promise!RaiseTo(@, e + 1)]
  BY <1>2 DEF ImportToken, RaiseTo, Promise!RaiseTo
<1>8. Promise!Import(SubgroupOf[t], p, a)
  BY <1>3, <1>4, <1>5, <1>6, <1>7 DEF Promise!Import, Promise!Epoch, Epoch
<1> QED BY <1>1, <1>8 DEF Promise!RNext, Subgroup

LEMMA LaunchRefines ==
  ASSUME IInv, Launch
  PROVE  Promise!Launch
<1>1. PublishedReleases' = {}
  BY LaunchStale DEF PublishedReleases, HasRow
<1> QED BY <1>1 DEF Launch, Promise!Launch, NoTokens, Promise!NoTokens, Subgroup

LEMMA BarrierRefines ==
  ASSUME Barrier
  PROVE  Promise!Barrier
<1>1. PublishedReleases' = PublishedReleases
  BY DEF Barrier, PublishedReleases, HasRow, RowMatches, IsCurrent
<1> QED BY <1>1 DEF Barrier, Promise!Barrier

LEMMA TableUntouched ==
  ASSUME UNCHANGED <<generation, subgroup_epoch, atomic_objects, acquired_token>>
  PROVE  UNCHANGED Promise!rvars
BY InvisibleStep DEF HasRow, RowMatches, IsCurrent

LEMMA StepRefines ==
  ASSUME IInv, NEW t \in Thread, Step(t)
  PROVE  Promise!RNext \/ UNCHANGED Promise!rvars
<1>1. CASE ProbeCurrent(t) \/ ProbeStale(t) \/ ProbeClaimed(t) \/ MatchRow(t)
  BY <1>1, TableUntouched DEF ProbeCurrent, ProbeStale, ProbeClaimed, MatchRow, shared
<1>2. CASE ClaimSlot(t) \/ FillRow(t)
  BY <1>2, PreparationInvisible
<1>3. CASE RecordEpoch(t)
  BY <1>3, RecordEpochRefines
<1>4. CASE PublishRow(t)
  BY <1>4, PublishRowRefines
<1>5. CASE EmitFull(t)
  BY <1>5, TableUntouched DEF EmitFull
<1>6. CASE LookupSlot(t) \/ LookupCompare(t) \/ LookupAbsent(t)
  BY <1>6, TableUntouched DEF LookupSlot, LookupCompare, LookupAbsent, shared
<1>7. CASE ImportToken(t)
  BY <1>7, ImportRefines
<1> QED BY <1>1, <1>2, <1>3, <1>4, <1>5, <1>6, <1>7 DEF Step, ReleaseStep, AcquireStep

\* The table implements the abstract specification: a half-filled, leftover or
\* claimed record is never visible as a release, and a token is raised only to
\* an epoch its producer released at that address (context.hpp:614-783,
\* 946-983).
THEOREM Refinement == Spec => ImplementsPromise
<1>1. Init => Promise!RInit
  <2> SUFFICES ASSUME Init
               PROVE  Promise!RInit
    OBVIOUS
  <2>1. \A s \in Slot : ~IsCurrent(s)
    BY DEF Init, ZeroRow, IsCurrent
  <2>2. PublishedReleases = {}
    BY <2>1 DEF PublishedReleases, HasRow
  <2> QED BY <2>2 DEF Init, Promise!RInit, NoTokens, Promise!NoTokens, Subgroup
<1>2. IInv /\ [Next]_vars => [Promise!RNext]_(Promise!rvars)
  <2> SUFFICES ASSUME IInv, [Next]_vars
               PROVE  Promise!RNext \/ UNCHANGED Promise!rvars
    OBVIOUS
  <2>1. CASE \E t \in Thread : Step(t)
    BY <2>1, StepRefines
  <2>2. CASE \E t \in Thread, a \in Address, e \in Epoch : BeginRelease(t, a, e)
    BY <2>2, TableUntouched DEF BeginRelease, shared
  <2>3. CASE \E t \in Thread, a \in Address, r \in AcquireRetries : BeginAcquire(t, a, r)
    BY <2>3, TableUntouched DEF BeginAcquire, shared
  <2>4. CASE Barrier
    BY <2>4, BarrierRefines DEF Promise!RNext
  <2>5. CASE Launch
    BY <2>5, LaunchRefines DEF Promise!RNext
  <2>6. CASE UNCHANGED vars
    BY <2>6, TableUntouched DEF vars
  <2> QED BY <2>1, <2>2, <2>3, <2>4, <2>5, <2>6 DEF Next
<1> QED BY <1>1, <1>2, Invariance, PTL DEF Spec, ImplementsPromise, Promise!RSpec

-------------------------------------------------------------------------------
(***************************************************************************)
(* Every call ends.  The rank of a call is a natural number because its    *)
(* attempts are counted within their budgets.                              *)
(***************************************************************************)
Budget(c) ==
  /\ c.pc \in ReleasePc => c.attempt \in 1 .. ClaimAttempts
  /\ c.pc \in AcquirePc => c.attempt \in 1 .. c.retries

Budgets == \A t \in Thread : Budget(call[t])

\* What of a release's probes, and of an acquire's searches, is left
Probes(c) == (ClaimAttempts - c.attempt) * Capacity + (Capacity - c.probe)
Searches(c) == (c.retries - c.attempt) * SubgroupCapacity + (SubgroupCapacity - c.producer)

LEMMA RankIs ==
  ASSUME NEW c
  PROVE  /\ c.pc = "idle" => Rank(c) = 0
         /\ c.pc = "probe" => Rank(c) = 2 * Probes(c) + 3
         /\ c.pc \in {"match", "claim"} => Rank(c) = 2 * Probes(c) + 2
         /\ c.pc = "fill" => Rank(c) = 3
         /\ c.pc = "record" => Rank(c) = 2
         /\ c.pc \in {"publish", "full"} => Rank(c) = 1
         /\ c.pc = "lookup" =>
              Rank(c) = Searches(c) * (2 * Capacity + 2) + (2 * (Capacity - c.probe) + 1)
         /\ c.pc = "compare" =>
              Rank(c) = Searches(c) * (2 * Capacity + 2) + 2 * (Capacity - c.probe)
         /\ c.pc \in {"absent", "import"} => Rank(c) = Searches(c) * (2 * Capacity + 2) + 0
BY DEF Rank, ReleaseRank, AcquireRank, Probes, Searches, ReleasePc

\* The numbers of a row of length y behind each other
LEMMA Rows ==
  ASSUME NEW x \in Nat, NEW y \in Nat
  PROVE  x * y \in Nat /\ (x + 1) * y = x * y + y
OBVIOUS

LEMMA ProbesLeft ==
  ASSUME NEW c \in Call, c.attempt \in 1 .. ClaimAttempts
  PROVE  /\ Probes(c) \in Nat \ {0}
         /\ c.probe + 1 < Capacity =>
              (ClaimAttempts - c.attempt) * Capacity + (Capacity - (c.probe + 1)) = Probes(c) - 1
         /\ ~(c.probe + 1 < Capacity) /\ c.attempt < ClaimAttempts =>
              (ClaimAttempts - (c.attempt + 1)) * Capacity + (Capacity - 0) = Probes(c) - 1
<1> DEFINE a == ClaimAttempts - c.attempt
           r == a * Capacity
<1>1. a \in Nat /\ Capacity \in Nat \ {0} /\ c.probe \in 0 .. Capacity - 1
  BY DEF Call, Slot
<1>2. r \in Nat
  BY <1>1, Rows
<1>3. c.attempt < ClaimAttempts => (a - 1) * Capacity = r - Capacity
      /\ ClaimAttempts - (c.attempt + 1) = a - 1
  <2>1. SUFFICES ASSUME c.attempt < ClaimAttempts
                 PROVE  (a - 1) * Capacity = r - Capacity /\ ClaimAttempts - (c.attempt + 1) = a - 1
    <3> HIDE DEF r
    <3> QED BY <1>1
  <2>2. a - 1 \in Nat /\ (a - 1) + 1 = a
    BY <2>1
  <2>3. ((a - 1) + 1) * Capacity = (a - 1) * Capacity + Capacity /\ (a - 1) * Capacity \in Nat
    BY <1>1, <2>2, Rows
  <2>4. ClaimAttempts - (c.attempt + 1) = a - 1
    BY DEF Call
  <2> QED BY <1>1, <2>2, <2>3, <2>4
<1>4. Probes(c) = r + (Capacity - c.probe)
  BY DEF Probes
<1> HIDE DEF r
<1>5. Probes(c) \in Nat \ {0}
  BY <1>1, <1>2, <1>4
<1>6. r + (Capacity - (c.probe + 1)) = Probes(c) - 1
  BY <1>1, <1>2, <1>4
<1>7. ~(c.probe + 1 < Capacity) => (r - Capacity) + (Capacity - 0) = Probes(c) - 1
  BY <1>1, <1>2, <1>4
<1> QED BY <1>3, <1>5, <1>6, <1>7 DEF r

\* One slot further costs a probe, and so does the next pass.
LEMMA NextProbeRank ==
  ASSUME NEW c \in Call, c.attempt \in 1 .. ClaimAttempts, NEW claimed \in BOOLEAN
  PROVE  LET d == NextProbe(c, claimed) IN
         /\ d.pc \in {"probe", "full"} /\ d.attempt \in 1 .. ClaimAttempts
         /\ Rank(d) \in 0 .. 2 * Probes(c) + 1
<1> DEFINE d == NextProbe(c, claimed)
<1>1. c.attempt \in Nat /\ c.probe \in Nat /\ Probes(c) \in Nat \ {0}
  BY ProbesLeft DEF Call, Slot
<1>2. CASE c.probe + 1 < Capacity
  <2>1. d.pc = "probe" /\ d.probe = c.probe + 1 /\ d.attempt = c.attempt
    BY <1>2 DEF NextProbe, Call
  <2>2. Probes(d) = Probes(c) - 1
    BY <1>2, <2>1, ProbesLeft DEF Probes
  <2>3. Rank(d) = 2 * Probes(d) + 3
    BY <2>1, RankIs
  <2> HIDE DEF d
  <2> QED BY <1>1, <2>1, <2>2, <2>3 DEF d
<1>3. CASE ~(c.probe + 1 < Capacity) /\ claimed /\ c.attempt < ClaimAttempts
  <2>1. d.pc = "probe" /\ d.probe = 0 /\ d.attempt = c.attempt + 1
    BY <1>3 DEF NextProbe, FirstProbe, Call
  <2>2. Probes(d) = Probes(c) - 1
    BY <1>3, <2>1, ProbesLeft DEF Probes
  <2>3. Rank(d) = 2 * Probes(d) + 3
    BY <2>1, RankIs
  <2> HIDE DEF d
  <2>4. d.attempt \in 1 .. ClaimAttempts
    BY <1>1, <1>3, <2>1
  <2> QED BY <1>1, <2>1, <2>2, <2>3, <2>4 DEF d
<1>4. CASE ~(c.probe + 1 < Capacity) /\ ~(claimed /\ c.attempt < ClaimAttempts)
  <2>1. d.pc = "full" /\ d.attempt = c.attempt
    BY <1>4 DEF NextProbe, Call
  <2>2. Rank(d) = 1
    BY <2>1, RankIs
  <2> HIDE DEF d
  <2> QED BY <1>1, <2>1, <2>2 DEF d
<1> QED BY <1>2, <1>3, <1>4

\* A search costs less than its share of the rank.
LEMMA SearchesLeft ==
  ASSUME NEW c \in Call, c.attempt \in 1 .. c.retries
  PROVE  /\ Searches(c) \in Nat \ {0}
         /\ \A p \in Subgroup : p > c.producer =>
              /\ (c.retries - c.attempt) * SubgroupCapacity + (SubgroupCapacity - p) \in Nat
              /\ (c.retries - c.attempt) * SubgroupCapacity + (SubgroupCapacity - p) < Searches(c)
         /\ c.attempt # c.retries => \A p \in Subgroup :
              /\ (c.retries - (c.attempt + 1)) * SubgroupCapacity + (SubgroupCapacity - p) \in Nat
              /\ (c.retries - (c.attempt + 1)) * SubgroupCapacity + (SubgroupCapacity - p)
                   < Searches(c)
<1> DEFINE S == SubgroupCapacity
           a == c.retries - c.attempt
           r == a * S
<1>1. a \in Nat /\ S \in Nat \ {0} /\ c.producer \in 0 .. S - 1 /\ c.retries \in Nat
  BY DEF Call, Subgroup
<1>2. r \in Nat
  BY <1>1, Rows
<1>3. ASSUME c.attempt # c.retries
      PROVE  (a - 1) * S = r - S /\ c.retries - (c.attempt + 1) = a - 1 /\ r - S \in Nat
  <2>1. a - 1 \in Nat /\ (a - 1) + 1 = a
    BY <1>1, <1>3
  <2>2. ((a - 1) + 1) * S = (a - 1) * S + S /\ (a - 1) * S \in Nat
    BY <1>1, <2>1, Rows
  <2>3. c.retries - (c.attempt + 1) = a - 1
    BY <1>1
  <2> QED BY <1>1, <2>1, <2>2, <2>3
<1>4. Searches(c) = r + (S - c.producer)
  BY DEF Searches
<1> HIDE DEF r
<1>5. Searches(c) \in Nat \ {0}
  BY <1>1, <1>2, <1>4
<1>6. ASSUME NEW p \in Subgroup, p > c.producer
      PROVE  r + (S - p) \in Nat /\ r + (S - p) < Searches(c)
  BY <1>1, <1>2, <1>4, <1>6 DEF Subgroup
<1>7. ASSUME NEW p \in Subgroup, c.attempt # c.retries
      PROVE  (r - S) + (S - p) \in Nat /\ (r - S) + (S - p) < Searches(c)
  BY <1>1, <1>2, <1>3, <1>4, <1>7 DEF Subgroup
<1> QED BY <1>3, <1>5, <1>6, <1>7 DEF r

\* Fewer searches, whatever their chains cost
LEMMA SearchShare ==
  ASSUME NEW x \in Nat, NEW y \in Nat, x < y, NEW k \in Nat
  PROVE  x * k \in Nat /\ y * k \in Nat /\ x * k + k <= y * k
<1> DEFINE z == y - x - 1
<1>1. z \in Nat /\ y = x + 1 + z
  OBVIOUS
<1>2. x * k \in Nat /\ y * k \in Nat /\ z * k \in Nat
  BY <1>1, Rows
<1> HIDE DEF z
<1>3. (x + 1 + z) * k = x * k + k + z * k
  BY <1>1
<1> QED BY <1>1, <1>2, <1>3

\* d is a later stage of call c.
Closer(c, d) == Budget(d) /\ Rank(d) \in 0 .. Rank(c) - 1

LEMMA ReleaseCloser ==
  ASSUME NEW c \in Call, Budget(c), NEW d
  PROVE  /\ c.pc = "probe" /\ d = [c EXCEPT !.pc = "match"] => Closer(c, d)
         /\ \A n \in Nat : c.pc = "probe" /\ d = [c EXCEPT !.pc = "claim", !.seen = n] => Closer(c, d)
         /\ c.pc = "match" /\ d = [c EXCEPT !.pc = "record"] => Closer(c, d)
         /\ c.pc = "claim" /\ d = [c EXCEPT !.pc = "fill"] => Closer(c, d)
         /\ c.pc = "fill" /\ d = [c EXCEPT !.pc = "record"] => Closer(c, d)
         /\ c.pc = "record" /\ d = [c EXCEPT !.pc = "publish"] => Closer(c, d)
         /\ c.pc \in {"publish", "full"} /\ d = Idle => Closer(c, d)
<1>1. c.pc \in ReleasePc => c.attempt \in 1 .. ClaimAttempts
  BY DEF Budget
<1>2. ASSUME c.attempt \in 1 .. ClaimAttempts, NEW n \in Nat,
             d = [c EXCEPT !.pc = "match"] \/ d = [c EXCEPT !.pc = "claim", !.seen = n]
      PROVE  c.pc = "probe" => Closer(c, d)
  <2>1. d.pc \in {"match", "claim"} /\ d.attempt = c.attempt /\ d.probe = c.probe
    BY <1>2 DEF Call
  <2>2. Probes(d) = Probes(c) /\ Probes(c) \in Nat
    BY <1>2, <2>1, ProbesLeft DEF Probes
  <2>3. Rank(d) = 2 * Probes(d) + 2 /\ c.pc = "probe" => Rank(c) = 2 * Probes(c) + 3
    BY <2>1, RankIs
  <2>4. Budget(d)
    BY <1>2, <2>1 DEF Budget, AcquirePc
  <2>5. ASSUME c.pc = "probe" PROVE Rank(d) \in 0 .. Rank(c) - 1
    <3>1. Rank(d) = 2 * Probes(c) + 2 /\ Rank(c) = 2 * Probes(c) + 3
      BY <2>1, <2>2, <2>5, RankIs
    <3> QED BY <2>2, <3>1
  <2> QED BY <2>4, <2>5 DEF Closer
<1>3. ASSUME NEW pc \in {"fill", "record", "publish"}, d = [c EXCEPT !.pc = pc],
             c.pc \in {"match", "claim", "fill", "record"},
             pc = "fill" => c.pc = "claim",
             pc = "record" => c.pc \in {"match", "fill"},
             pc = "publish" => c.pc = "record"
      PROVE  Closer(c, d)
  <2>1. d.pc = pc /\ d.attempt = c.attempt
    BY <1>3 DEF Call
  <2>2. c.attempt \in 1 .. ClaimAttempts
    BY <1>1, <1>3 DEF ReleasePc
  <2>3. Budget(d)
    BY <2>1, <2>2 DEF Budget, AcquirePc
  <2>4. Probes(c) \in Nat \ {0}
    BY <2>2, ProbesLeft
  <2>5. /\ pc = "fill" => Rank(d) = 3 /\ Rank(c) = 2 * Probes(c) + 2
        /\ pc = "record" => Rank(d) = 2 /\ (Rank(c) = 2 * Probes(c) + 2 \/ Rank(c) = 3)
        /\ pc = "publish" => Rank(d) = 1 /\ Rank(c) = 2
    BY <1>3, <2>1, RankIs
  <2>6. Rank(d) \in 0 .. Rank(c) - 1
    BY <2>4, <2>5
  <2> QED BY <2>3, <2>6 DEF Closer
<1>4. ASSUME c.pc \in {"publish", "full"}, d = Idle
      PROVE  Closer(c, d)
  <2>1. d.pc = "idle"
    BY <1>4 DEF Idle
  <2>2. Rank(d) = 0 /\ Rank(c) = 1
    BY <1>4, <2>1, RankIs
  <2> QED BY <2>1, <2>2 DEF Closer, Budget, ReleasePc, AcquirePc
<1>5. c.pc = "probe" => c.attempt \in 1 .. ClaimAttempts
  BY <1>1 DEF ReleasePc
<1> QED BY <1>2, <1>3, <1>4, <1>5

LEMMA NextProbeCloser ==
  ASSUME NEW c \in Call, Budget(c), c.pc \in {"probe", "match", "claim"},
         NEW claimed \in BOOLEAN
  PROVE  Closer(c, NextProbe(c, claimed))
<1> DEFINE d == NextProbe(c, claimed)
<1>1. c.attempt \in 1 .. ClaimAttempts
  BY DEF Budget, ReleasePc
<1>2. /\ d.pc \in {"probe", "full"} /\ d.attempt \in 1 .. ClaimAttempts
      /\ Rank(d) \in 0 .. 2 * Probes(c) + 1
  BY <1>1, NextProbeRank
<1>3. Rank(c) \in {2 * Probes(c) + 2, 2 * Probes(c) + 3} /\ Probes(c) \in Nat
  BY <1>1, RankIs, ProbesLeft
<1> HIDE DEF d
<1>4. Budget(d)
  BY <1>2 DEF Budget, AcquirePc
<1>5. Rank(d) \in 0 .. Rank(c) - 1
  BY <1>2, <1>3
<1> QED BY <1>4, <1>5 DEF Closer, d

LEMMA LookupCloser ==
  ASSUME NEW c \in Call, Budget(c), NEW d
  PROVE  /\ c.pc \in {"lookup", "compare"} /\ d = NextLookup(c) => Closer(c, d)
         /\ c.pc = "lookup" /\ d = [c EXCEPT !.pc = "absent"] => Closer(c, d)
         /\ c.pc = "lookup" /\ d = [c EXCEPT !.pc = "compare"] => Closer(c, d)
         /\ c.pc = "compare" /\ d = [c EXCEPT !.pc = "import"] => Closer(c, d)
<1> DEFINE w == Searches(c) * (2 * Capacity + 2)
           left == 2 * (Capacity - c.probe)
<1> SUFFICES ASSUME c.pc \in {"lookup", "compare"},
                    \/ d = NextLookup(c)
                    \/ c.pc = "lookup" /\ d = [c EXCEPT !.pc = "absent"]
                    \/ c.pc = "lookup" /\ d = [c EXCEPT !.pc = "compare"]
                    \/ c.pc = "compare" /\ d = [c EXCEPT !.pc = "import"]
             PROVE  Closer(c, d)
  OBVIOUS
<1>1. c.attempt \in 1 .. c.retries /\ c.probe \in 0 .. Capacity - 1
  BY DEF Budget, AcquirePc, Call, Slot
<1>2. /\ d.attempt = c.attempt /\ d.retries = c.retries /\ d.producer = c.producer
      /\ \/ d.pc = "lookup" /\ d.probe = c.probe + 1 /\ c.probe + 1 < Capacity
         \/ d.pc \in {"absent", "import"}
         \/ d.pc = "compare" /\ d.probe = c.probe /\ c.pc = "lookup"
  BY DEF NextLookup, Call
<1>3. Searches(d) = Searches(c)
  BY <1>2 DEF Searches
<1>4. w \in Nat
  <2>1. Searches(c) \in Nat /\ 2 * Capacity + 2 \in Nat
    BY <1>1, SearchesLeft
  <2> QED BY <2>1, Rows
<1>5. \/ c.pc = "lookup" /\ Rank(c) = w + (left + 1)
      \/ c.pc = "compare" /\ Rank(c) = w + left
  BY RankIs
<1>6. \/ Rank(d) = w + (2 * (Capacity - (c.probe + 1)) + 1) /\ c.probe + 1 < Capacity
      \/ Rank(d) = w + 0
      \/ Rank(d) = w + left /\ c.pc = "lookup"
  BY <1>2, <1>3, RankIs
<1> HIDE DEF w
<1>7. Rank(d) \in 0 .. Rank(c) - 1
  BY <1>1, <1>4, <1>5, <1>6
<1>8. Budget(d)
  BY <1>1, <1>2 DEF Budget, ReleasePc, AcquirePc
<1> QED BY <1>7, <1>8 DEF Closer

\* A search that comes later in its call
LEMMA SearchCloser ==
  ASSUME NEW c \in Call, Budget(c), c.pc \in {"absent", "import"}, NEW d \in Call,
         d.pc = "lookup", d.probe = 0, d.retries = c.retries,
         \/ d.attempt = c.attempt /\ d.producer > c.producer
         \/ d.attempt = c.attempt + 1 /\ c.attempt # c.retries
  PROVE  Closer(c, d)
<1> DEFINE k == 2 * Capacity + 2
<1>1. c.attempt \in 1 .. c.retries /\ c.retries \in Nat /\ k \in Nat
  BY DEF Budget, AcquirePc, Call
<1>2. d.producer \in Subgroup
  BY DEF Call
<1>3. Searches(c) \in Nat /\ Searches(d) \in Nat /\ Searches(d) < Searches(c)
  BY <1>1, <1>2, SearchesLeft DEF Searches
<1>4. Rank(c) = Searches(c) * k + 0 /\ Rank(d) = Searches(d) * k + (2 * (Capacity - 0) + 1)
  BY RankIs
<1>5. /\ Searches(d) * k \in Nat /\ Searches(c) * k \in Nat
      /\ Searches(d) * k + k <= Searches(c) * k
  BY <1>1, <1>3, SearchShare
<1>6. 2 * (Capacity - 0) + 1 = k - 1 /\ k - 1 \in Nat
  OBVIOUS
<1> HIDE DEF k
<1>7. Rank(d) \in 0 .. Rank(c) - 1
  <2> DEFINE x == Searches(d) * k
             y == Searches(c) * k
  <2>1. x \in Nat /\ y \in Nat /\ x + k <= y /\ Rank(c) = y + 0 /\ Rank(d) = x + (k - 1)
    BY <1>4, <1>5, <1>6
  <2> HIDE DEF x, y
  <2> QED BY <1>1, <1>6, <2>1
<1>8. d.attempt \in 1 .. d.retries
  BY <1>1
<1> QED BY <1>7, <1>8 DEF Closer, Budget, ReleasePc, AcquirePc

LEMMA NextProducerCloser ==
  ASSUME IInv, NEW t \in Thread, Budget(call[t]), NEW anyFound \in BOOLEAN,
         call[t].pc \in {"absent", "import"}, NextProducer(t, anyFound)
  PROVE  \E d : Set(t, d) /\ Closer(call[t], d)
<1> DEFINE c == [call[t] EXCEPT !.found = anyFound]
           next == call[t].producer + 1
           more == [c EXCEPT !.attempt = @ + 1]
<1>1. call[t] \in Call /\ call[t].address \in Address /\ call[t].producer \in Subgroup
  BY DEF IInv, TypeOK, CallFacts, Call
<1>2. /\ c \in Call /\ c.producer = call[t].producer /\ c.attempt = call[t].attempt
      /\ c.retries = call[t].retries /\ c.pc = call[t].pc
      /\ next \in Subgroup \cup {SubgroupCapacity}
  BY <1>1 DEF Call, Subgroup
<1>3. /\ more \in Call /\ more.attempt = call[t].attempt + 1
      /\ more.retries = call[t].retries
  <2>1. c.attempt + 1 \in Nat
    BY <1>2 DEF Call
  <2> QED BY <1>2, <2>1 DEF Call
<1>4. ASSUME NEW x \in Call, NEW first \in Subgroup \cup {SubgroupCapacity},
             Candidate(t, first) < SubgroupCapacity
      PROVE  LET d == Search(t, x, first) IN
             /\ d \in Call /\ d.pc = "lookup" /\ d.probe = 0 /\ d.retries = x.retries
             /\ d.attempt = x.attempt /\ d.producer = Candidate(t, first)
  <2>1. Candidate(t, first) \in Subgroup
    BY <1>4 DEF Candidate, Subgroup
  <2>2. PublishedEpochs(x.address, Candidate(t, first)) \subseteq Epoch
    BY DEF PublishedEpochs, IInv, TypeOK, Row
  <2>3. Search(t, x, first) \in Call
    BY <2>1, <2>2, CallSearch DEF Search
  <2> QED BY <2>3 DEF Search, Call, FirstProbe
<1>5. \/ Set(t, Search(t, c, next)) /\ Candidate(t, next) < SubgroupCapacity
      \/ Return(t)
      \/ Set(t, Search(t, more, 0)) /\ call[t].attempt # call[t].retries
  <2>1. c.producer + 1 = next
    BY <1>2
  <2> HIDE DEF c
  <2> QED BY <1>2, <2>1 DEF NextProducer, c
<1> HIDE DEF c, more
<1>6. CASE Set(t, Search(t, c, next)) /\ Candidate(t, next) < SubgroupCapacity
  <2> DEFINE d == Search(t, c, next)
  <2>1. /\ d \in Call /\ d.pc = "lookup" /\ d.probe = 0 /\ d.retries = call[t].retries
        /\ d.attempt = call[t].attempt /\ d.producer = Candidate(t, next)
    BY <1>2, <1>4, <1>6
  <2>2. d.producer > call[t].producer
    <3>1. Candidate(t, next) \in {next, next + 1}
      BY DEF Candidate
    <3> QED BY <1>1, <2>1, <3>1 DEF Subgroup
  <2> HIDE DEF d
  <2>3. Closer(call[t], d)
    BY <1>1, <2>1, <2>2, SearchCloser
  <2> QED BY <1>6, <2>3 DEF d
<1>7. CASE Return(t)
  <2>1. Searches(call[t]) \in Nat \ {0} /\ 2 * Capacity + 2 \in Nat \ {0}
    BY <1>1, SearchesLeft DEF Budget, AcquirePc
  <2>2. Searches(call[t]) * (2 * Capacity + 2) \in Nat \ {0}
    <3>1. ASSUME NEW x \in Nat \ {0}, NEW y \in Nat \ {0} PROVE x * y \in Nat \ {0}
      <4>1. x - 1 \in Nat /\ (x - 1) + 1 = x
        OBVIOUS
      <4>2. ((x - 1) + 1) * y = (x - 1) * y + y /\ (x - 1) * y \in Nat
        BY <4>1, Rows
      <4> QED BY <4>1, <4>2
    <3> QED BY <2>1, <3>1
  <2>3. Rank(call[t]) \in Nat \ {0}
    BY <2>2, RankIs
  <2>4. Idle.pc = "idle" /\ Rank(Idle) = 0
    BY RankIs DEF Idle
  <2>5. Closer(call[t], Idle)
    BY <2>3, <2>4 DEF Closer, Budget, ReleasePc, AcquirePc
  <2> QED BY <1>7, <2>5 DEF Return
<1>8. CASE Set(t, Search(t, more, 0)) /\ call[t].attempt # call[t].retries
  <2> DEFINE d == Search(t, more, 0)
  <2>1. 0 \in Subgroup \cup {SubgroupCapacity} /\ Candidate(t, 0) < SubgroupCapacity
    BY DEF Candidate, Subgroup
  <2>2. /\ d \in Call /\ d.pc = "lookup" /\ d.probe = 0 /\ d.retries = call[t].retries
        /\ d.attempt = call[t].attempt + 1
    BY <1>3, <1>4, <2>1
  <2> HIDE DEF d
  <2>3. Closer(call[t], d)
    BY <1>1, <1>8, <2>2, SearchCloser
  <2> QED BY <1>8, <2>3 DEF d
<1> QED BY <1>5, <1>6, <1>7, <1>8

\* Each step of a call is one of its budgeted steps.
LEMMA StepCloser ==
  ASSUME IInv, NEW t \in Thread, Budget(call[t]), Step(t)
  PROVE  \E d : Set(t, d) /\ Closer(call[t], d)
<1>1. call[t] \in Call
  BY DEF IInv, TypeOK
<1>2. CASE ProbeCurrent(t)
  BY <1>1, <1>2, ReleaseCloser DEF ProbeCurrent
<1>3. CASE ProbeClaimed(t)
  BY <1>1, <1>3, NextProbeCloser DEF ProbeClaimed
<1>4. CASE ProbeStale(t)
  <2>1. Here(t) \in Slot
    BY <1>4, HereInTable DEF ProbeStale
  <2>2. atomic_objects[Here(t)].generation \in Nat
    BY <1>4, <2>1 DEF ProbeStale, IsStale, IsClaimed, IInv, TypeOK, Row
  <2> QED BY <1>1, <1>4, <2>2, ReleaseCloser DEF ProbeStale
<1>5. CASE MatchRow(t)
  <2>1. call[t].sawClaimed \in BOOLEAN
    BY <1>1 DEF Call
  <2> QED BY <1>1, <1>5, <2>1, ReleaseCloser, NextProbeCloser DEF MatchRow
<1>6. CASE ClaimSlot(t)
  BY <1>1, <1>6, ReleaseCloser, NextProbeCloser DEF ClaimSlot
<1>7. CASE FillRow(t)
  BY <1>1, <1>7, ReleaseCloser DEF FillRow
<1>8. CASE RecordEpoch(t)
  BY <1>1, <1>8, ReleaseCloser DEF RecordEpoch
<1>9. CASE PublishRow(t)
  BY <1>1, <1>9, ReleaseCloser DEF PublishRow, Return
<1>10. CASE EmitFull(t)
  BY <1>1, <1>10, ReleaseCloser DEF EmitFull, Return
<1>11. CASE LookupSlot(t)
  BY <1>1, <1>11, LookupCloser DEF LookupSlot
<1>12. CASE LookupCompare(t)
  BY <1>1, <1>12, LookupCloser DEF LookupCompare
<1>13. CASE LookupAbsent(t)
  <2>1. call[t].found \in BOOLEAN
    BY <1>1 DEF Call
  <2> QED BY <1>13, <2>1, NextProducerCloser DEF LookupAbsent
<1>14. CASE ImportToken(t)
  BY <1>14, NextProducerCloser DEF ImportToken
<1> QED BY <1>2, <1>3, <1>4, <1>5, <1>6, <1>7, <1>8, <1>9, <1>10, <1>11, <1>12, <1>13, <1>14
        DEF Step, ReleaseStep, AcquireStep

\* A call begins with its budgets untouched.
LEMMA BeginBudget ==
  ASSUME IInv, NEW t \in Thread, NEW a \in Address,
         \/ \E e \in Epoch : BeginRelease(t, a, e)
         \/ \E r \in AcquireRetries : BeginAcquire(t, a, r)
  PROVE  \E d : call[t].pc = "idle" /\ Set(t, d) /\ Budget(d)
<1>1. CASE \E e \in Epoch : BeginRelease(t, a, e)
  <2>1. PICK e \in Epoch : BeginRelease(t, a, e)
    BY <1>1
  <2> DEFINE d == [Idle EXCEPT !.pc = "probe", !.address = a, !.producer = SubgroupOf[t],
                               !.epoch = e, !.probe = FirstProbe, !.attempt = 1]
  <2>2. d.pc = "probe" /\ d.attempt = 1
    BY DEF Idle
  <2>3. Budget(d)
    BY <2>2 DEF Budget, AcquirePc
  <2> QED BY <2>1, <2>3 DEF BeginRelease
<1>2. CASE \E r \in AcquireRetries : BeginAcquire(t, a, r)
  <2>1. PICK r \in AcquireRetries : BeginAcquire(t, a, r)
    BY <1>2
  <2> DEFINE d == Search(t, [Idle EXCEPT !.address = a, !.attempt = 1, !.retries = r], 0)
  <2>2. d.pc = "lookup" /\ d.attempt = 1 /\ d.retries = r /\ r \in Nat \ {0}
    BY DEF Search, Idle
  <2> HIDE DEF d
  <2>3. Budget(d)
    BY <2>2 DEF Budget, ReleasePc
  <2> QED BY <2>1, <2>3 DEF BeginAcquire, d
<1> QED BY <1>1, <1>2

LEMMA BudgetsInit == Init => Budgets
<1> SUFFICES ASSUME Init PROVE Budgets
  OBVIOUS
<1>1. \A t \in Thread : call[t].pc = "idle"
  BY DEF Init, Idle
<1> QED BY <1>1 DEF Budgets, Budget, ReleasePc, AcquirePc

LEMMA BudgetsStep ==
  ASSUME IInv, Budgets, [Next]_vars
  PROVE  /\ Budgets'
         /\ \A t \in Thread : call[t].pc # "idle" /\ call'[t] # call[t]
              => Rank(call'[t]) \in 0 .. Rank(call[t]) - 1
<1>1. ASSUME NEW t \in Thread, NEW d, Set(t, d), Budget(d),
             call[t].pc = "idle" \/ Closer(call[t], d)
      PROVE  /\ Budgets'
             /\ \A u \in Thread : call[u].pc # "idle" /\ call'[u] # call[u]
                  => Rank(call'[u]) \in 0 .. Rank(call[u]) - 1
  <2>1. call'[t] = d /\ \A u \in Thread \ {t} : call'[u] = call[u]
    BY <1>1 DEF Set, IInv, TypeOK
  <2>2. ASSUME NEW u \in Thread PROVE Budget(call[u])'
    <3>1. Budget(call[u])' <=> Budget(call'[u])
      BY DEF Budget
    <3> QED BY <1>1, <2>1, <3>1 DEF Budgets
  <2> QED BY <1>1, <2>1, <2>2 DEF Budgets, Closer
<1>2. ASSUME UNCHANGED call
      PROVE  /\ Budgets'
             /\ \A u \in Thread : call[u].pc # "idle" /\ call'[u] # call[u]
                  => Rank(call'[u]) \in 0 .. Rank(call[u]) - 1
  BY <1>2 DEF Budgets, Budget
<1>3. CASE \E t \in Thread, a \in Address, e \in Epoch : BeginRelease(t, a, e)
  BY <1>1, <1>3, BeginBudget
<1>4. CASE \E t \in Thread, a \in Address, r \in AcquireRetries : BeginAcquire(t, a, r)
  BY <1>1, <1>4, BeginBudget
<1>5. CASE \E t \in Thread : Step(t)
  <2>1. PICK t \in Thread : Step(t)
    BY <1>5
  <2>2. PICK d : Set(t, d) /\ Closer(call[t], d)
    BY <2>1, StepCloser DEF Budgets
  <2> QED BY <1>1, <2>2 DEF Closer
<1>6. CASE Barrier \/ Launch \/ UNCHANGED vars
  BY <1>2, <1>6 DEF Barrier, Launch, vars
<1> QED BY <1>3, <1>4, <1>5, <1>6 DEF Next

\* Every call is over after a number of its own steps that its arguments and
\* the capacity bound, whatever the other lanes do (context.hpp:630, 1003-1016).
THEOREM CallsEnd == Spec => WaitFree
<1>1. Init => IInv /\ Budgets
  BY InitInv, BudgetsInit
<1>2. IInv /\ Budgets /\ [Next]_vars => IInv' /\ Budgets'
  BY NextInv, BudgetsStep
<1>3. IInv /\ Budgets /\ [Next]_vars =>
        [\A t \in Thread : call[t].pc # "idle" /\ call'[t] # call[t]
           => Rank(call'[t]) \in 0 .. Rank(call[t]) - 1]_vars
  BY BudgetsStep
<1> QED BY <1>1, <1>2, <1>3, PTL DEF Spec, WaitFree

-------------------------------------------------------------------------------
(***************************************************************************)
(* Without lagging releases a search imports the newest epoch.  Two lanes  *)
(* may still publish two records of one key, but only in one epoch, both   *)
(* with that epoch; later releases raise the first of them, so the epochs  *)
(* of a key never rise along its chain.                                    *)
(***************************************************************************)
ChainRow(a, p, n) == HasRow(SlotAt(a, p, n), a, p)
ChainEpoch(a, p, n) == atomic_objects[SlotAt(a, p, n)].epoch

Descending ==
  \A a \in Address, p \in Subgroup : \A m \in Slot, n \in Slot :
    m < n /\ ChainRow(a, p, m) /\ ChainRow(a, p, n)
      => ChainEpoch(a, p, m) >= ChainEpoch(a, p, n)

\* Probe n is behind a release, or is the stale slot it is about to lose.
Passed(c, n) == n < c.probe \/ (n = c.probe /\ c.pc = "claim")

\* A record of its key that a release has passed was published in this epoch.
WalkNewest(t) ==
  call[t].pc \in ReleasePc =>
    /\ call[t].epoch = subgroup_epoch
    /\ call[t].pc # "full" => \A n \in Slot :
         Passed(call[t], n) /\ ChainRow(call[t].address, call[t].producer, n)
           => ChainEpoch(call[t].address, call[t].producer, n) = subgroup_epoch
    /\ call[t].pc = "publish" => atomic_objects[Here(t)].epoch = subgroup_epoch

\* The first record ahead of a search has all it is owed.
SearchNewest(t) ==
  call[t].pc \in {"lookup", "compare", "import"} =>
    /\ \A e \in call[t].owed : e <= subgroup_epoch
    /\ \A n \in Slot :
         n >= call[t].probe /\ ChainRow(call[t].address, call[t].producer, n) =>
           \/ \A e \in call[t].owed :
                ChainEpoch(call[t].address, call[t].producer, n) >= e
           \/ \E m \in Slot : /\ call[t].probe <= m /\ m < n
                              /\ ChainRow(call[t].address, call[t].producer, m)

Newest == Descending /\ \A t \in Thread : WalkNewest(t) /\ SearchNewest(t)

\* What a step of lane t changes about published records: it may publish one,
\* or raise one, with the present epoch.
Raises(t) ==
  \A s \in Slot, a \in Address, p \in Subgroup : HasRow(s, a, p)' =>
    \/ HasRow(s, a, p) /\ atomic_objects'[s].epoch = atomic_objects[s].epoch
    \/ /\ atomic_objects'[s].epoch = subgroup_epoch
       /\ call[t].pc \in {"record", "publish"} /\ s = Here(t)
       /\ a = call[t].address /\ p = call[t].producer

LEMMA SharedRaises ==
  ASSUME NEW t, UNCHANGED <<generation, atomic_objects>>
  PROVE  Raises(t)
BY DEF Raises, HasRow, RowMatches, IsCurrent

\* A release leaves the present epoch in its record.
LEMMA RecordedEpoch ==
  ASSUME IInv, NEW t \in Thread, WalkNewest(t), RecordEpoch(t)
  PROVE  /\ Here(t) \in Slot /\ call[t].pc = "record" /\ generation' = generation
         /\ atomic_objects'[Here(t)].address = call[t].address
         /\ atomic_objects'[Here(t)].producer = call[t].producer
         /\ atomic_objects'[Here(t)].epoch = subgroup_epoch
         /\ \A s \in Slot \ {Here(t)} : atomic_objects'[s] = atomic_objects[s]
<1>1. /\ Here(t) \in Slot /\ atomic_objects[Here(t)].epoch <= subgroup_epoch
      /\ call[t].epoch = subgroup_epoch /\ generation' = generation /\ call[t].pc = "record"
  BY HereInTable DEF RecordEpoch, IInv, CallFacts, WalkNewest, ReleasePc
<1>2. atomic_objects[Here(t)] \in Row /\ subgroup_epoch \in Nat
  BY <1>1 DEF IInv, TypeOK, Epoch
<1>3. /\ atomic_objects'[Here(t)] = JoinedRow(atomic_objects[Here(t)], call[t])
      /\ \A s \in Slot \ {Here(t)} : atomic_objects'[s] = atomic_objects[s]
  BY <1>1 DEF RecordEpoch, IInv, TypeOK
<1>4. /\ atomic_objects'[Here(t)].address = call[t].address
      /\ atomic_objects'[Here(t)].producer = call[t].producer
      /\ atomic_objects'[Here(t)].epoch = RaiseTo(atomic_objects[Here(t)].epoch, call[t].epoch)
  BY <1>2, <1>3 DEF JoinedRow, Row
<1>5. atomic_objects'[Here(t)].epoch = subgroup_epoch
  BY <1>1, <1>2, <1>4 DEF RaiseTo, Row, Epoch
<1> QED BY <1>1, <1>3, <1>4, <1>5

LEMMA StepRaises ==
  ASSUME IInv, NEW t \in Thread, WalkNewest(t), Step(t)
  PROVE  Raises(t) /\ Effect(t)
<1> USE DEF shared
<1>1. CASE \/ ProbeCurrent(t) \/ ProbeClaimed(t) \/ ProbeStale(t) \/ MatchRow(t)
           \/ EmitFull(t) \/ LookupSlot(t) \/ LookupCompare(t)
  <2>1. UNCHANGED <<generation, subgroup_epoch, atomic_objects>>
    BY <1>1 DEF ProbeCurrent, ProbeClaimed, ProbeStale, MatchRow, EmitFull, LookupSlot,
                LookupCompare
  <2>2. \E c : Set(t, c)
    BY <1>1 DEF ProbeCurrent, ProbeClaimed, ProbeStale, MatchRow, EmitFull, LookupSlot,
                LookupCompare, Return
  <2> QED BY <2>1, <2>2, SharedRaises, SharedEffect
<1>2. CASE LookupAbsent(t) \/ ImportToken(t)
  <2>1. UNCHANGED <<generation, subgroup_epoch, atomic_objects>>
    BY <1>2 DEF LookupAbsent, ImportToken
  <2>2. \E c : Set(t, c)
    BY <1>2 DEF LookupAbsent, ImportToken, NextProducer, Return
  <2> QED BY <2>1, <2>2, SharedRaises, SharedEffect
<1>3. CASE ClaimSlot(t)
  <2>1. \A s \in Slot : \/ atomic_objects'[s] = atomic_objects[s]
                        \/ atomic_objects'[s].generation = Claimed
    <3>1. Here(t) \in Slot /\ atomic_objects \in [Slot -> Row]
      BY <1>3, HereInTable DEF ClaimSlot, IInv, TypeOK
    <3>2. \/ atomic_objects' = atomic_objects
          \/ atomic_objects' = [atomic_objects EXCEPT ![Here(t)].generation = Claimed]
      BY <1>3 DEF ClaimSlot
    <3>3. ASSUME NEW h \in Slot,
                 atomic_objects' = [atomic_objects EXCEPT ![h].generation = Claimed]
          PROVE  \A s \in Slot : \/ atomic_objects'[s] = atomic_objects[s]
                                 \/ atomic_objects'[s].generation = Claimed
      BY <3>1, <3>3 DEF Row
    <3> QED BY <3>1, <3>2, <3>3
  <2>2. generation' = generation /\ generation # Claimed
    BY <1>3 DEF ClaimSlot, IInv, TypeOK, Claimed
  <2> QED BY <1>3, <2>1, <2>2, ClaimEffect DEF Raises, HasRow, RowMatches, IsCurrent
<1>4. CASE FillRow(t)
  <2>1. /\ Here(t) \in Slot /\ IsClaimed(Here(t))
        /\ generation' = generation /\ generation # Claimed
    <3>1. Here(t) \in Slot
      BY <1>4, HereInTable DEF FillRow
    <3>2. IsClaimed(Here(t)) /\ generation' = generation
      BY <1>4 DEF FillRow, IInv, CallFacts
    <3>3. generation # Claimed
      BY DEF IInv, TypeOK, Claimed
    <3> QED BY <3>1, <3>2, <3>3
  <2>2. atomic_objects[Here(t)] \in Row /\ atomic_objects[Here(t)].generation = Claimed
    BY <2>1 DEF IInv, TypeOK, IsClaimed
  <2>3. /\ atomic_objects'[Here(t)] = FreshRow(atomic_objects[Here(t)], call[t])
        /\ \A s \in Slot \ {Here(t)} : atomic_objects'[s] = atomic_objects[s]
    BY <1>4, <2>1 DEF FillRow, IInv, TypeOK
  <2>4. atomic_objects'[Here(t)].generation = Claimed
    BY <2>2, <2>3 DEF FreshRow, Row
  <2> QED BY <1>4, <2>1, <2>3, <2>4, FillEffect DEF Raises, HasRow, RowMatches, IsCurrent
<1>5. CASE RecordEpoch(t)
  BY <1>5, RecordedEpoch, RecordEffect DEF Raises, HasRow, RowMatches, IsCurrent
<1>6. CASE PublishRow(t)
  <2>1. /\ Here(t) \in Slot /\ RowMatches(Here(t), call[t].address, call[t].producer)
        /\ atomic_objects[Here(t)].epoch = subgroup_epoch
        /\ generation' = generation /\ call[t].pc = "publish"
    BY <1>6, HereInTable DEF PublishRow, IInv, CallFacts, WalkNewest, ReleasePc
  <2>2. atomic_objects[Here(t)] \in Row
    BY <2>1 DEF IInv, TypeOK
  <2>3. /\ atomic_objects'[Here(t)] = [atomic_objects[Here(t)] EXCEPT !.generation = generation]
        /\ \A s \in Slot \ {Here(t)} : atomic_objects'[s] = atomic_objects[s]
    BY <1>6, <2>1 DEF PublishRow, IInv, TypeOK
  <2>4. /\ atomic_objects'[Here(t)].address = call[t].address
        /\ atomic_objects'[Here(t)].producer = call[t].producer
        /\ atomic_objects'[Here(t)].epoch = subgroup_epoch
    BY <2>1, <2>2, <2>3 DEF RowMatches, Row
  <2> QED BY <1>6, <2>1, <2>3, <2>4, PublishEffect DEF Raises, HasRow, RowMatches, IsCurrent
<1> QED BY <1>1, <1>2, <1>3, <1>4, <1>5, <1>6 DEF Step, ReleaseStep, AcquireStep

\* The epochs of a chain do not rise by what one lane publishes or raises.
LEMMA DescendingKept ==
  ASSUME IInv, Descending, NEW t \in Thread, WalkNewest(t), Raises(t)
  PROVE  Descending'
<1> SUFFICES ASSUME NEW a \in Address, NEW p \in Subgroup, NEW m \in Slot, NEW n \in Slot,
                    m < n, ChainRow(a, p, m)', ChainRow(a, p, n)'
             PROVE  ChainEpoch(a, p, m)' >= ChainEpoch(a, p, n)'
  BY DEF Descending
<1> DEFINE x == SlotAt(a, p, m)
           y == SlotAt(a, p, n)
<1>1. x \in Slot /\ y \in Slot /\ HasRow(x, a, p)' /\ HasRow(y, a, p)'
  BY SlotAtInTable DEF ChainRow
<1>2. subgroup_epoch \in Nat /\ \A s \in Slot : atomic_objects[s].epoch \in Nat
  BY DEF IInv, TypeOK, Row, Epoch
<1>3. \A s \in Slot : HasRow(s, a, p) => atomic_objects[s].epoch <= subgroup_epoch
  BY DEF IInv, RowsValid, HasRow
<1>4. HasRow(x, a, p) /\ HasRow(y, a, p) => atomic_objects[x].epoch >= atomic_objects[y].epoch
  BY DEF Descending, ChainRow, ChainEpoch
<1>5. ASSUME call[t].pc \in {"record", "publish"}, y = Here(t),
             a = call[t].address, p = call[t].producer, HasRow(x, a, p)
      PROVE  atomic_objects[x].epoch = subgroup_epoch
  <2>1. call[t].probe \in Slot
    BY DEF IInv, TypeOK, Call
  <2>2. n = call[t].probe
    BY <1>5, <2>1, ProbesDiffer DEF Here
  <2>3. ChainRow(call[t].address, call[t].producer, m) /\ m < call[t].probe
    BY <1>5, <2>2 DEF ChainRow
  <2>4. ChainEpoch(call[t].address, call[t].producer, m) = subgroup_epoch
    BY <1>5, <2>3 DEF WalkNewest, ReleasePc, Passed
  <2> QED BY <1>5, <2>4 DEF ChainEpoch
<1> HIDE DEF x, y
<1>6. \/ HasRow(x, a, p) /\ atomic_objects'[x].epoch = atomic_objects[x].epoch
      \/ atomic_objects'[x].epoch = subgroup_epoch
  BY <1>1 DEF Raises
<1>7. \/ HasRow(y, a, p) /\ atomic_objects'[y].epoch = atomic_objects[y].epoch
      \/ /\ atomic_objects'[y].epoch = subgroup_epoch
         /\ call[t].pc \in {"record", "publish"} /\ y = Here(t)
         /\ a = call[t].address /\ p = call[t].producer
  BY <1>1 DEF Raises
<1>8. atomic_objects'[x].epoch >= atomic_objects'[y].epoch
  BY <1>1, <1>2, <1>3, <1>4, <1>5, <1>6, <1>7
<1> QED BY <1>8 DEF ChainEpoch, x, y

\* A published record stays one.
LEMMA RowsStay ==
  ASSUME NEW t \in Thread, Effect(t), NEW s \in Slot, NEW a, NEW p, HasRow(s, a, p)
  PROVE  HasRow(s, a, p)'
BY DEF Effect, HasRow, RowMatches

LEMMA OthersNewest ==
  ASSUME IInv, NEW t \in Thread, Raises(t), Effect(t), NEW u \in Thread, u # t,
         WalkNewest(u), SearchNewest(u)
  PROVE  WalkNewest(u)' /\ SearchNewest(u)'
<1>0. PICK a, p, h : a = call[u].address /\ p = call[u].producer /\ h = Here(u)
  OBVIOUS
<1>1. call'[u] = call[u] /\ subgroup_epoch' = subgroup_epoch /\ Here(u)' = h
  BY <1>0 DEF Effect, Here
<1>2. call[u].pc # "idle" => a \in Address /\ p \in Subgroup
  BY <1>0 DEF IInv, CallFacts, TypeOK, Call
<1>3. subgroup_epoch \in Nat /\ \A s \in Slot : atomic_objects[s].epoch \in Nat
  BY DEF IInv, TypeOK, Row, Epoch
<1>4. ASSUME call[u].pc # "idle", NEW n \in Slot
      PROVE  /\ ChainRow(a, p, n) => ChainRow(a, p, n)'
             /\ ChainRow(a, p, n)' =>
                  \/ ChainRow(a, p, n) /\ ChainEpoch(a, p, n)' = ChainEpoch(a, p, n)
                  \/ ChainEpoch(a, p, n)' = subgroup_epoch
  <2>1. SlotAt(a, p, n) \in Slot
    BY <1>2, <1>4, SlotAtInTable
  <2>2. /\ ChainRow(a, p, n) <=> HasRow(SlotAt(a, p, n), a, p)
        /\ ChainRow(a, p, n)' <=> HasRow(SlotAt(a, p, n), a, p)'
    BY <1>1 DEF ChainRow
  <2>3. ChainRow(a, p, n) => ChainRow(a, p, n)'
    BY <2>1, <2>2, RowsStay
  <2>4. /\ ChainEpoch(a, p, n) = atomic_objects[SlotAt(a, p, n)].epoch
        /\ ChainEpoch(a, p, n)' = atomic_objects'[SlotAt(a, p, n)].epoch
    BY <1>1 DEF ChainEpoch
  <2> QED BY <1>2, <1>4, <2>1, <2>2, <2>3, <2>4 DEF Raises
<1>5. WalkNewest(u)'
  <2>1. SUFFICES ASSUME call[u].pc \in ReleasePc PROVE WalkNewest(u)'
    BY <1>1 DEF WalkNewest
  <2>2. call[u].pc # "idle"
    BY <2>1 DEF ReleasePc
  <2>3. ASSUME call[u].pc # "full", NEW n \in Slot,
               Passed(call[u], n), ChainRow(a, p, n)'
        PROVE  ChainEpoch(a, p, n)' = subgroup_epoch
    BY <1>0, <1>4, <2>1, <2>2, <2>3 DEF WalkNewest
  <2>4. ASSUME call[u].pc = "publish"
        PROVE  atomic_objects'[h].epoch = subgroup_epoch
    <3>1. /\ h \in Slot /\ ~IsStale(h) /\ RowMatches(h, a, p)
          /\ Holds(u, h) /\ atomic_objects[h].epoch = subgroup_epoch
      BY <1>0, <2>1, <2>4, HereInTable DEF IInv, CallFacts, WalkNewest, Holds
    <3>2. CASE IsCurrent(h)
      <4>1. HasRow(h, a, p)
        BY <3>1, <3>2 DEF HasRow
      <4>2. HasRow(h, a, p)'
        BY <3>1, <4>1, RowsStay
      <4> QED BY <1>2, <2>2, <3>1, <4>2 DEF Raises
    <3>3. CASE IsClaimed(h)
      <4>1. ~Holds(t, h)
        BY <3>1, <3>3 DEF IInv, ClaimsOwned
      <4> QED BY <3>1, <3>3, <4>1 DEF Effect
    <3> QED BY <3>1, <3>2, <3>3 DEF IsStale
  <2>5. call[u].epoch = subgroup_epoch
    BY <2>1 DEF WalkNewest
  <2> QED BY <1>0, <1>1, <2>3, <2>4, <2>5 DEF WalkNewest, Passed
<1>6. SearchNewest(u)'
  <2>1. SUFFICES ASSUME call[u].pc \in {"lookup", "compare", "import"} PROVE SearchNewest(u)'
    BY <1>1 DEF SearchNewest
  <2>2. call[u].pc # "idle" /\ \A e \in call[u].owed : e <= subgroup_epoch
    BY <2>1 DEF SearchNewest
  <2>3. ASSUME NEW n \in Slot, n >= call[u].probe, ChainRow(a, p, n)'
        PROVE  \/ \A e \in call[u].owed : ChainEpoch(a, p, n)' >= e
               \/ \E m \in Slot : call[u].probe <= m /\ m < n /\ ChainRow(a, p, m)'
    <3>1. CASE ChainRow(a, p, n) /\ ChainEpoch(a, p, n)' = ChainEpoch(a, p, n)
      <4>1. \/ \A e \in call[u].owed : ChainEpoch(a, p, n) >= e
            \/ \E m \in Slot : call[u].probe <= m /\ m < n /\ ChainRow(a, p, m)
        BY <1>0, <2>1, <2>3, <3>1 DEF SearchNewest
      <4> QED BY <1>4, <2>2, <3>1, <4>1
    <3>2. CASE ChainEpoch(a, p, n)' = subgroup_epoch
      <4>1. \A e \in call[u].owed : e \in Nat
        BY DEF IInv, TypeOK, Call, Epoch
      <4> QED BY <1>3, <2>2, <3>2, <4>1
    <3> QED BY <1>4, <2>2, <2>3, <3>1, <3>2
  <2> QED BY <1>0, <1>1, <2>2, <2>3 DEF SearchNewest
<1> QED BY <1>5, <1>6

LEMMA OwnCall ==
  ASSUME IInv, NEW t \in Thread, NEW d, Set(t, d)
  PROVE  call'[t] = d
BY DEF Set, IInv, TypeOK

LEMMA IdleNewest ==
  ASSUME IInv, NEW t \in Thread, Return(t)
  PROVE  WalkNewest(t)' /\ SearchNewest(t)'
<1>1. call'[t].pc = "idle"
  BY OwnCall DEF Return, Idle
<1> QED BY <1>1 DEF WalkNewest, SearchNewest, ReleasePc

\* A release that goes on: what it passes is not a record of its key, or is one
\* it knew of.
LEMMA WalkOn ==
  ASSUME IInv, NEW t \in Thread, NEW d, Set(t, d), Raises(t), Effect(t),
         WalkNewest(t), call[t].pc \in ReleasePc, d.pc \in ReleasePc,
         d.address = call[t].address, d.producer = call[t].producer, d.epoch = call[t].epoch,
         d.pc # "full" => call[t].pc # "full" /\ \A n \in Slot :
            Passed(d, n) /\ ChainRow(d.address, d.producer, n) => Passed(call[t], n),
         d.pc = "publish" => /\ d.probe = call[t].probe
                             /\ atomic_objects'[Here(t)].epoch = subgroup_epoch
  PROVE  WalkNewest(t)' /\ SearchNewest(t)'
<1>0. PICK a, p : a = call[t].address /\ p = call[t].producer
  OBVIOUS
<1>1. call'[t] = d /\ subgroup_epoch' = subgroup_epoch
  BY OwnCall DEF Effect
<1>2. a \in Address /\ p \in Subgroup
  BY <1>0 DEF IInv, CallFacts, TypeOK, Call, ReleasePc
<1>3. ASSUME d.pc # "full", NEW n \in Slot, Passed(d, n), ChainRow(a, p, n)'
      PROVE  ChainEpoch(a, p, n)' = subgroup_epoch
  <2>1. SlotAt(a, p, n) \in Slot
    BY <1>2, SlotAtInTable
  <2>2. \/ ChainRow(a, p, n) /\ ChainEpoch(a, p, n)' = ChainEpoch(a, p, n)
        \/ ChainEpoch(a, p, n)' = subgroup_epoch
    BY <1>2, <1>3, <2>1 DEF Raises, ChainRow, ChainEpoch
  <2>3. ChainRow(a, p, n) => ChainEpoch(a, p, n) = subgroup_epoch
    BY <1>0, <1>3 DEF WalkNewest
  <2> QED BY <2>2, <2>3
<1>4. d.pc = "publish" => atomic_objects'[SlotAt(a, p, d.probe)].epoch = subgroup_epoch
  BY <1>0 DEF Here
<1>5. d.epoch = subgroup_epoch
  BY DEF WalkNewest
<1>6. WalkNewest(t)'
  BY <1>0, <1>1, <1>3, <1>4, <1>5 DEF WalkNewest, Passed, Here
<1> QED BY <1>1, <1>6 DEF SearchNewest, ReleasePc

\* A search that goes on: what it passes is not a record of its key.
LEMMA SearchOn ==
  ASSUME IInv, NEW t \in Thread, NEW d, Set(t, d),
         UNCHANGED <<generation, subgroup_epoch, atomic_objects>>,
         SearchNewest(t), call[t].pc \in {"lookup", "compare"}, d.pc \in AcquirePc,
         d.address = call[t].address, d.producer = call[t].producer, d.owed = call[t].owed,
         d.pc # "absent" => d.probe \in Slot /\ d.probe >= call[t].probe /\ \A n \in Slot :
            call[t].probe <= n /\ n < d.probe => ~ChainRow(call[t].address, call[t].producer, n)
  PROVE  WalkNewest(t)' /\ SearchNewest(t)'
<1>0. PICK a, p, k : a = call[t].address /\ p = call[t].producer /\ k = call[t].probe
  OBVIOUS
<1>1. call'[t] = d
  BY OwnCall
<1>2. \A n \in Slot : /\ ChainRow(a, p, n)' <=> ChainRow(a, p, n)
                      /\ ChainEpoch(a, p, n)' = ChainEpoch(a, p, n)
  BY DEF ChainRow, ChainEpoch, HasRow, RowMatches, IsCurrent
<1>3. ASSUME d.pc \in {"lookup", "compare", "import"}
      PROVE  \A n \in Slot : n >= d.probe /\ ChainRow(a, p, n) =>
               \/ \A e \in d.owed : ChainEpoch(a, p, n) >= e
               \/ \E m \in Slot : d.probe <= m /\ m < n /\ ChainRow(a, p, m)
  <2>1. SUFFICES ASSUME NEW n \in Slot, n >= d.probe, ChainRow(a, p, n),
                        ~ \A e \in d.owed : ChainEpoch(a, p, n) >= e
                 PROVE  \E m \in Slot : d.probe <= m /\ m < n /\ ChainRow(a, p, m)
    OBVIOUS
  <2>2. k \in Nat /\ d.probe \in Nat /\ d.probe >= k
    BY <1>0, <1>3 DEF IInv, TypeOK, Call, Slot
  <2>3. PICK m \in Slot : k <= m /\ m < n /\ ChainRow(a, p, m)
    <3>1. n >= k
      BY <2>1, <2>2 DEF Slot
    <3> QED BY <1>0, <2>1, <3>1 DEF SearchNewest
  <2>4. d.probe <= m
    BY <1>0, <1>3, <2>2, <2>3 DEF Slot
  <2> QED BY <2>3, <2>4
<1>4. d.pc # "idle" /\ d.pc \notin ReleasePc /\ \A e \in d.owed : e <= subgroup_epoch
  BY DEF AcquirePc, ReleasePc, SearchNewest
<1>5. WalkNewest(t)'
  BY <1>1, <1>4 DEF WalkNewest
<1>6. SearchNewest(t)'
  BY <1>0, <1>1, <1>2, <1>3, <1>4 DEF SearchNewest
<1> QED BY <1>5, <1>6

\* A search that begins: the first record of the key has its newest epoch.
LEMMA SearchBegins ==
  ASSUME IInv, Descending, NEW t \in Thread, NEW c \in Call,
         NEW first \in Subgroup \cup {SubgroupCapacity},
         c.address \in Address, Candidate(t, first) < SubgroupCapacity,
         Set(t, Search(t, c, first)),
         UNCHANGED <<generation, subgroup_epoch, atomic_objects>>
  PROVE  WalkNewest(t)' /\ SearchNewest(t)'
<1> DEFINE d == Search(t, c, first)
<1>0. PICK a, p : a = c.address /\ p = Candidate(t, first)
  OBVIOUS
<1>1. call'[t] = d /\ a \in Address /\ p \in Subgroup
  BY <1>0, OwnCall DEF Candidate, Subgroup
<1>2. /\ d.pc = "lookup" /\ d.address = a /\ d.producer = p /\ d.probe = 0
      /\ d.owed = PublishedEpochs(a, p)
  <2>1. PublishedEpochs(a, p) \subseteq Epoch
    BY DEF PublishedEpochs, IInv, TypeOK, Row
  <2>2. d \in Call
    BY <1>0, <1>1, <2>1, CallSearch DEF Search
  <2> QED BY <1>0, <2>2 DEF Search, Call, FirstProbe
<1> HIDE DEF d
<1>3. \A n \in Slot : /\ ChainRow(a, p, n)' <=> ChainRow(a, p, n)
                      /\ ChainEpoch(a, p, n)' = ChainEpoch(a, p, n)
  BY DEF ChainRow, ChainEpoch, HasRow, RowMatches, IsCurrent
<1>4. \A e \in d.owed : e <= subgroup_epoch
  BY <1>2 DEF PublishedEpochs, HasRow, IInv, RowsValid
<1>5. ASSUME NEW n \in Slot, ChainRow(a, p, n), NEW e \in d.owed, ~(ChainEpoch(a, p, n) >= e)
      PROVE  \E m \in Slot : 0 <= m /\ m < n /\ ChainRow(a, p, m)
  <2>1. PICK s \in Slot : HasRow(s, a, p) /\ e = atomic_objects[s].epoch
    BY <1>2 DEF PublishedEpochs
  <2>2. PICK m \in Slot : SlotAt(a, p, m) = s
    BY <1>1, ProbesCoverTable
  <2>3. ChainRow(a, p, m) /\ ChainEpoch(a, p, m) = e
    BY <2>1, <2>2 DEF ChainRow, ChainEpoch
  <2>4. e \in Nat /\ ChainEpoch(a, p, n) \in Nat
    BY <1>1, <2>1, SlotAtInTable DEF ChainEpoch, IInv, TypeOK, Row, Epoch
  <2>5. ~(n < m)
    BY <1>1, <1>5, <2>3 DEF Descending
  <2>6. n # m
    BY <1>5, <2>3, <2>4
  <2>7. 0 <= m /\ m < n
    BY <2>5, <2>6 DEF Slot
  <2> QED BY <2>3, <2>7
<1>6. WalkNewest(t)'
  BY <1>1, <1>2 DEF WalkNewest, ReleasePc
<1>7. SearchNewest(t)'
  BY <1>1, <1>2, <1>3, <1>4, <1>5 DEF SearchNewest
<1> QED BY <1>6, <1>7

\* Going on to the next slot of the chain, or to the next pass over it
LEMMA NextProbeNewest ==
  ASSUME IInv, NEW t \in Thread, NEW claimed \in BOOLEAN, WalkNewest(t),
         call[t].pc \in {"probe", "match", "claim"}, Set(t, NextProbe(call[t], claimed)),
         Raises(t), Effect(t),
         call[t].pc = "claim" \/ ~HasRow(Here(t), call[t].address, call[t].producer)
  PROVE  WalkNewest(t)' /\ SearchNewest(t)'
<1> DEFINE d == NextProbe(call[t], claimed)
<1>1. /\ d.address = call[t].address /\ d.producer = call[t].producer
      /\ d.epoch = call[t].epoch /\ d.pc \in {"probe", "full"}
      /\ d.pc = "probe" => d.probe = 0 \/ d.probe = call[t].probe + 1
      /\ call[t].probe \in Nat
  BY DEF NextProbe, IInv, TypeOK, Call, FirstProbe, Slot
<1>2. ~ChainRow(call[t].address, call[t].producer, call[t].probe) \/ call[t].pc = "claim"
  BY DEF ChainRow, Here
<1> HIDE DEF d
<1>3. ASSUME d.pc # "full", NEW n \in Slot, Passed(d, n), ChainRow(d.address, d.producer, n)
      PROVE  Passed(call[t], n)
  <2>1. d.pc = "probe" /\ n < d.probe
    BY <1>1, <1>3 DEF Passed
  <2>2. n < call[t].probe \/ n = call[t].probe
    BY <1>1, <2>1 DEF Slot
  <2> QED BY <1>1, <1>2, <1>3, <2>2 DEF Passed
<1>4. call[t].pc \in ReleasePc /\ d.pc \in ReleasePc /\ d.pc # "publish" /\ call[t].pc # "full"
  BY <1>1 DEF ReleasePc
<1>5. Set(t, d)
  BY DEF d
<1> QED BY <1>1, <1>3, <1>4, <1>5, WalkOn

\* The other steps of a release keep their place in the chain.
LEMMA StayNewest ==
  ASSUME IInv, NEW t \in Thread, NEW d, Set(t, d), Raises(t), Effect(t),
         WalkNewest(t), call[t].pc \in ReleasePc \ {"full", "claim"} \/ d.pc = "fill",
         call[t].pc \in ReleasePc \ {"full"},
         d.pc \in ReleasePc \ {"full"},
         d.address = call[t].address, d.producer = call[t].producer, d.epoch = call[t].epoch,
         d.probe = call[t].probe,
         d.pc = "claim" => ~HasRow(Here(t), call[t].address, call[t].producer),
         d.pc = "publish" => atomic_objects'[Here(t)].epoch = subgroup_epoch
  PROVE  WalkNewest(t)' /\ SearchNewest(t)'
<1>1. ASSUME NEW n \in Slot, Passed(d, n), ChainRow(d.address, d.producer, n)
      PROVE  Passed(call[t], n)
  <2>1. d.pc = "claim" => n # d.probe
    BY <1>1 DEF ChainRow, Here
  <2> QED BY <1>1, <2>1 DEF Passed
<1> QED BY <1>1, WalkOn

LEMMA NextProducerNewest ==
  ASSUME IInv, Descending, NEW t \in Thread, NEW anyFound \in BOOLEAN,
         call[t].pc \in {"absent", "import"}, NextProducer(t, anyFound),
         UNCHANGED <<generation, subgroup_epoch, atomic_objects>>
  PROVE  WalkNewest(t)' /\ SearchNewest(t)'
<1> DEFINE c == [call[t] EXCEPT !.found = anyFound]
           next == call[t].producer + 1
           more == [c EXCEPT !.attempt = @ + 1]
<1>1. call[t] \in Call /\ call[t].address \in Address /\ call[t].producer \in Subgroup
  BY DEF IInv, TypeOK, CallFacts, Call
<1>2. /\ c \in Call /\ c.address = call[t].address /\ c.producer = call[t].producer
      /\ next \in Subgroup \cup {SubgroupCapacity}
  BY <1>1 DEF Call, Subgroup
<1>3. more \in Call /\ more.address = call[t].address
  <2>1. c.attempt + 1 \in Nat
    BY <1>2 DEF Call
  <2> QED BY <1>2, <2>1 DEF Call
<1>4. 0 \in Subgroup \cup {SubgroupCapacity} /\ Candidate(t, 0) < SubgroupCapacity
  BY DEF Candidate, Subgroup
<1>5. \/ Set(t, Search(t, c, next)) /\ Candidate(t, next) < SubgroupCapacity
      \/ Return(t)
      \/ Set(t, Search(t, more, 0))
  <2>1. c.producer + 1 = next
    BY <1>2
  <2> HIDE DEF c
  <2> QED BY <2>1 DEF NextProducer, c
<1> HIDE DEF c, more
<1>6. CASE Set(t, Search(t, c, next)) /\ Candidate(t, next) < SubgroupCapacity
  BY <1>1, <1>2, <1>6, SearchBegins
<1>7. CASE Return(t)
  BY <1>7, IdleNewest
<1>8. CASE Set(t, Search(t, more, 0))
  BY <1>1, <1>3, <1>4, <1>8, SearchBegins
<1> QED BY <1>5, <1>6, <1>7, <1>8

\* A slot that is claimed or bears another key is no record of the search's.
LEMMA LookupNewest ==
  ASSUME IInv, NEW t \in Thread, SearchNewest(t),
         UNCHANGED <<generation, subgroup_epoch, atomic_objects>>,
         NEW d, Set(t, d), call[t].pc \in {"lookup", "compare"},
         \/ d = NextLookup(call[t]) /\ ~HasRow(Here(t), call[t].address, call[t].producer)
         \/ \E pc \in {"absent", "compare", "import"} : d = [call[t] EXCEPT !.pc = pc]
  PROVE  WalkNewest(t)' /\ SearchNewest(t)'
<1>1. call[t] \in Call /\ call[t].probe \in Slot
  BY DEF IInv, TypeOK, Call
<1>2. CASE d = NextLookup(call[t]) /\ ~HasRow(Here(t), call[t].address, call[t].producer)
  <2>1. /\ d.address = call[t].address /\ d.producer = call[t].producer
        /\ d.owed = call[t].owed /\ d.pc \in {"lookup", "absent"}
        /\ d.pc = "lookup" => d.probe = call[t].probe + 1 /\ call[t].probe + 1 < Capacity
    BY <1>1, <1>2 DEF NextLookup, Call
  <2>2. ~ChainRow(call[t].address, call[t].producer, call[t].probe)
    BY <1>2 DEF ChainRow, Here
  <2>3. d.pc # "absent" => /\ d.probe \in Slot /\ d.probe >= call[t].probe
                           /\ \A n \in Slot : call[t].probe <= n /\ n < d.probe
                                => n = call[t].probe
    BY <1>1, <2>1 DEF Slot
  <2>4. d.pc \in AcquirePc
    BY <2>1 DEF AcquirePc
  <2> QED BY <2>1, <2>2, <2>3, <2>4, SearchOn
<1>3. CASE \E pc \in {"absent", "compare", "import"} : d = [call[t] EXCEPT !.pc = pc]
  <2>1. /\ d.address = call[t].address /\ d.producer = call[t].producer
        /\ d.owed = call[t].owed /\ d.pc \in AcquirePc /\ d.probe = call[t].probe
    BY <1>1, <1>3 DEF Call, AcquirePc
  <2>2. /\ d.probe \in Slot /\ d.probe >= call[t].probe
        /\ \A n \in Slot : ~(call[t].probe <= n /\ n < d.probe)
    BY <1>1, <2>1 DEF Slot
  <2> QED BY <2>1, <2>2, SearchOn
<1> QED BY <1>2, <1>3

LEMMA OwnNewest ==
  ASSUME IInv, Newest, NEW t \in Thread, Step(t)
  PROVE  WalkNewest(t)' /\ SearchNewest(t)'
<1> USE DEF shared
<1>0. /\ WalkNewest(t) /\ SearchNewest(t) /\ Descending /\ Raises(t) /\ Effect(t)
      /\ call[t] \in Call /\ CallFacts(t)
  BY StepRaises DEF Newest, IInv, TypeOK
<1> DEFINE rowHere == HasRow(Here(t), call[t].address, call[t].producer)
<1>1. CASE ProbeCurrent(t)
  <2> DEFINE d == [call[t] EXCEPT !.pc = "match"]
  <2>1. /\ Set(t, d) /\ call[t].pc = "probe" /\ d.pc = "match"
        /\ d.address = call[t].address /\ d.producer = call[t].producer
        /\ d.epoch = call[t].epoch /\ d.probe = call[t].probe
    BY <1>0, <1>1 DEF ProbeCurrent, Call
  <2> HIDE DEF d
  <2> QED BY <1>0, <2>1, StayNewest DEF ReleasePc
<1>2. CASE ProbeClaimed(t)
  <2>1. ~rowHere
    BY <1>2 DEF ProbeClaimed, HasRow, IsCurrent, IsClaimed, Claimed, IInv, TypeOK
  <2> QED BY <1>0, <1>2, <2>1, NextProbeNewest DEF ProbeClaimed
<1>3. CASE ProbeStale(t)
  <2> DEFINE d == [call[t] EXCEPT !.pc = "claim", !.seen = atomic_objects[Here(t)].generation]
  <2>1. /\ Set(t, d) /\ call[t].pc = "probe" /\ d.pc = "claim"
        /\ d.address = call[t].address /\ d.producer = call[t].producer
        /\ d.epoch = call[t].epoch /\ d.probe = call[t].probe
    BY <1>0, <1>3 DEF ProbeStale, Call
  <2>2. ~rowHere
    BY <1>3 DEF ProbeStale, HasRow, IsStale
  <2> HIDE DEF d
  <2> QED BY <1>0, <2>1, <2>2, StayNewest DEF ReleasePc
<1>4. CASE MatchRow(t)
  <2>1. CASE RowMatches(Here(t), call[t].address, call[t].producer)
    <3> DEFINE d == [call[t] EXCEPT !.pc = "record"]
    <3>1. /\ Set(t, d) /\ call[t].pc = "match" /\ d.pc = "record"
          /\ d.address = call[t].address /\ d.producer = call[t].producer
          /\ d.epoch = call[t].epoch /\ d.probe = call[t].probe
      BY <1>0, <1>4, <2>1 DEF MatchRow, Call
    <3> HIDE DEF d
    <3> QED BY <1>0, <3>1, StayNewest DEF ReleasePc
  <2>2. CASE ~RowMatches(Here(t), call[t].address, call[t].producer)
    <3>1. ~rowHere /\ call[t].sawClaimed \in BOOLEAN
      BY <1>0, <2>2 DEF HasRow, Call
    <3> QED BY <1>0, <1>4, <2>2, <3>1, NextProbeNewest DEF MatchRow
  <2> QED BY <2>1, <2>2
<1>5. CASE ClaimSlot(t)
  <2>1. CASE MayClaim(t)
    <3> DEFINE d == [call[t] EXCEPT !.pc = "fill"]
    <3>1. /\ Set(t, d) /\ call[t].pc = "claim" /\ d.pc = "fill"
          /\ d.address = call[t].address /\ d.producer = call[t].producer
          /\ d.epoch = call[t].epoch /\ d.probe = call[t].probe
      BY <1>0, <1>5, <2>1 DEF ClaimSlot, Call
    <3> HIDE DEF d
    <3> QED BY <1>0, <3>1, StayNewest DEF ReleasePc
  <2>2. CASE ~MayClaim(t)
    BY <1>0, <1>5, <2>2, NextProbeNewest DEF ClaimSlot
  <2> QED BY <2>1, <2>2
<1>6. CASE FillRow(t)
  <2> DEFINE d == [call[t] EXCEPT !.pc = "record"]
  <2>1. /\ Set(t, d) /\ call[t].pc = "fill" /\ d.pc = "record"
        /\ d.address = call[t].address /\ d.producer = call[t].producer
        /\ d.epoch = call[t].epoch /\ d.probe = call[t].probe
    BY <1>0, <1>6 DEF FillRow, Call
  <2> HIDE DEF d
  <2> QED BY <1>0, <2>1, StayNewest DEF ReleasePc
<1>7. CASE RecordEpoch(t)
  <2> DEFINE d == [call[t] EXCEPT !.pc = "publish"]
  <2>1. /\ Set(t, d) /\ call[t].pc = "record" /\ d.pc = "publish"
        /\ d.address = call[t].address /\ d.producer = call[t].producer
        /\ d.epoch = call[t].epoch /\ d.probe = call[t].probe
    BY <1>0, <1>7 DEF RecordEpoch, Call
  <2>2. atomic_objects'[Here(t)].epoch = subgroup_epoch
    BY <1>0, <1>7, RecordedEpoch
  <2> HIDE DEF d
  <2> QED BY <1>0, <2>1, <2>2, StayNewest DEF ReleasePc
<1>8. CASE PublishRow(t) \/ EmitFull(t)
  BY <1>8, IdleNewest DEF PublishRow, EmitFull
<1>9. CASE LookupSlot(t)
  <2>1. LookupPasses(Here(t)) => ~rowHere
    BY DEF LookupPasses, HasRow, IsCurrent, IsClaimed, Claimed, IInv, TypeOK
  <2>2. \E d : /\ Set(t, d) /\ call[t].pc = "lookup"
               /\ \/ d = NextLookup(call[t]) /\ ~rowHere
                  \/ \E pc \in {"absent", "compare", "import"} : d = [call[t] EXCEPT !.pc = pc]
    BY <1>9, <2>1 DEF LookupSlot
  <2>3. UNCHANGED <<generation, subgroup_epoch, atomic_objects>>
    BY <1>9 DEF LookupSlot
  <2> QED BY <1>0, <2>2, <2>3, LookupNewest
<1>10. CASE LookupCompare(t)
  <2>1. ~RowMatches(Here(t), call[t].address, call[t].producer) => ~rowHere
    BY DEF HasRow
  <2>2. \E d : /\ Set(t, d) /\ call[t].pc = "compare"
               /\ \/ d = NextLookup(call[t]) /\ ~rowHere
                  \/ \E pc \in {"absent", "compare", "import"} : d = [call[t] EXCEPT !.pc = pc]
    BY <1>10, <2>1 DEF LookupCompare
  <2>3. UNCHANGED <<generation, subgroup_epoch, atomic_objects>>
    BY <1>10 DEF LookupCompare
  <2> QED BY <1>0, <2>2, <2>3, LookupNewest
<1>11. CASE LookupAbsent(t)
  <2>1. call[t].found \in BOOLEAN
    BY <1>0 DEF Call
  <2> QED BY <1>0, <1>11, <2>1, NextProducerNewest DEF LookupAbsent
<1>12. CASE ImportToken(t)
  BY <1>0, <1>12, NextProducerNewest DEF ImportToken
<1> QED BY <1>1, <1>2, <1>3, <1>4, <1>5, <1>6, <1>7, <1>8, <1>9, <1>10, <1>11, <1>12
        DEF Step, ReleaseStep, AcquireStep

LEMMA NewestInit == Init => Newest
<1> SUFFICES ASSUME Init PROVE Newest
  OBVIOUS
<1>1. \A t \in Thread : call[t].pc = "idle"
  BY DEF Init, Idle
<1>2. \A s \in Slot : ~IsCurrent(s)
  BY DEF Init, ZeroRow, IsCurrent
<1>3. Descending
  BY <1>2, SlotAtInTable DEF Descending, ChainRow, HasRow
<1> QED BY <1>1, <1>3 DEF Newest, WalkNewest, SearchNewest, ReleasePc

LEMMA NewestNext ==
  ASSUME ~LaggingReleases, IInv, Newest, [Next]_vars
  PROVE  Newest'
<1> USE DEF shared
<1>1. ASSUME NEW t \in Thread, WalkNewest(t)', SearchNewest(t)', Raises(t), Effect(t)
      PROVE  Newest'
  <2>1. Descending'
    BY <1>1, DescendingKept DEF Newest
  <2>2. \A u \in Thread : WalkNewest(u)' /\ SearchNewest(u)'
    BY <1>1, OthersNewest DEF Newest
  <2> QED BY <2>1, <2>2 DEF Newest
<1>2. CASE \E t \in Thread, a \in Address, e \in Epoch : BeginRelease(t, a, e)
  <2>1. PICK t \in Thread, a \in Address, e \in Epoch : BeginRelease(t, a, e)
    BY <1>2
  <2> DEFINE d == [Idle EXCEPT !.pc = "probe", !.address = a, !.producer = SubgroupOf[t],
                               !.epoch = e, !.probe = FirstProbe, !.attempt = 1]
  <2>2. /\ Set(t, d) /\ e = subgroup_epoch
        /\ UNCHANGED <<generation, subgroup_epoch, atomic_objects>>
    BY <2>1 DEF BeginRelease
  <2>3. d.pc = "probe" /\ d.epoch = e /\ d.probe = 0
    BY DEF Idle, FirstProbe
  <2>4. call'[t] = d
    BY <2>2, OwnCall
  <2> HIDE DEF d
  <2>5. WalkNewest(t)' /\ SearchNewest(t)'
    BY <2>2, <2>3, <2>4 DEF WalkNewest, SearchNewest, Passed, Slot
  <2> QED BY <1>1, <2>2, <2>5, SharedRaises, SharedEffect
<1>3. CASE \E t \in Thread, a \in Address, r \in AcquireRetries : BeginAcquire(t, a, r)
  <2>1. PICK t \in Thread, a \in Address, r \in AcquireRetries : BeginAcquire(t, a, r)
    BY <1>3
  <2> DEFINE c == [Idle EXCEPT !.address = a, !.attempt = 1, !.retries = r]
  <2>2. /\ Set(t, Search(t, c, 0))
        /\ UNCHANGED <<generation, subgroup_epoch, atomic_objects>>
    BY <2>1 DEF BeginAcquire
  <2>3. c \in Call /\ c.address = a
    <3>1. r \in Nat /\ 1 \in Nat
      OBVIOUS
    <3> QED BY <3>1, CallIdle DEF Call
  <2>4. 0 \in Subgroup \cup {SubgroupCapacity} /\ Candidate(t, 0) < SubgroupCapacity
    BY DEF Candidate, Subgroup
  <2> HIDE DEF c
  <2>5. WalkNewest(t)' /\ SearchNewest(t)'
    BY <2>2, <2>3, <2>4, SearchBegins DEF Newest
  <2> QED BY <1>1, <2>2, <2>5, SharedRaises, SharedEffect
<1>4. CASE \E t \in Thread : Step(t)
  <2>1. PICK t \in Thread : Step(t)
    BY <1>4
  <2> QED BY <1>1, <2>1, OwnNewest, StepRaises DEF Newest
<1>5. CASE Barrier
  <2>1. /\ \A t \in Thread : call'[t].pc = "idle"
        /\ UNCHANGED <<generation, atomic_objects>>
    BY <1>5 DEF Barrier, Quiet
  <2>2. Descending'
    BY <2>1 DEF Newest, Descending, ChainRow, ChainEpoch, HasRow, RowMatches, IsCurrent
  <2> QED BY <2>1, <2>2 DEF Newest, WalkNewest, SearchNewest, ReleasePc
<1>6. CASE Launch
  <2>1. \A t \in Thread : call'[t].pc = "idle"
    BY <1>6 DEF Launch, Quiet
  <2>2. \A s \in Slot : ~IsCurrent(s)'
    BY <1>6, LaunchStale
  <2>3. Descending'
    <3>1. \A a \in Address, p \in Subgroup, n \in Slot : ~ChainRow(a, p, n)'
      BY <2>2, SlotAtInTable DEF ChainRow, HasRow
    <3> QED BY <3>1 DEF Descending
  <2> QED BY <2>1, <2>3 DEF Newest, WalkNewest, SearchNewest, ReleasePc
<1>7. CASE UNCHANGED vars
  BY <1>7 DEF vars, Newest, Descending, WalkNewest, SearchNewest, ChainRow, ChainEpoch, HasRow,
              RowMatches, IsCurrent, Here
<1> QED BY <1>2, <1>3, <1>4, <1>5, <1>6, <1>7 DEF Next

\* Without lagging releases a search imports the newest epoch that its key had
\* published when it began (docs/atomics.md:131-132, context.hpp:685-728).
THEOREM NewestIsImported ==
  ASSUME ~LaggingReleases
  PROVE  Spec => []NewestImported
<1>1. Init => IInv /\ Newest
  BY InitInv, NewestInit
<1>2. IInv /\ Newest /\ [Next]_vars => IInv' /\ Newest'
  BY NextInv, NewestNext
<1>3. IInv /\ Newest => NewestImported
  <2>1. SUFFICES ASSUME IInv, Newest, NEW t \in Thread, call[t].pc = "import",
                        NEW e \in call[t].owed
                 PROVE  atomic_objects[Here(t)].epoch >= e
    BY DEF NewestImported
  <2>2. call[t].probe \in Slot /\ HasRow(Here(t), call[t].address, call[t].producer)
    BY <2>1 DEF IInv, TypeOK, Call, CallFacts
  <2>3. /\ ChainRow(call[t].address, call[t].producer, call[t].probe)
        /\ ChainEpoch(call[t].address, call[t].producer, call[t].probe)
             = atomic_objects[Here(t)].epoch
    BY <2>2 DEF ChainRow, ChainEpoch, Here
  <2>4. \A m \in Slot : ~(call[t].probe <= m /\ m < call[t].probe)
    BY <2>2 DEF Slot
  <2>5. call[t].probe >= call[t].probe
    BY <2>2 DEF Slot
  <2> QED BY <2>1, <2>2, <2>3, <2>4, <2>5 DEF Newest, SearchNewest
<1> QED BY <1>1, <1>2, <1>3, PTL DEF Spec
===============================================================================
