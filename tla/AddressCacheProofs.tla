--------------------------- MODULE AddressCacheProofs ---------------------------
(***************************************************************************)
(* Proofs about AddressCache, for any lanes, subgroups, addresses, hash,   *)
(* width of the mask and number of attempts: its tokens are those of the   *)
(* promise, and the cache never costs an acquire a release, nor any call   *)
(* an end.                                                                 *)
(***************************************************************************)
EXTENDS AddressCache, ReleaseRecordsProofs, FiniteSetTheorems

USE CacheAssumption

LookPc == {"look", "look address", "look mask"}
AcquirePc == LookPc \cup {"hits", "table"}
OwnerPc == {"fill", "open"}
Pc == {"idle", "inspect", "compare", "mark", "claim", "publish"} \cup OwnerPc \cup AcquirePc

Records == Address \X Subgroup \X Epoch

Calls == [pc : Pc, address : Address \cup {NullAddress}, attempt : Nat, seen : Int,
          todo : SUBSET Subgroup, imported : SUBSET Subgroup, owed : SUBSET Records]

SlotType == [generation : Int, address : Address \cup {NullAddress},
             mask : SUBSET Subgroup]

CTypeOK ==
  /\ RInv
  /\ cache \in [Slot -> SlotType]
  /\ call \in [Lane -> Calls]
  /\ \A l \in Lane : call[l].pc # "idle" => call[l].address \in Address
  /\ \A s \in Slot : cache[s].generation <= generation

\* Who has claimed which slot.
Owners ==
  /\ \A l \in Lane : call[l].pc \in OwnerPc => cache[Here(l)].generation = Claimed
  /\ \A s \in Slot : cache[s].generation = Claimed =>
       \E l \in Lane : call[l].pc \in OwnerPc /\ Here(l) = s
  /\ \A l, m \in Lane :
       call[l].pc \in OwnerPc /\ call[m].pc \in OwnerPc /\ Here(l) = Here(m) => l = m

\* What a lane that inserts knows of its slot.
InsertFacts(l) ==
  /\ call[l].pc = "claim" => call[l].seen # Claimed /\ call[l].seen # generation
  /\ call[l].pc \in {"compare", "mark"} => IsCurrent(Here(l))
  /\ call[l].pc = "mark" => cache[Here(l)].address = call[l].address
  /\ call[l].pc = "open" => /\ cache[Here(l)].address = call[l].address
                            /\ cache[Here(l)].mask \subseteq {SubgroupOf[l]}

\* A release of p at this address is out, or comes next in its lane.
IsBacked(address, p) ==
  \/ Released(address, p) # {}
  \/ \E l \in Lane : /\ call[l].pc = "publish" /\ SubgroupOf[l] = p
                    /\ call[l].address = address

Masks ==
  \A s \in Slot : IsCurrent(s) => \A p \in cache[s].mask : IsBacked(cache[s].address, p)

\* l has acquired r.
HasAcquired(l, r) == acquired_token[SubgroupOf[l]][r[2]] >= r[3] + 1

\* What a lane that acquires has to show for what it is owed.
AcquireFacts(l) ==
  /\ call[l].pc \in AcquirePc =>
       call[l].owed \subseteq {r \in released : r[1] = call[l].address}
  /\ call[l].pc \in LookPc => call[l].imported = {}
  /\ call[l].pc = "hits" => \A r \in call[l].owed :
       r[2] \in call[l].imported => HasAcquired(l, r)
  /\ call[l].pc = "table" => \A r \in call[l].owed :
       r[2] # SubgroupOf[l] => r[2] \in call[l].todo \/ HasAcquired(l, r)

CInv ==
  /\ CTypeOK
  /\ Owners
  /\ \A l \in Lane : InsertFacts(l)
  /\ Masks
  /\ \A l \in Lane : AcquireFacts(l)

-------------------------------------------------------------------------------
\* Steps of the promise

\* What every step of a lane does to the promise.
AbstractStep ==
  /\ [RNext]_rvars
  /\ generation' = generation
  /\ released \subseteq released'

LEMMA LaneSubgroup == ASSUME NEW l \in Lane PROVE SubgroupOf[l] \in Subgroup
OBVIOUS

LEMMA NoStep == UNCHANGED rvars => AbstractStep
BY DEF AbstractStep, rvars

LEMMA ReleaseStep ==
  ASSUME CTypeOK, NEW l \in Lane, NEW a \in Address,
         Release(a, SubgroupOf[l], subgroup_epoch)
  PROVE  AbstractStep /\ <<a, SubgroupOf[l], 0>> \in released'
<1>1. SubgroupOf[l] \in Subgroup /\ subgroup_epoch \in Epoch
  BY LaneSubgroup DEF CTypeOK, RInv, RTypeOK
<1>2. released' = released \cup ({a} \X {SubgroupOf[l]} \X (0 .. subgroup_epoch))
      /\ generation' = generation
  BY DEF Release
<1>3. <<a, SubgroupOf[l], 0>> \in released'
  BY <1>1, <1>2 DEF Epoch
<1>4. RNext
  BY <1>1 DEF RNext
<1> QED BY <1>2, <1>3, <1>4 DEF AbstractStep

LEMMA ImportStep ==
  ASSUME CTypeOK, NEW l \in Lane, NEW p \in Subgroup, call[l].address \in Address,
         ImportNewest(l, p)
  PROVE  /\ AbstractStep
         /\ released' = released
         /\ \A r \in released : r[1] = call[l].address /\ r[2] = p =>
              acquired_token'[SubgroupOf[l]][p] >= r[3] + 1
<1>1. CASE Released(call[l].address, p) = {}
  <2>1. UNCHANGED rvars
    BY <1>1 DEF ImportNewest
  <2>2. ASSUME NEW r \in released, r[1] = call[l].address, r[2] = p
        PROVE  FALSE
    <3>1. r = <<r[1], r[2], r[3]>> /\ r[3] \in Epoch
      BY DEF CTypeOK, RInv, RTypeOK
    <3> QED BY <1>1, <2>2, <3>1 DEF Released
  <2> QED BY <2>1, <2>2, NoStep DEF rvars
<1>2. CASE Released(call[l].address, p) # {}
  <2>1. /\ Import(SubgroupOf[l], p, call[l].address)
        /\ \A e \in Released(call[l].address, p) : acquired_token'[SubgroupOf[l]][p] > e
    BY <1>2 DEF ImportNewest
  <2>2. RNext /\ generation' = generation /\ released' = released
    BY <2>1, LaneSubgroup DEF RNext, Import
  <2>3. RInv'
    BY <2>2, RNextInv DEF CTypeOK
  <2>4. acquired_token'[SubgroupOf[l]][p] \in Nat
    BY <2>3, LaneSubgroup DEF RInv, RTypeOK
  <2>5. ASSUME NEW r \in released, r[1] = call[l].address, r[2] = p
        PROVE  acquired_token'[SubgroupOf[l]][p] >= r[3] + 1
    <3>1. r = <<r[1], r[2], r[3]>> /\ r[3] \in Epoch
      BY DEF CTypeOK, RInv, RTypeOK
    <3>2. r[3] \in Released(call[l].address, p)
      BY <2>5, <3>1 DEF Released
    <3> QED BY <2>1, <2>4, <3>1, <3>2 DEF Epoch
  <2> QED BY <2>2, <2>5 DEF AbstractStep
<1> QED BY <1>1, <1>2

-------------------------------------------------------------------------------
\* Calls

LEMMA CallIdle == Idle \in Calls
BY DEF Idle, Calls, Pc

LEMMA CallWith ==
  ASSUME NEW c \in Calls, NEW pc \in Pc, NEW n \in Nat, NEW i \in Int
  PROVE  [c EXCEPT !.pc = pc, !.attempt = n, !.seen = i] \in Calls
BY DEF Calls, Pc

LEMMA CallToDo ==
  ASSUME NEW c \in Calls, NEW pc \in Pc, NEW todo \in SUBSET Subgroup,
         NEW imported \in SUBSET Subgroup
  PROVE  /\ [c EXCEPT !.pc = pc, !.todo = todo] \in Calls
         /\ [c EXCEPT !.todo = todo, !.imported = imported] \in Calls
         /\ [c EXCEPT !.todo = todo] \in Calls
BY DEF Calls, Pc

\* A lane inside a call looks at a slot of the cache.
LEMMA HereInCache ==
  ASSUME CTypeOK, NEW l \in Lane, call[l].pc # "idle"
  PROVE  Here(l) \in Slot
BY DEF CTypeOK, Here

-------------------------------------------------------------------------------
\* What a step of one lane leaves to the others

Effect(l) ==
  /\ AbstractStep
  /\ \A m \in Lane \ {l} : call'[m] = call[m]
  /\ \A s \in Slot : IsCurrent(s) => /\ IsCurrent(s)'
                                     /\ cache'[s].address = cache[s].address
                                     /\ cache[s].mask \subseteq cache'[s].mask
  /\ \A m \in Lane \ {l} : call[m].pc \in OwnerPc => cache'[Here(m)] = cache[Here(m)]

\* Tokens only grow, so what a lane has acquired it keeps.
LEMMA AcquiredKept ==
  ASSUME CTypeOK, AbstractStep, NEW m \in Lane, NEW r \in released, HasAcquired(m, r)
  PROVE  HasAcquired(m, r)'
<1>1. RInv /\ RInv'
  BY RNextInv DEF CTypeOK, AbstractStep
<1>2. SubgroupOf[m] \in Subgroup /\ r[2] \in Subgroup /\ r[3] \in Nat
  <2>1. r \in Address \X Subgroup \X Epoch
    BY <1>1 DEF RInv, RTypeOK
  <2>2. r[2] \in Subgroup /\ r[3] \in Epoch
    BY <2>1, Zenon
  <2>3. SubgroupOf[m] \in Subgroup
    BY LaneSubgroup
  <2> QED BY <2>2, <2>3 DEF Epoch
<1>3. acquired_token'[SubgroupOf[m]][r[2]] >= acquired_token[SubgroupOf[m]][r[2]]
  BY <1>1, <1>2, StepRaises DEF AbstractStep
<1>4. /\ acquired_token[SubgroupOf[m]][r[2]] \in Nat
      /\ acquired_token'[SubgroupOf[m]][r[2]] \in Nat
  <2>1. /\ acquired_token \in [Subgroup -> [Subgroup -> 0 .. MaxEpoch + 1]]
        /\ acquired_token' \in [Subgroup -> [Subgroup -> 0 .. MaxEpoch + 1]]
    BY <1>1 DEF RInv, RTypeOK
  <2>2. \A c, p \in Subgroup :
          acquired_token[c][p] \in Nat /\ acquired_token'[c][p] \in Nat
    BY <2>1, BoundAssumption
  <2> QED BY <2>2, <1>2
<1> QED BY <1>2, <1>3, <1>4 DEF HasAcquired

LEMMA OthersKeep ==
  ASSUME CInv, NEW l \in Lane, NEW m \in Lane, m # l, Effect(l)
  PROVE  InsertFacts(m)' /\ AcquireFacts(m)'
<1>1. call'[m] = call[m] /\ Here(m)' = Here(m) /\ generation' = generation
      /\ released \subseteq released'
  BY DEF Effect, Here, AbstractStep
<1>2. InsertFacts(m) /\ AcquireFacts(m) /\ CTypeOK
  BY DEF CInv
<1>3. InsertFacts(m)'
  <2>1. CASE call[m].pc = "idle"
    BY <1>1, <2>1 DEF InsertFacts
  <2>2. CASE call[m].pc # "idle"
    <3>1. Here(m) \in Slot
      BY <1>2, <2>2, HereInCache
    <3>2. call[m].pc \in {"compare", "mark"} =>
            IsCurrent(Here(m))' /\ cache'[Here(m)].address = cache[Here(m)].address
      BY <1>1, <1>2, <3>1 DEF InsertFacts, Effect, IsCurrent
    <3>3. call[m].pc = "open" => cache'[Here(m)] = cache[Here(m)]
      BY DEF Effect, OwnerPc
    <3> QED BY <1>1, <1>2, <3>2, <3>3 DEF InsertFacts, IsCurrent
  <2> QED BY <2>1, <2>2
<1>4. AcquireFacts(m)'
  <2>1. call[m].pc \in AcquirePc => \A r \in call[m].owed : r \in released
    BY <1>2 DEF AcquireFacts
  <2>2. \A r \in released : HasAcquired(m, r) => HasAcquired(m, r)'
    BY <1>2, AcquiredKept DEF Effect
  <2>3. (call[m].pc \in AcquirePc =>
          call[m].owed \subseteq {r \in released : r[1] = call[m].address})'
    BY <1>1, <1>2 DEF AcquireFacts
  <2>4. (call[m].pc \in LookPc => call[m].imported = {})'
    BY <1>1, <1>2 DEF AcquireFacts
  <2>5. (call[m].pc = "hits" => \A r \in call[m].owed :
          r[2] \in call[m].imported => HasAcquired(m, r))'
    BY <1>1, <1>2, <2>1, <2>2 DEF AcquireFacts, AcquirePc
  <2>6. (call[m].pc = "table" => \A r \in call[m].owed :
          r[2] # SubgroupOf[m] => r[2] \in call[m].todo \/ HasAcquired(m, r))'
    BY <1>1, <1>2, <2>1, <2>2 DEF AcquireFacts, AcquirePc
  <2> QED BY <2>3, <2>4, <2>5, <2>6 DEF AcquireFacts
<1> QED BY <1>3, <1>4

\* What backs a bit of a mask stays, if a lane that goes on from "publish" has
\* published.
LEMMA BackedKept ==
  ASSUME NEW l \in Lane, Effect(l),
         call[l].pc = "publish" =>
           \E e \in Epoch : <<call[l].address, SubgroupOf[l], e>> \in released'
  PROVE  \A a, p : IsBacked(a, p) => IsBacked(a, p)'
<1> SUFFICES ASSUME NEW a, NEW p, IsBacked(a, p)
             PROVE  IsBacked(a, p)'
  OBVIOUS
<1>1. released \subseteq released'
  BY DEF Effect, AbstractStep
<1>2. CASE Released(a, p) # {}
  BY <1>1, <1>2 DEF Released, IsBacked
<1>3. ASSUME NEW m \in Lane, call[m].pc = "publish", SubgroupOf[m] = p,
             call[m].address = a
      PROVE  IsBacked(a, p)'
  <2>1. CASE m = l
    BY <1>3, <2>1 DEF IsBacked, Released
  <2>2. CASE m # l
    <3>1. call'[m] = call[m]
      BY <2>2 DEF Effect
    <3> QED BY <1>3, <3>1 DEF IsBacked
  <2> QED BY <2>1, <2>2
<1> QED BY <1>2, <1>3 DEF IsBacked

\* A step that leaves the cache alone.
LEMMA CacheUntouched ==
  ASSUME CInv, NEW l \in Lane, NEW c \in Calls, Set(l, c),
         c.pc # "idle" => c.address \in Address,
         call[l].pc \notin OwnerPc, c.pc \notin OwnerPc,
         cache' = cache, AbstractStep,
         call[l].pc = "publish" =>
           \E e \in Epoch : <<call[l].address, SubgroupOf[l], e>> \in released'
  PROVE  CTypeOK' /\ Owners' /\ Masks' /\ Effect(l) /\ call'[l] = c
<1>1. /\ call' = [call EXCEPT ![l] = c]
      /\ call \in [Lane -> Calls] /\ generation' = generation /\ CTypeOK
  BY DEF Set, CInv, CTypeOK, AbstractStep
<1>2. call'[l] = c /\ \A m \in Lane \ {l} : call'[m] = call[m]
  BY <1>1
<1>3. Effect(l)
  BY <1>1, <1>2 DEF Effect, IsCurrent
<1>4. CTypeOK'
  <2>1. RInv'
    BY <1>1, RNextInv DEF CTypeOK, AbstractStep
  <2>2. call' \in [Lane -> Calls]
    BY <1>1
  <2>3. \A m \in Lane : call'[m].pc # "idle" => call'[m].address \in Address
    BY <1>1, <1>2 DEF CTypeOK
  <2> QED BY <1>1, <2>1, <2>2, <2>3 DEF CTypeOK
<1>5. Owners'
  <2>1. \A m \in Lane : call'[m].pc \in OwnerPc <=> call[m].pc \in OwnerPc
    BY <1>2
  <2>2. \A m \in Lane : call[m].pc \in OwnerPc => Here(m)' = Here(m)
    BY <1>2 DEF Here
  <2>3. Owners
    BY DEF CInv
  <2> QED BY <2>1, <2>2, <2>3 DEF Owners
<1>6. Masks'
  <2> SUFFICES ASSUME NEW s \in Slot, IsCurrent(s)', NEW p \in cache'[s].mask
               PROVE  IsBacked(cache[s].address, p)'
    BY DEF Masks
  <2>1. IsBacked(cache[s].address, p)
    BY <1>1 DEF CInv, Masks, IsCurrent
  <2>2. \A a : IsBacked(a, p) => IsBacked(a, p)'
    BY <1>3, BackedKept
  <2> QED BY <2>1, <2>2
<1> QED BY <1>2, <1>3, <1>4, <1>5, <1>6

-------------------------------------------------------------------------------
\* One lemma for each step of a lane

\* All that a step of l must establish.
StepInv(l) ==
  /\ CTypeOK' /\ Owners' /\ Masks'
  /\ Effect(l)
  /\ InsertFacts(l)' /\ AcquireFacts(l)'

\* A lane outside of calls has nothing to show.
LEMMA IdleFacts ==
  ASSUME NEW l \in Lane, call'[l].pc \in {"idle", "publish", "inspect"}
  PROVE  InsertFacts(l)' /\ AcquireFacts(l)'
BY DEF InsertFacts, AcquireFacts, AcquirePc, LookPc

LEMMA PlainReleaseInv ==
  ASSUME CInv, NEW l \in Lane, NEW a \in Address, PlainRelease(l, a)
  PROVE  StepInv(l)
<1>1. /\ call[l].pc = "idle" /\ Release(a, SubgroupOf[l], subgroup_epoch)
      /\ cache' = cache /\ call' = call
  BY DEF PlainRelease
<1>2. AbstractStep /\ CTypeOK /\ call[l] \in Calls /\ call \in [Lane -> Calls]
  BY <1>1, ReleaseStep DEF CInv, CTypeOK
<1>3. Set(l, call[l])
  BY <1>1, <1>2 DEF Set
<1>4. CTypeOK' /\ Owners' /\ Masks' /\ Effect(l) /\ call'[l] = call[l]
  BY <1>1, <1>2, <1>3, CacheUntouched DEF OwnerPc
<1> QED BY <1>1, <1>4, IdleFacts DEF StepInv

LEMMA BeginReleaseInv ==
  ASSUME CInv, NEW l \in Lane, NEW a \in Address, BeginRelease(l, a)
  PROVE  StepInv(l)
<1> DEFINE c == IF MayCache(SubgroupOf[l])
                THEN [Idle EXCEPT !.address = a, !.pc = "inspect", !.attempt = 1]
                ELSE [Idle EXCEPT !.address = a, !.pc = "publish"]
<1>1. /\ call[l].pc = "idle" /\ Set(l, c) /\ cache' = cache /\ CTypeOK
      /\ Release(a, SubgroupOf[l], subgroup_epoch) \/ UNCHANGED rvars
  BY DEF BeginRelease, CInv
<1>2. AbstractStep
  BY <1>1, ReleaseStep, NoStep
<1>3. c \in Calls /\ c.address \in Address /\ c.pc \in {"inspect", "publish"}
  BY CallIdle DEF Calls, Pc, Idle
<1>4. CTypeOK' /\ Owners' /\ Masks' /\ Effect(l) /\ call'[l] = c
  <2> HIDE DEF c
  <2> QED BY <1>1, <1>2, <1>3, CacheUntouched DEF OwnerPc
<1>5. InsertFacts(l)' /\ AcquireFacts(l)'
  <2> HIDE DEF c
  <2> QED BY <1>3, <1>4, IdleFacts
<1> QED BY <1>4, <1>5 DEF StepInv

\* A step inside a call that leaves cache and records alone.
LEMMA CallMoves ==
  ASSUME CInv, NEW l \in Lane, NEW c \in Calls, Set(l, c), call[l].pc # "idle",
         c.address = call[l].address,
         call[l].pc \notin OwnerPc, c.pc \notin OwnerPc, call[l].pc # "publish",
         UNCHANGED <<rvars, cache>>
  PROVE  CTypeOK' /\ Owners' /\ Masks' /\ Effect(l) /\ call'[l] = c
<1>1. AbstractStep /\ cache' = cache
  BY NoStep
<1>2. c.address \in Address
  BY DEF CInv, CTypeOK
<1> QED BY <1>1, <1>2, CacheUntouched

\* The next attempt, or the end of them.
LEMMA RetryInv ==
  ASSUME CInv, NEW l \in Lane, Retry(l), call[l].pc \in {"inspect", "claim"},
         UNCHANGED <<rvars, cache>>
  PROVE  StepInv(l)
<1>1. call[l] \in Calls
  BY DEF CInv, CTypeOK
<1>2. PICK c \in Calls : Set(l, c) /\ c.address = call[l].address
                         /\ c.pc \in {"inspect", "publish"}
  <2>1. CASE call[l].attempt < CacheAttempts
    <3> DEFINE c == [call[l] EXCEPT !.pc = "inspect", !.attempt = @ + 1, !.seen = 0]
    <3>1. call[l].attempt + 1 \in Nat /\ 0 \in Int /\ "inspect" \in Pc
      BY <1>1 DEF Calls, Pc
    <3>2. c \in Calls
      BY <1>1, <3>1, CallWith, Zenon
    <3>3. c.address = call[l].address /\ c.pc = "inspect"
      BY <1>1 DEF Calls
    <3> QED BY <2>1, <3>2, <3>3 DEF Retry
  <2>2. CASE ~(call[l].attempt < CacheAttempts)
    <3> DEFINE c == [call[l] EXCEPT !.pc = "publish", !.attempt = 0, !.seen = 0]
    <3>0. "publish" \in Pc
      BY DEF Pc
    <3>1. c \in Calls /\ c.address = call[l].address /\ c.pc = "publish"
      <4>1. 0 \in Nat /\ 0 \in Int
        OBVIOUS
      <4>2. c \in Calls
        BY <1>1, <3>0, <4>1, CallWith, Zenon
      <4>3. c.address = call[l].address /\ c.pc = "publish"
        BY <1>1 DEF Calls
      <4> QED BY <4>2, <4>3
    <3> QED BY <2>2, <3>1 DEF Retry, Goto
  <2> QED BY <2>1, <2>2
<1>3. CTypeOK' /\ Owners' /\ Masks' /\ Effect(l) /\ call'[l] = c
  BY <1>2, CallMoves DEF OwnerPc
<1> QED BY <1>2, <1>3, IdleFacts DEF StepInv

\* A move to the next step of a call, with nothing else.
LEMMA GotoMoves ==
  ASSUME CInv, NEW l \in Lane, NEW pc \in Pc \ OwnerPc, Goto(l, pc),
         call[l].pc \notin OwnerPc \cup {"idle", "publish"},
         UNCHANGED <<rvars, cache>>
  PROVE  /\ CTypeOK' /\ Owners' /\ Masks' /\ Effect(l) /\ Here(l)' = Here(l)
         /\ call'[l].pc = pc /\ call'[l].address = call[l].address
         /\ call'[l].todo = call[l].todo /\ call'[l].imported = call[l].imported
         /\ call'[l].owed = call[l].owed
<1> DEFINE c == [call[l] EXCEPT !.pc = pc, !.attempt = 0, !.seen = 0]
<1>1. call[l] \in Calls
  BY DEF CInv, CTypeOK
<1>2. /\ c \in Calls /\ c.pc = pc /\ c.address = call[l].address
      /\ c.todo = call[l].todo /\ c.imported = call[l].imported /\ c.owed = call[l].owed
  <2>1. 0 \in Nat /\ 0 \in Int
    OBVIOUS
  <2>2. c \in Calls
    BY <1>1, <2>1, CallWith, Zenon
  <2>3. /\ c.pc = pc /\ c.address = call[l].address
        /\ c.todo = call[l].todo /\ c.imported = call[l].imported /\ c.owed = call[l].owed
    BY <1>1 DEF Calls
  <2> QED BY <2>2, <2>3
<1>3. Set(l, c)
  BY DEF Goto
<1>4. CTypeOK' /\ Owners' /\ Masks' /\ Effect(l) /\ call'[l] = c
  <2> HIDE DEF c
  <2> QED BY <1>2, <1>3, CallMoves
<1> QED BY <1>2, <1>4 DEF Here

LEMMA InspectSlotInv ==
  ASSUME CInv, NEW l \in Lane, InspectSlot(l)
  PROVE  StepInv(l)
<1>1. call[l].pc = "inspect" /\ UNCHANGED <<rvars, cache>> /\ call[l] \in Calls
  BY DEF InspectSlot, CInv, CTypeOK
<1>2. CASE IsCurrent(Here(l)) /\ Goto(l, "compare")
  <2>1. /\ CTypeOK' /\ Owners' /\ Masks' /\ Effect(l) /\ Here(l)' = Here(l)
        /\ call'[l].pc = "compare"
    BY <1>1, <1>2, GotoMoves DEF Pc, OwnerPc
  <2>2. InsertFacts(l)' /\ AcquireFacts(l)'
    BY <1>1, <1>2, <2>1 DEF InsertFacts, AcquireFacts, AcquirePc, LookPc, IsCurrent, rvars
  <2> QED BY <2>1, <2>2 DEF StepInv
<1>3. CASE Retry(l)
  BY <1>1, <1>3, RetryInv
<1>4. CASE /\ ~IsCurrent(Here(l)) /\ cache[Here(l)].generation # Claimed
           /\ Set(l, [call[l] EXCEPT !.pc = "claim", !.seen = cache[Here(l)].generation])
  <2> DEFINE c == [call[l] EXCEPT !.pc = "claim", !.seen = cache[Here(l)].generation]
  <2>1. cache[Here(l)].generation \in Int
    BY <1>1, HereInCache DEF CInv, CTypeOK, SlotType
  <2>2. /\ c \in Calls /\ c.pc = "claim" /\ c.address = call[l].address
        /\ c.seen = cache[Here(l)].generation
    BY <1>1, <2>1 DEF Calls, Pc
  <2>3. CTypeOK' /\ Owners' /\ Masks' /\ Effect(l) /\ call'[l] = c
    BY <1>1, <1>4, <2>2, CallMoves DEF OwnerPc
  <2>4. InsertFacts(l)' /\ AcquireFacts(l)'
    BY <1>1, <1>4, <2>2, <2>3
       DEF InsertFacts, AcquireFacts, AcquirePc, LookPc, IsCurrent, rvars
  <2> QED BY <2>3, <2>4 DEF StepInv
<1> QED BY <1>2, <1>3, <1>4 DEF InspectSlot

LEMMA CompareSlotInv ==
  ASSUME CInv, NEW l \in Lane, CompareSlot(l)
  PROVE  StepInv(l)
<1>1. /\ call[l].pc = "compare" /\ UNCHANGED <<rvars, cache>> /\ call[l] \in Calls
      /\ InsertFacts(l)
  BY DEF CompareSlot, CInv, CTypeOK
<1>2. CASE cache[Here(l)].address = call[l].address
  <2>1. /\ CTypeOK' /\ Owners' /\ Masks' /\ Effect(l) /\ Here(l)' = Here(l)
        /\ call'[l].pc = "mark" /\ call'[l].address = call[l].address
    BY <1>1, <1>2, GotoMoves DEF Pc, OwnerPc, CompareSlot
  <2>2. InsertFacts(l)' /\ AcquireFacts(l)'
    BY <1>1, <1>2, <2>1 DEF InsertFacts, AcquireFacts, AcquirePc, LookPc, IsCurrent, rvars
  <2> QED BY <2>1, <2>2 DEF StepInv
<1>3. CASE cache[Here(l)].address # call[l].address
  <2>1. /\ CTypeOK' /\ Owners' /\ Masks' /\ Effect(l) /\ call'[l].pc = "publish"
    BY <1>1, <1>3, GotoMoves DEF Pc, OwnerPc, CompareSlot
  <2> QED BY <2>1, IdleFacts DEF StepInv
<1> QED BY <1>2, <1>3

\* The slots of two lanes, one of which has claimed its own, differ unless
\* both have.
LEMMA OwnersApart ==
  ASSUME CInv, NEW l \in Lane, NEW m \in Lane, m # l, call[m].pc \in OwnerPc,
         call[l].pc \in OwnerPc \/ cache[Here(l)].generation # Claimed
  PROVE  Here(m) # Here(l)
BY DEF CInv, Owners

\* A step of a call that writes its slot.
LEMMA SlotWritten ==
  ASSUME CInv, NEW l \in Lane, NEW pc \in Pc, Goto(l, pc),
         call[l].pc # "idle", UNCHANGED rvars,
         NEW slot \in SlotType, slot.generation <= generation,
         cache' = [cache EXCEPT ![Here(l)] = slot]
  PROVE  /\ CTypeOK' /\ AbstractStep /\ generation' = generation /\ released' = released
         /\ \A m \in Lane \ {l} : call'[m] = call[m]
         /\ \A m \in Lane : Here(m)' = Here(m)
         /\ call'[l].pc = pc /\ call'[l].address = call[l].address
         /\ Here(l) \in Slot /\ cache'[Here(l)] = slot
         /\ \A s \in Slot : s # Here(l) => cache'[s] = cache[s]
<1> DEFINE c == [call[l] EXCEPT !.pc = pc, !.attempt = 0, !.seen = 0]
<1>1. /\ CTypeOK /\ call[l] \in Calls /\ Here(l) \in Slot /\ call[l].address \in Address
      /\ call' = [call EXCEPT ![l] = c] /\ call \in [Lane -> Calls]
      /\ cache \in [Slot -> SlotType] /\ generation' = generation /\ released' = released
  BY HereInCache DEF CInv, CTypeOK, Goto, Set, SlotType, rvars
<1>2. c \in Calls /\ c.pc = pc /\ c.address = call[l].address
  <2>1. call[l] \in Calls
    BY <1>1
  <2>2. 0 \in Nat /\ 0 \in Int
    OBVIOUS
  <2>3. c \in Calls
    BY <2>1, <2>2, CallWith, Zenon
  <2>4. c.pc = pc /\ c.address = call[l].address
    BY <2>1 DEF Calls
  <2> QED BY <2>3, <2>4
<1>3. AbstractStep
  BY NoStep
<1> HIDE DEF c
<1>4. call' \in [Lane -> Calls] /\ call'[l] = c /\ \A m \in Lane \ {l} : call'[m] = call[m]
  BY <1>1, <1>2
<1>5. /\ cache' \in [Slot -> SlotType] /\ cache'[Here(l)] = slot
      /\ \A s \in Slot : s # Here(l) => cache'[s] = cache[s]
  BY <1>1
<1>6. \A m \in Lane : call'[m].address = call[m].address
  BY <1>2, <1>4
<1>7. CTypeOK'
  <2>1. RInv'
    BY <1>1, <1>3, RNextInv DEF CTypeOK, AbstractStep
  <2>2. \A m \in Lane : call'[m].pc # "idle" => call'[m].address \in Address
    BY <1>1, <1>2, <1>4 DEF CTypeOK
  <2>3. \A s \in Slot : cache'[s].generation <= generation'
    BY <1>1, <1>5 DEF CTypeOK
  <2> QED BY <1>4, <1>5, <2>1, <2>2, <2>3 DEF CTypeOK, SlotType
<1> QED BY <1>1, <1>2, <1>3, <1>4, <1>5, <1>6, <1>7 DEF Here

\* A slot that stays current backs its mask if the written one does.
LEMMA WrittenMasks ==
  ASSUME CInv, NEW l \in Lane, Effect(l), call[l].pc # "publish",
         \A s \in Slot : s # Here(l) => cache'[s] = cache[s],
         IsCurrent(Here(l))' =>
           \A p \in cache'[Here(l)].mask :
             \/ IsCurrent(Here(l)) /\ p \in cache[Here(l)].mask
             \/ /\ call'[l].pc = "publish" /\ SubgroupOf[l] = p
                /\ call'[l].address = cache'[Here(l)].address,
         Here(l)' = Here(l)
  PROVE  Masks'
<1> SUFFICES ASSUME NEW s \in Slot, IsCurrent(s)', NEW p \in cache'[s].mask
             PROVE  IsBacked(cache[s].address, p)'
  BY DEF Masks
<1>1. generation' = generation
  BY DEF Effect, AbstractStep
<1>2. \A a, q : IsBacked(a, q) => IsBacked(a, q)'
  BY BackedKept
<1>3. CASE IsCurrent(s) /\ p \in cache[s].mask
  <2>1. IsBacked(cache[s].address, p) /\ cache'[s].address = cache[s].address
    BY <1>3 DEF CInv, Masks, Effect
  <2> QED BY <1>2, <2>1
<1>4. CASE ~(IsCurrent(s) /\ p \in cache[s].mask)
  <2>1. s = Here(l)
    BY <1>1, <1>4 DEF IsCurrent
  <2>2. /\ call'[l].pc = "publish" /\ SubgroupOf[l] = p
        /\ call'[l].address = cache'[s].address
    BY <1>4, <2>1 DEF IsCurrent
  <2> QED BY <2>2 DEF IsBacked
<1> QED BY <1>3, <1>4

\* A generation is no claim.
LEMMA NotClaimed == ASSUME CTypeOK PROVE generation # Claimed
BY DEF CTypeOK, RInv, RTypeOK, Claimed

LEMMA OwnBit ==
  ASSUME NEW l \in Lane
  PROVE  Bit(SubgroupOf[l]) \subseteq {SubgroupOf[l]} /\ Bit(SubgroupOf[l]) \in SUBSET Subgroup
BY LaneSubgroup DEF Bit

LEMMA MarkProducerInv ==
  ASSUME CInv, NEW l \in Lane, MarkProducer(l)
  PROVE  StepInv(l)
<1> DEFINE slot == [cache[Here(l)] EXCEPT !.mask = Joined(@, SubgroupOf[l])]
<1>1. /\ call[l].pc = "mark" /\ Goto(l, "publish") /\ UNCHANGED rvars
      /\ cache' = [cache EXCEPT ![Here(l)] = slot]
      /\ CTypeOK /\ Here(l) \in Slot
      /\ IsCurrent(Here(l)) /\ cache[Here(l)].address = call[l].address
  BY HereInCache DEF MarkProducer, CInv, InsertFacts
<1>2. cache[Here(l)] \in SlotType
  BY <1>1 DEF CTypeOK, SlotType
<1>3. /\ slot \in SlotType /\ slot.generation = cache[Here(l)].generation
      /\ slot.address = cache[Here(l)].address
      /\ cache[Here(l)].mask \subseteq slot.mask
      /\ slot.mask \subseteq cache[Here(l)].mask \cup {SubgroupOf[l]}
  BY <1>2, OwnBit DEF SlotType, Joined
<1>4. slot.generation <= generation /\ cache[Here(l)].generation # Claimed
  BY <1>1, <1>3, NotClaimed DEF CTypeOK, IsCurrent
<1> HIDE DEF slot
<1>5. /\ CTypeOK' /\ AbstractStep /\ generation' = generation
      /\ \A m \in Lane \ {l} : call'[m] = call[m]
      /\ \A m \in Lane : Here(m)' = Here(m)
      /\ call'[l].pc = "publish" /\ call'[l].address = call[l].address
      /\ cache'[Here(l)] = slot
      /\ \A s \in Slot : s # Here(l) => cache'[s] = cache[s]
  BY <1>1, <1>3, <1>4, SlotWritten DEF Pc
<1>6. Effect(l)
  <2>1. \A m \in Lane \ {l} : call[m].pc \in OwnerPc => cache'[Here(m)] = cache[Here(m)]
    BY <1>4, <1>5, OwnersApart, HereInCache DEF CInv, OwnerPc
  <2> QED BY <1>3, <1>5, <2>1 DEF Effect, IsCurrent
<1>7. Owners'
  <2>1. \A m \in Lane : call'[m].pc \in OwnerPc <=> call[m].pc \in OwnerPc
    BY <1>1, <1>5 DEF OwnerPc
  <2>2. \A s \in Slot : cache'[s].generation = cache[s].generation
    BY <1>3, <1>5
  <2>3. \A m \in Lane : call[m].pc \in OwnerPc => Here(m) \in Slot
    BY <1>1, HereInCache DEF OwnerPc
  <2>4. Owners
    BY DEF CInv
  <2> QED BY <1>5, <2>1, <2>2, <2>3, <2>4 DEF Owners
<1>8. Masks'
  BY <1>1, <1>3, <1>5, <1>6, WrittenMasks
<1> QED BY <1>5, <1>6, <1>7, <1>8, IdleFacts DEF StepInv

LEMMA ClaimSlotInv ==
  ASSUME CInv, NEW l \in Lane, ClaimSlot(l)
  PROVE  StepInv(l)
<1>1. /\ call[l].pc = "claim" /\ UNCHANGED rvars /\ CTypeOK /\ Here(l) \in Slot
      /\ call[l].seen # Claimed /\ call[l].seen # generation
  BY HereInCache DEF ClaimSlot, CInv, InsertFacts
<1>2. CASE ~ClaimSucceeds(l)
  BY <1>1, <1>2, RetryInv DEF ClaimSlot
<1>3. CASE ClaimSucceeds(l)
  <2> DEFINE slot == [cache[Here(l)] EXCEPT !.generation = Claimed]
  <2>1. /\ cache' = [cache EXCEPT ![Here(l)] = slot] /\ Goto(l, "fill")
        /\ cache[Here(l)].generation = call[l].seen
    BY <1>3 DEF ClaimSlot, ClaimSucceeds
  <2>2. cache[Here(l)] \in SlotType
    BY <1>1 DEF CTypeOK, SlotType
  <2>3. slot \in SlotType /\ slot.generation = Claimed
    BY <2>2 DEF SlotType, Claimed
  <2>4. slot.generation <= generation
    BY <1>1, <2>3 DEF CTypeOK, RInv, RTypeOK, Claimed
  <2> HIDE DEF slot
  <2>5. /\ CTypeOK' /\ AbstractStep /\ generation' = generation
        /\ \A m \in Lane \ {l} : call'[m] = call[m]
        /\ \A m \in Lane : Here(m)' = Here(m)
        /\ call'[l].pc = "fill" /\ cache'[Here(l)] = slot
        /\ \A s \in Slot : s # Here(l) => cache'[s] = cache[s]
    BY <1>1, <2>1, <2>3, <2>4, SlotWritten DEF Pc, OwnerPc
  <2>6. \A m \in Lane \ {l} : call[m].pc \in OwnerPc => Here(m) \in Slot /\ Here(m) # Here(l)
    BY <1>1, <2>1, OwnersApart, HereInCache DEF OwnerPc
  <2>7. Effect(l)
    <3>1. ~IsCurrent(Here(l))
      BY <1>1, <2>1 DEF IsCurrent
    <3>2. \A s \in Slot : IsCurrent(s) => s # Here(l)
      BY <3>1
    <3> QED BY <2>5, <2>6, <3>2 DEF Effect, IsCurrent
  <2>8. Owners'
    <3>1. Owners
      BY DEF CInv
    <3>2. \A m \in Lane : call'[m].pc \in OwnerPc =>
            m = l \/ (call[m].pc \in OwnerPc /\ Here(m) \in Slot /\ Here(m) # Here(l))
      BY <2>5, <2>6
    <3>3. (\A m \in Lane : call[m].pc \in OwnerPc => cache[Here(m)].generation = Claimed)'
      BY <2>3, <2>5, <3>1, <3>2 DEF Owners
    <3>4. (\A s \in Slot : cache[s].generation = Claimed =>
             \E m \in Lane : call[m].pc \in OwnerPc /\ Here(m) = s)'
      <4> SUFFICES ASSUME NEW s \in Slot, cache'[s].generation = Claimed
                   PROVE  \E m \in Lane : call'[m].pc \in OwnerPc /\ Here(m)' = s
        OBVIOUS
      <4>1. CASE s = Here(l)
        BY <2>5, <4>1 DEF OwnerPc
      <4>2. CASE s # Here(l)
        <5>1. PICK m \in Lane : call[m].pc \in OwnerPc /\ Here(m) = s
          BY <2>5, <3>1, <4>2 DEF Owners
        <5>2. m # l
          BY <4>2, <5>1
        <5> QED BY <2>5, <5>1, <5>2
      <4> QED BY <4>1, <4>2
    <3>5. (\A m, n \in Lane :
             call[m].pc \in OwnerPc /\ call[n].pc \in OwnerPc /\ Here(m) = Here(n) => m = n)'
      BY <2>5, <3>1, <3>2 DEF Owners
    <3> QED BY <3>3, <3>4, <3>5 DEF Owners
  <2>9. Masks'
    <3>1. ~IsCurrent(Here(l))'
      BY <1>1, <2>3, <2>5, NotClaimed DEF IsCurrent
    <3> QED BY <1>1, <2>5, <2>7, <3>1, WrittenMasks
  <2>10. InsertFacts(l)' /\ AcquireFacts(l)'
    BY <2>5 DEF InsertFacts, AcquireFacts, AcquirePc, LookPc
  <2> QED BY <2>5, <2>7, <2>8, <2>9, <2>10 DEF StepInv
<1> QED BY <1>2, <1>3

LEMMA FillSlotInv ==
  ASSUME CInv, NEW l \in Lane, FillSlot(l)
  PROVE  StepInv(l)
<1> DEFINE slot == Filled(cache[Here(l)], call[l].address, SubgroupOf[l])
<1>1. /\ call[l].pc = "fill" /\ Goto(l, "open") /\ UNCHANGED rvars
      /\ cache' = [cache EXCEPT ![Here(l)] = slot]
      /\ CTypeOK /\ Here(l) \in Slot /\ call[l].address \in Address
      /\ cache[Here(l)].generation = Claimed
  BY HereInCache DEF FillSlot, CInv, CTypeOK, Owners, OwnerPc
<1>2. cache[Here(l)] \in SlotType
  BY <1>1 DEF CTypeOK, SlotType
<1>3. /\ slot \in SlotType /\ slot.generation = Claimed
      /\ slot.address = call[l].address /\ slot.mask \subseteq {SubgroupOf[l]}
  BY <1>1, <1>2, OwnBit DEF SlotType, Filled
<1>4. slot.generation <= generation
  BY <1>1, <1>3 DEF CTypeOK, RInv, RTypeOK, Claimed
<1> HIDE DEF slot
<1>5. /\ CTypeOK' /\ AbstractStep /\ generation' = generation
      /\ \A m \in Lane \ {l} : call'[m] = call[m]
      /\ \A m \in Lane : Here(m)' = Here(m)
      /\ call'[l].pc = "open" /\ call'[l].address = call[l].address
      /\ cache'[Here(l)] = slot
      /\ \A s \in Slot : s # Here(l) => cache'[s] = cache[s]
  BY <1>1, <1>3, <1>4, SlotWritten DEF Pc, OwnerPc
<1>6. Effect(l)
  <2>1. \A m \in Lane \ {l} : call[m].pc \in OwnerPc => Here(m) \in Slot /\ Here(m) # Here(l)
    BY <1>1, OwnersApart, HereInCache DEF OwnerPc
  <2>2. \A s \in Slot : IsCurrent(s) => s # Here(l)
    BY <1>1, NotClaimed DEF IsCurrent
  <2> QED BY <1>5, <2>1, <2>2 DEF Effect, IsCurrent
<1>7. Owners'
  <2>1. \A m \in Lane : call'[m].pc \in OwnerPc <=> call[m].pc \in OwnerPc
    BY <1>1, <1>5 DEF OwnerPc
  <2>2. \A s \in Slot : cache'[s].generation = cache[s].generation
    BY <1>1, <1>3, <1>5
  <2>3. \A m \in Lane : call[m].pc \in OwnerPc => Here(m) \in Slot
    BY <1>1, HereInCache DEF OwnerPc
  <2>4. Owners
    BY DEF CInv
  <2> QED BY <1>5, <2>1, <2>2, <2>3, <2>4 DEF Owners
<1>8. Masks'
  <2>1. ~IsCurrent(Here(l))'
    BY <1>1, <1>3, <1>5, NotClaimed DEF IsCurrent
  <2> QED BY <1>1, <1>5, <1>6, <2>1, WrittenMasks
<1>9. InsertFacts(l)' /\ AcquireFacts(l)'
  BY <1>3, <1>5 DEF InsertFacts, AcquireFacts, AcquirePc, LookPc
<1> QED BY <1>5, <1>6, <1>7, <1>8, <1>9 DEF StepInv

LEMMA OpenSlotInv ==
  ASSUME CInv, NEW l \in Lane, OpenSlot(l)
  PROVE  StepInv(l)
<1> DEFINE slot == [cache[Here(l)] EXCEPT !.generation = generation]
<1>1. /\ call[l].pc = "open" /\ Goto(l, "publish") /\ UNCHANGED rvars
      /\ cache' = [cache EXCEPT ![Here(l)] = slot]
      /\ CTypeOK /\ Here(l) \in Slot
      /\ cache[Here(l)].generation = Claimed
      /\ cache[Here(l)].address = call[l].address
      /\ cache[Here(l)].mask \subseteq {SubgroupOf[l]}
  BY HereInCache DEF OpenSlot, CInv, Owners, OwnerPc, InsertFacts
<1>2. cache[Here(l)] \in SlotType /\ generation \in Int
  BY <1>1 DEF CTypeOK, SlotType, RInv, RTypeOK
<1>3. /\ slot \in SlotType /\ slot.generation = generation /\ slot.generation <= generation
      /\ slot.address = call[l].address /\ slot.mask \subseteq {SubgroupOf[l]}
  BY <1>1, <1>2 DEF SlotType
<1> HIDE DEF slot
<1>4. /\ CTypeOK' /\ AbstractStep /\ generation' = generation
      /\ \A m \in Lane \ {l} : call'[m] = call[m]
      /\ \A m \in Lane : Here(m)' = Here(m)
      /\ call'[l].pc = "publish" /\ call'[l].address = call[l].address
      /\ cache'[Here(l)] = slot
      /\ \A s \in Slot : s # Here(l) => cache'[s] = cache[s]
  BY <1>1, <1>3, SlotWritten DEF Pc
<1>5. \A m \in Lane \ {l} : call[m].pc \in OwnerPc => Here(m) \in Slot /\ Here(m) # Here(l)
  BY <1>1, OwnersApart, HereInCache DEF OwnerPc
<1>6. Effect(l)
  <2>1. \A s \in Slot : IsCurrent(s) => s # Here(l)
    BY <1>1, NotClaimed DEF IsCurrent
  <2> QED BY <1>4, <1>5, <2>1 DEF Effect, IsCurrent
<1>7. Owners'
  <2>1. Owners
    BY DEF CInv
  <2>2. \A m \in Lane : call'[m].pc \in OwnerPc =>
          m # l /\ call[m].pc \in OwnerPc /\ Here(m) \in Slot /\ Here(m) # Here(l)
    BY <1>4, <1>5 DEF OwnerPc
  <2>3. (\A m \in Lane : call[m].pc \in OwnerPc => cache[Here(m)].generation = Claimed)'
    BY <1>4, <2>1, <2>2 DEF Owners
  <2>4. (\A s \in Slot : cache[s].generation = Claimed =>
           \E m \in Lane : call[m].pc \in OwnerPc /\ Here(m) = s)'
    <3> SUFFICES ASSUME NEW s \in Slot, cache'[s].generation = Claimed
                 PROVE  \E m \in Lane : call'[m].pc \in OwnerPc /\ Here(m)' = s
      OBVIOUS
    <3>1. s # Here(l)
      BY <1>1, <1>3, <1>4, NotClaimed
    <3>2. PICK m \in Lane : call[m].pc \in OwnerPc /\ Here(m) = s
      BY <1>4, <2>1, <3>1 DEF Owners
    <3>3. m # l
      BY <3>1, <3>2
    <3> QED BY <1>4, <3>2, <3>3
  <2>5. (\A m, n \in Lane :
           call[m].pc \in OwnerPc /\ call[n].pc \in OwnerPc /\ Here(m) = Here(n) => m = n)'
    BY <1>4, <2>1, <2>2 DEF Owners
  <2> QED BY <2>3, <2>4, <2>5 DEF Owners
<1>8. Masks'
  <2>1. \A p \in cache'[Here(l)].mask :
          /\ call'[l].pc = "publish" /\ SubgroupOf[l] = p
          /\ call'[l].address = cache'[Here(l)].address
    BY <1>3, <1>4
  <2> QED BY <1>1, <1>4, <1>6, <2>1, WrittenMasks
<1> QED BY <1>4, <1>6, <1>7, <1>8, IdleFacts DEF StepInv

LEMMA PublishRecordInv ==
  ASSUME CInv, NEW l \in Lane, PublishRecord(l)
  PROVE  StepInv(l)
<1>1. /\ call[l].pc = "publish" /\ Set(l, Idle) /\ cache' = cache /\ CTypeOK
      /\ Release(call[l].address, SubgroupOf[l], subgroup_epoch)
      /\ call[l].address \in Address
  BY DEF PublishRecord, CInv, CTypeOK
<1>2. \A a \in Address : Release(a, SubgroupOf[l], subgroup_epoch) =>
        AbstractStep /\ <<a, SubgroupOf[l], 0>> \in released'
  BY <1>1, ReleaseStep
<1>3. AbstractStep /\ \E e \in Epoch : <<call[l].address, SubgroupOf[l], e>> \in released'
  <2>1. AbstractStep /\ <<call[l].address, SubgroupOf[l], 0>> \in released'
    BY <1>1, <1>2
  <2>2. 0 \in Epoch
    BY BoundAssumption DEF Epoch
  <2> QED BY <2>1, <2>2
<1>4. Idle.pc = "idle"
  BY DEF Idle
<1>5. CTypeOK' /\ Owners' /\ Masks' /\ Effect(l) /\ call'[l] = Idle
  BY <1>1, <1>3, <1>4, CallIdle, CacheUntouched DEF OwnerPc
<1> QED BY <1>4, <1>5, IdleFacts DEF StepInv

LEMMA BeginAcquireInv ==
  ASSUME CInv, NEW l \in Lane, NEW a \in Address, BeginAcquire(l, a)
  PROVE  StepInv(l)
<1> DEFINE c == [Idle EXCEPT !.address = a, !.todo = Others(l),
                   !.pc = IF SubgroupCapacity > 2 THEN "look" ELSE "table",
                   !.owed = {r \in released : r[1] = a}]
<1>1. /\ call[l].pc = "idle" /\ Set(l, c) /\ cache' = cache /\ CTypeOK
      /\ UNCHANGED rvars /\ released' = released
  BY DEF BeginAcquire, CInv, rvars
<1>2. released \subseteq Records
  BY <1>1 DEF CTypeOK, RInv, RTypeOK, Records
<1>3. /\ c.address = a /\ c.todo = Others(l) /\ c.pc \in {"look", "table"}
      /\ c.owed = {r \in released : r[1] = a} /\ c.imported = {}
  BY DEF Idle
<1>4. c \in Calls
  BY <1>2, CallIdle DEF Calls, Pc, AcquirePc, LookPc, Idle, Others
<1> HIDE DEF c
<1>5. CTypeOK' /\ Owners' /\ Masks' /\ Effect(l) /\ call'[l] = c
  BY <1>1, <1>3, <1>4, NoStep, CacheUntouched DEF OwnerPc
<1>6. \A r \in c.owed : r[2] # SubgroupOf[l] => r[2] \in c.todo
  BY <1>2, <1>3 DEF Records, Others
<1>7. InsertFacts(l)' /\ AcquireFacts(l)'
  BY <1>1, <1>3, <1>5, <1>6 DEF InsertFacts, AcquireFacts, AcquirePc, LookPc
<1> QED BY <1>5, <1>7 DEF StepInv

\* An acquire that goes on reading its slot.
LEMMA LookOn ==
  ASSUME CInv, NEW l \in Lane, NEW pc \in LookPc, call[l].pc \in LookPc, Goto(l, pc),
         UNCHANGED <<rvars, cache>>
  PROVE  StepInv(l)
<1>1. pc \in Pc \ OwnerPc /\ call[l].pc \notin OwnerPc \cup {"idle", "publish"}
  BY DEF Pc, LookPc, AcquirePc, OwnerPc
<1>2. /\ CTypeOK' /\ Owners' /\ Masks' /\ Effect(l)
      /\ call'[l].pc = pc /\ call'[l].address = call[l].address
      /\ call'[l].imported = call[l].imported /\ call'[l].owed = call[l].owed
  BY <1>1, GotoMoves
<1>3. AcquireFacts(l) /\ released' = released
  BY DEF CInv, rvars
<1>4. InsertFacts(l)' /\ AcquireFacts(l)'
  BY <1>2, <1>3 DEF InsertFacts, AcquireFacts, AcquirePc, LookPc
<1> QED BY <1>2, <1>4 DEF StepInv

\* An acquire that gives the cache up.
LEMMA ToTableInv ==
  ASSUME CInv, NEW l \in Lane, call[l].pc \in LookPc, ToTable(l),
         UNCHANGED <<rvars, cache>>
  PROVE  StepInv(l)
<1> DEFINE c == [call[l] EXCEPT !.pc = "table", !.todo = Others(l)]
<1>1. call[l] \in Calls /\ released \subseteq Records /\ released' = released
  BY DEF CInv, CTypeOK, RInv, RTypeOK, Records, rvars
<1>2. /\ c \in Calls /\ c.pc = "table" /\ c.todo = Others(l)
      /\ c.address = call[l].address /\ c.owed = call[l].owed
  BY <1>1 DEF Calls, Pc, AcquirePc, Others
<1>3. Set(l, c)
  BY DEF ToTable
<1> HIDE DEF c
<1>4. CTypeOK' /\ Owners' /\ Masks' /\ Effect(l) /\ call'[l] = c
  BY <1>2, <1>3, CallMoves DEF LookPc, OwnerPc
<1>5. call[l].owed \subseteq {r \in released : r[1] = call[l].address}
  BY DEF CInv, AcquireFacts, AcquirePc
<1>6. \A r \in c.owed : r[2] # SubgroupOf[l] => r[2] \in c.todo
  BY <1>1, <1>2, <1>5 DEF Records, Others
<1>7. InsertFacts(l)' /\ AcquireFacts(l)'
  BY <1>1, <1>2, <1>4, <1>5, <1>6 DEF InsertFacts, AcquireFacts, AcquirePc, LookPc
<1> QED BY <1>4, <1>7 DEF StepInv

LEMMA LookGenerationInv ==
  ASSUME CInv, NEW l \in Lane, LookGeneration(l)
  PROVE  StepInv(l)
<1>1. call[l].pc \in LookPc /\ "look address" \in LookPc /\ UNCHANGED <<rvars, cache>>
  BY DEF LookGeneration, LookPc
<1>2. Goto(l, "look address") \/ ToTable(l)
  BY DEF LookGeneration
<1> QED BY <1>1, <1>2, LookOn, ToTableInv

LEMMA LookAddressInv ==
  ASSUME CInv, NEW l \in Lane, LookAddress(l)
  PROVE  StepInv(l)
<1>1. call[l].pc \in LookPc /\ "look mask" \in LookPc /\ UNCHANGED <<rvars, cache>>
  BY DEF LookAddress, LookPc
<1>2. Goto(l, "look mask") \/ ToTable(l)
  BY DEF LookAddress
<1> QED BY <1>1, <1>2, LookOn, ToTableInv

LEMMA LookMaskInv ==
  ASSUME CInv, NEW l \in Lane, LookMask(l)
  PROVE  StepInv(l)
<1> DEFINE todo == Others(l) \cap cache[Here(l)].mask
           c == [call[l] EXCEPT !.pc = "hits", !.todo = todo]
<1>1. /\ call[l].pc = "look mask" /\ Set(l, c) /\ UNCHANGED <<rvars, cache>>
      /\ call[l] \in Calls /\ AcquireFacts(l) /\ released' = released
  BY DEF LookMask, CInv, CTypeOK, rvars
<1>2. todo \in SUBSET Subgroup
  BY DEF Others
<1>3. /\ c \in Calls /\ c.pc = "hits" /\ c.imported = {}
      /\ c.address = call[l].address /\ c.owed = call[l].owed
  <2>1. call[l].imported = {}
    BY <1>1 DEF AcquireFacts, LookPc
  <2> HIDE DEF todo
  <2> QED BY <1>1, <1>2, <2>1 DEF Calls, Pc, AcquirePc
<1> HIDE DEF c
<1>4. CTypeOK' /\ Owners' /\ Masks' /\ Effect(l) /\ call'[l] = c
  BY <1>1, <1>3, CallMoves DEF OwnerPc
<1>5. InsertFacts(l)' /\ AcquireFacts(l)'
  BY <1>1, <1>3, <1>4 DEF InsertFacts, AcquireFacts, AcquirePc, LookPc
<1> QED BY <1>4, <1>5 DEF StepInv

LEMMA ImportHitInv ==
  ASSUME CInv, NEW l \in Lane, ImportHit(l)
  PROVE  StepInv(l)
<1>1. /\ call[l].pc = "hits" /\ cache' = cache /\ CTypeOK /\ call[l] \in Calls
      /\ AcquireFacts(l) /\ call[l].address \in Address /\ released \subseteq Records
  BY DEF ImportHit, CInv, CTypeOK, RInv, RTypeOK, Records
<1>2. call[l].owed \subseteq {r \in released : r[1] = call[l].address}
  BY <1>1 DEF AcquireFacts, AcquirePc
<1>3. \A r \in call[l].owed : r[2] \in call[l].imported => HasAcquired(l, r)
  BY <1>1 DEF AcquireFacts
<1>4. CASE /\ Set(l, [call[l] EXCEPT !.pc = "table", !.todo = NotImported(l)])
           /\ UNCHANGED rvars
  <2> DEFINE c == [call[l] EXCEPT !.pc = "table", !.todo = NotImported(l)]
  <2>1. NotImported(l) \in SUBSET Subgroup
    BY DEF NotImported, Others
  <2>2. /\ c \in Calls /\ c.pc = "table" /\ c.todo = NotImported(l)
        /\ c.address = call[l].address /\ c.owed = call[l].owed
    BY <1>1, <2>1 DEF Calls, Pc, AcquirePc
  <2> HIDE DEF c
  <2>3. Set(l, c)
    BY <1>4 DEF c
  <2>4. CTypeOK' /\ Owners' /\ Masks' /\ Effect(l) /\ call'[l] = c
    BY <1>1, <1>4, <2>2, <2>3, CallMoves DEF OwnerPc
  <2>5. \A r \in c.owed : r[2] # SubgroupOf[l] => r[2] \in c.todo \/ HasAcquired(l, r)
    BY <1>1, <1>2, <1>3, <2>2 DEF NotImported, Others, Records
  <2>6. \A r : HasAcquired(l, r) => HasAcquired(l, r)'
    BY <1>4 DEF HasAcquired, rvars
  <2>7. InsertFacts(l)' /\ AcquireFacts(l)'
    <3>1. released' = released
      BY <1>4 DEF rvars
    <3> QED BY <1>2, <2>2, <2>4, <2>5, <2>6, <3>1
            DEF InsertFacts, AcquireFacts, AcquirePc, LookPc
  <2> QED BY <2>4, <2>7 DEF StepInv
<1>5. ASSUME NEW p \in Subgroup, ImportNewest(l, p),
             Set(l, [call[l] EXCEPT !.todo = @ \ {p},
               !.imported = IF Released(call[l].address, p) # {} THEN @ \cup {p} ELSE @])
      PROVE  StepInv(l)
  <2> DEFINE todo == call[l].todo \ {p}
             imported == IF Released(call[l].address, p) # {}
                         THEN call[l].imported \cup {p} ELSE call[l].imported
             c == [call[l] EXCEPT !.todo = todo, !.imported = imported]
  <2>1. /\ todo \in SUBSET Subgroup /\ imported \in SUBSET Subgroup
        /\ imported \subseteq call[l].imported \cup {p}
    BY <1>1 DEF Calls
  <2>2. Set(l, c)
    BY <1>5
  <2> HIDE DEF todo, imported
  <2>3. /\ c \in Calls /\ c.pc = "hits" /\ c.imported = imported
        /\ c.address = call[l].address /\ c.owed = call[l].owed
    BY <1>1, <2>1 DEF Calls
  <2> HIDE DEF c
  <2>4. /\ AbstractStep /\ released' = released
        /\ \A r \in released : r[1] = call[l].address /\ r[2] = p =>
             acquired_token'[SubgroupOf[l]][p] >= r[3] + 1
    BY <1>1, <1>5, ImportStep
  <2>5. CTypeOK' /\ Owners' /\ Masks' /\ Effect(l) /\ call'[l] = c
    BY <1>1, <2>2, <2>3, <2>4, CacheUntouched DEF OwnerPc
  <2>6. \A r \in released : HasAcquired(l, r) => HasAcquired(l, r)'
    BY <1>1, <2>4, AcquiredKept
  <2>7. \A r \in released : r[1] = call[l].address /\ r[2] = p => HasAcquired(l, r)'
    BY <2>4 DEF HasAcquired
  <2>8. \A r \in c.owed : r[2] \in c.imported => HasAcquired(l, r)'
    BY <1>2, <1>3, <2>1, <2>3, <2>6, <2>7
  <2>9. InsertFacts(l)' /\ AcquireFacts(l)'
    BY <1>2, <2>3, <2>4, <2>5, <2>8 DEF InsertFacts, AcquireFacts, AcquirePc, LookPc
  <2> QED BY <2>5, <2>9 DEF StepInv
<1> QED BY <1>4, <1>5 DEF ImportHit

LEMMA ImportRestInv ==
  ASSUME CInv, NEW l \in Lane, ImportRest(l)
  PROVE  StepInv(l)
<1>1. /\ call[l].pc = "table" /\ cache' = cache /\ CTypeOK /\ call[l] \in Calls
      /\ AcquireFacts(l) /\ call[l].address \in Address
  BY DEF ImportRest, CInv, CTypeOK
<1>2. /\ call[l].owed \subseteq {r \in released : r[1] = call[l].address}
      /\ \A r \in call[l].owed :
           r[2] # SubgroupOf[l] => r[2] \in call[l].todo \/ HasAcquired(l, r)
  BY <1>1 DEF AcquireFacts, AcquirePc
<1>3. CASE Set(l, Idle) /\ UNCHANGED rvars
  <2>1. Idle.pc = "idle"
    BY DEF Idle
  <2>2. CTypeOK' /\ Owners' /\ Masks' /\ Effect(l) /\ call'[l] = Idle
    BY <1>1, <1>3, <2>1, NoStep, CallIdle, CacheUntouched DEF OwnerPc
  <2> QED BY <2>1, <2>2, IdleFacts DEF StepInv
<1>4. ASSUME NEW p \in Subgroup, ImportNewest(l, p),
             Set(l, [call[l] EXCEPT !.todo = @ \ {p}])
      PROVE  StepInv(l)
  <2> DEFINE todo == call[l].todo \ {p}
             c == [call[l] EXCEPT !.todo = todo]
  <2>1. todo \in SUBSET Subgroup
    BY <1>1 DEF Calls
  <2>2. Set(l, c)
    BY <1>4
  <2>3. /\ c \in Calls /\ c.pc = "table" /\ c.todo = call[l].todo \ {p}
        /\ c.address = call[l].address /\ c.owed = call[l].owed
    BY <1>1, <2>1 DEF Calls
  <2> HIDE DEF c
  <2>4. /\ AbstractStep /\ released' = released
        /\ \A r \in released : r[1] = call[l].address /\ r[2] = p =>
             acquired_token'[SubgroupOf[l]][p] >= r[3] + 1
    BY <1>1, <1>4, ImportStep
  <2>5. CTypeOK' /\ Owners' /\ Masks' /\ Effect(l) /\ call'[l] = c
    BY <1>1, <2>2, <2>3, <2>4, CacheUntouched DEF OwnerPc
  <2>6. \A r \in released : HasAcquired(l, r) => HasAcquired(l, r)'
    BY <1>1, <2>4, AcquiredKept
  <2>7. \A r \in released : r[1] = call[l].address /\ r[2] = p => HasAcquired(l, r)'
    BY <2>4 DEF HasAcquired
  <2>8. \A r \in c.owed : r[2] # SubgroupOf[l] => r[2] \in c.todo \/ HasAcquired(l, r)'
    BY <1>2, <2>3, <2>6, <2>7
  <2>9. InsertFacts(l)' /\ AcquireFacts(l)'
    BY <1>2, <2>3, <2>4, <2>5, <2>8 DEF InsertFacts, AcquireFacts, AcquirePc, LookPc
  <2> QED BY <2>5, <2>9 DEF StepInv
<1> QED BY <1>3, <1>4 DEF ImportRest

-------------------------------------------------------------------------------
\* Every step

\* What a step of a lane establishes is the invariant.
LEMMA StepKeeps ==
  ASSUME CInv, NEW l \in Lane, StepInv(l)
  PROVE  CInv'
<1>1. \A m \in Lane : m # l => InsertFacts(m)' /\ AcquireFacts(m)'
  BY OthersKeep DEF StepInv
<1> QED BY <1>1 DEF StepInv, CInv

LEMMA LaneSteps ==
  ASSUME CInv, NEW l \in Lane, Step(l)
  PROVE  StepInv(l)
BY InspectSlotInv, CompareSlotInv, MarkProducerInv, ClaimSlotInv, FillSlotInv,
   OpenSlotInv, PublishRecordInv, LookGenerationInv, LookAddressInv, LookMaskInv,
   ImportHitInv, ImportRestInv DEF Step

\* A step of the composition is one of a lane, or one between calls.
LEMMA NextCases ==
  ASSUME CInv, Next
  PROVE  (\E l \in Lane : StepInv(l)) \/ EndEpoch \/ NextLaunch
<1>1. Storers \subseteq Lane /\ Updaters \subseteq Lane /\ Acquirers \subseteq Lane
  OBVIOUS
<1>2. CASE \E l \in Storers, a \in Address : PlainRelease(l, a)
  BY <1>1, <1>2, PlainReleaseInv
<1>3. CASE \E l \in Updaters, a \in Address : BeginRelease(l, a)
  BY <1>1, <1>3, BeginReleaseInv
<1>4. CASE \E l \in Acquirers, a \in Address : BeginAcquire(l, a)
  BY <1>1, <1>4, BeginAcquireInv
<1>5. CASE \E l \in Lane : Step(l)
  BY <1>5, LaneSteps
<1> QED BY <1>2, <1>3, <1>4, <1>5 DEF Next

LEMMA EndEpochInv ==
  ASSUME CInv, EndEpoch
  PROVE  CInv' /\ AbstractStep
<1>1. /\ \A l \in Lane : call[l].pc = "idle"
      /\ cache' = cache /\ call' = call /\ generation' = generation /\ released' = released
      /\ RNext /\ CTypeOK
  BY DEF EndEpoch, Quiet, Barrier, CInv, RNext
<1>2. AbstractStep
  BY <1>1 DEF AbstractStep
<1>3. RInv'
  BY <1>1, RNextInv DEF CTypeOK
<1>4. CTypeOK'
  BY <1>1, <1>3 DEF CTypeOK
<1>5. Owners'
  BY <1>1 DEF CInv, Owners, Here
<1>6. \A l \in Lane : InsertFacts(l)' /\ AcquireFacts(l)'
  BY <1>1 DEF InsertFacts, AcquireFacts, AcquirePc, LookPc
<1>7. Masks'
  BY <1>1 DEF CInv, Masks, IsCurrent, IsBacked, Released
<1> QED BY <1>2, <1>4, <1>5, <1>6, <1>7 DEF CInv

LEMMA NextLaunchInv ==
  ASSUME CInv, NextLaunch
  PROVE  CInv' /\ RNext /\ generation' # generation
<1>1. /\ \A l \in Lane : call[l].pc = "idle"
      /\ cache' = cache /\ call' = call /\ generation' = generation + 1
      /\ RNext /\ CTypeOK /\ generation \in Int
  BY DEF NextLaunch, Quiet, Launch, CInv, RNext, CTypeOK, RInv, RTypeOK
<1>2. RInv'
  BY <1>1, RNextInv DEF CTypeOK
<1>3. \A s \in Slot : cache[s].generation \in Int /\ cache[s].generation <= generation
  BY <1>1 DEF CTypeOK, SlotType
<1>4. CTypeOK'
  BY <1>1, <1>2, <1>3 DEF CTypeOK
<1>5. Owners'
  BY <1>1 DEF CInv, Owners, Here
<1>6. \A l \in Lane : InsertFacts(l)' /\ AcquireFacts(l)'
  BY <1>1 DEF InsertFacts, AcquireFacts, AcquirePc, LookPc
<1>7. Masks'
  BY <1>1, <1>3 DEF Masks, IsCurrent
<1> QED BY <1>1, <1>4, <1>5, <1>6, <1>7 DEF CInv

LEMMA CInitInv == Init => CInv
<1> SUFFICES ASSUME Init
             PROVE  CInv
  OBVIOUS
<1>1. RInv /\ generation = 1 /\ cache = [s \in Slot |-> ZeroSlot]
      /\ call = [l \in Lane |-> Idle]
  BY RInitInv DEF Init, RInit
<1>2. /\ \A s \in Slot : cache[s].generation = 0 /\ cache[s] \in SlotType
      /\ \A l \in Lane : call[l].pc = "idle"
  BY <1>1 DEF ZeroSlot, SlotType, Idle
<1>3. CTypeOK
  BY <1>1, <1>2, CallIdle DEF CTypeOK, SlotType
<1>4. Owners
  BY <1>2 DEF Owners, OwnerPc, Claimed
<1>5. Masks
  BY <1>1, <1>2 DEF Masks, IsCurrent
<1>6. \A l \in Lane : InsertFacts(l) /\ AcquireFacts(l)
  BY <1>2 DEF InsertFacts, AcquireFacts, AcquirePc, LookPc
<1> QED BY <1>3, <1>4, <1>5, <1>6 DEF CInv

LEMMA CNextInv == CInv /\ [Next]_vars => CInv'
<1> SUFFICES ASSUME CInv, [Next]_vars
             PROVE  CInv'
  OBVIOUS
<1>1. CASE Next
  BY <1>1, NextCases, StepKeeps, EndEpochInv, NextLaunchInv
<1>2. CASE UNCHANGED vars
  <2>1. UNCHANGED rvars /\ cache' = cache /\ call' = call /\ UNCHANGED <<generation, released>>
    BY <1>2 DEF vars, rvars
  <2>2. CTypeOK'
    <3>1. RInv'
      BY <2>1, RNextInv DEF CInv, CTypeOK
    <3> QED BY <2>1, <3>1 DEF CInv, CTypeOK
  <2>3. Owners' /\ Masks'
    BY <2>1 DEF CInv, Owners, Masks, IsBacked, Released, IsCurrent, Here
  <2>4. \A l \in Lane : InsertFacts(l)'
    BY <2>1 DEF CInv, InsertFacts, IsCurrent, Here
  <2>5. \A l \in Lane : AcquireFacts(l)'
    BY <2>1 DEF CInv, AcquireFacts, HasAcquired, rvars
  <2> QED BY <2>2, <2>3, <2>4, <2>5 DEF CInv
<1> QED BY <1>1, <1>2

-------------------------------------------------------------------------------
\* The invariant: who owns a claimed slot, what backs a mask, and what an
\* acquire still owes.
THEOREM CacheInvariance == Spec => []CInv
<1> QED BY CInitInv, CNextInv, PTL DEF Spec

\* The module is built on the actions of ReleaseRecords, so that its behaviours
\* are theirs: what is proved of the promise may be cited (context.hpp:887-936).
LEMMA CacheKeepsPromise == Spec => RSpec
<1>1. Init => RInit
  BY DEF Init
<1>2. CInv /\ [Next]_vars => [RNext]_rvars
  <2> SUFFICES ASSUME CInv, [Next]_vars
               PROVE  [RNext]_rvars
    OBVIOUS
  <2>1. CASE Next
    BY <2>1, NextCases, EndEpochInv, NextLaunchInv DEF StepInv, Effect, AbstractStep
  <2>2. CASE UNCHANGED vars
    BY <2>2 DEF vars
  <2> QED BY <2>1, <2>2
<1> QED BY <1>1, <1>2, CacheInvariance, PTL DEF Spec, RSpec

\* So no acquire invents an epoch here either (context.hpp:966-983).
THEOREM CachedTokensBacked == Spec => []TokensBacked
<1> QED BY CacheKeepsPromise, EveryTokenBacked

\* A claimed slot has exactly one owner (context.hpp:819-837).
THEOREM ClaimedOnce == Spec => []SlotsOwned
<1>1. CInv => SlotsOwned
  <2> SUFFICES ASSUME CInv, NEW s \in Slot, cache[s].generation = Claimed
               PROVE  Cardinality({l \in Lane : call[l].pc \in OwnerPc /\ Here(l) = s}) = 1
    BY DEF SlotsOwned, OwnerPc
  <2>1. PICK l \in Lane : call[l].pc \in OwnerPc /\ Here(l) = s
    BY DEF CInv, Owners
  <2>2. {m \in Lane : call[m].pc \in OwnerPc /\ Here(m) = s} = {l}
    BY <2>1 DEF CInv, Owners
  <2> QED BY <2>2, FS_Singleton
<1> QED BY <1>1, CacheInvariance, PTL

\* A slot of this launch names only producers of this launch
\* (context.hpp:834-837).
THEOREM MasksBacked == Spec => []MaskBacked
<1>1. CInv => MaskBacked
  BY DEF CInv, Masks, IsBacked, MaskBacked
<1> QED BY <1>1, CacheInvariance, PTL

\* An open slot keeps its address and its producers while the launch lasts,
\* so the three reads of a consultation fit together (context.hpp:908-922).
THEOREM OpenSlotsStay == Spec => OpenSlotsKept
<1> DEFINE Kept == generation' = generation => \A s \in Slot : IsCurrent(s) =>
             /\ cache'[s].generation = generation
             /\ cache'[s].address = cache[s].address
             /\ cache[s].mask \subseteq cache'[s].mask
<1>1. CInv /\ [Next]_vars => [Kept]_vars
  <2> SUFFICES ASSUME CInv, Next, generation' = generation
               PROVE  Kept
    OBVIOUS
  <2>1. CASE \E l \in Lane : StepInv(l)
    BY <2>1 DEF StepInv, Effect, IsCurrent
  <2>2. CASE EndEpoch
    BY <2>2 DEF EndEpoch, IsCurrent
  <2>3. CASE NextLaunch
    BY <2>3, NextLaunchInv
  <2> QED BY <2>1, <2>2, <2>3, NextCases
<1> QED BY <1>1, CacheInvariance, PTL DEF Spec, OpenSlotsKept

\* Whatever the cache said, an acquire returns with every release that was
\* published at its address when it began (context.hpp:887-936).
THEOREM NoReleaseMissed == Spec => AcquireComplete
<1> DEFINE Complete == \A l \in Lane : call[l].pc = "table" /\ call'[l].pc = "idle" =>
             \A r \in call[l].owed : r[2] # SubgroupOf[l] =>
               acquired_token'[SubgroupOf[l]][r[2]] >= r[3] + 1
<1>1. CInv /\ [Next]_vars => [Complete]_vars
  <2> SUFFICES ASSUME CInv, Next, NEW l \in Lane,
                      call[l].pc = "table", call'[l].pc = "idle",
                      NEW r \in call[l].owed, r[2] # SubgroupOf[l]
               PROVE  acquired_token'[SubgroupOf[l]][r[2]] >= r[3] + 1
    OBVIOUS
  <2>1. ASSUME NEW m \in Lane, m # l PROVE ~StepInv(m)
    <3>1. StepInv(m) => call'[l] = call[l]
      BY <2>1 DEF StepInv, Effect
    <3> QED BY <3>1
  <2>2. ImportRest(l)
    <3>1. CASE \E m \in Storers, a \in Address : PlainRelease(m, a)
      BY <3>1 DEF PlainRelease
    <3>2. ASSUME NEW m \in Updaters, NEW a \in Address, BeginRelease(m, a)
          PROVE  FALSE
      <4>1. m \in Lane
        OBVIOUS
      <4>2. m # l
        BY <3>2 DEF BeginRelease
      <4> QED BY <2>1, <3>2, <4>1, <4>2, BeginReleaseInv
    <3>3. ASSUME NEW m \in Acquirers, NEW a \in Address, BeginAcquire(m, a)
          PROVE  FALSE
      <4>1. m \in Lane
        OBVIOUS
      <4>2. m # l
        BY <3>3 DEF BeginAcquire
      <4> QED BY <2>1, <3>3, <4>1, <4>2, BeginAcquireInv
    <3>4. ASSUME NEW m \in Lane, Step(m)
          PROVE  ImportRest(l)
      <4>1. m = l
        BY <2>1, <3>4, LaneSteps
      <4> QED BY <3>4, <4>1 DEF Step, InspectSlot, CompareSlot, MarkProducer, ClaimSlot,
                 FillSlot, OpenSlot, PublishRecord, LookGeneration, LookAddress, LookMask,
                 ImportHit
    <3>5. CASE EndEpoch \/ NextLaunch
      BY <3>5 DEF EndEpoch, NextLaunch
    <3> QED BY <3>1, <3>2, <3>3, <3>4, <3>5 DEF Next
  <2>3. call[l].todo = {} /\ UNCHANGED rvars
    <3>1. call \in [Lane -> Calls] /\ call[l] \in Calls
      BY DEF CInv, CTypeOK
    <3>2. ASSUME NEW p \in Subgroup, Set(l, [call[l] EXCEPT !.todo = @ \ {p}])
          PROVE  FALSE
      BY <3>1, <3>2 DEF Set, Calls
    <3> QED BY <2>2, <3>2 DEF ImportRest
  <2> QED BY <2>3 DEF CInv, AcquireFacts, HasAcquired, rvars
<1> QED BY <1>1, CacheInvariance, PTL DEF Spec, AcquireComplete
-------------------------------------------------------------------------------
\* How far a call still has to go

LEMMA RankIs ==
  ASSUME NEW c
  PROVE  /\ c.pc = "idle" => Rank(c) = 0
         /\ c.pc = "inspect" => Rank(c) = 2 * (CacheAttempts - c.attempt) + 5
         /\ c.pc = "claim" => Rank(c) = 2 * (CacheAttempts - c.attempt) + 4
         /\ c.pc \in {"compare", "fill"} => Rank(c) = 3
         /\ c.pc \in {"mark", "open"} => Rank(c) = 2
         /\ c.pc = "publish" => Rank(c) = 1
         /\ c.pc = "look" => Rank(c) = 2 * SubgroupCapacity + 5
         /\ c.pc = "look address" => Rank(c) = 2 * SubgroupCapacity + 4
         /\ c.pc = "look mask" => Rank(c) = 2 * SubgroupCapacity + 3
         /\ c.pc = "hits" => Rank(c) = Cardinality(c.todo) + SubgroupCapacity + 2
         /\ c.pc = "table" => Rank(c) = Cardinality(c.todo) + 1
BY DEF Rank

\* A lane never has more producers to look up than there are subgroups.
LEMMA ToDoSize ==
  ASSUME NEW todo \in SUBSET Subgroup
  PROVE  /\ IsFiniteSet(todo) /\ Cardinality(todo) \in 0 .. SubgroupCapacity
         /\ \A p \in todo : Cardinality(todo \ {p}) = Cardinality(todo) - 1
<1>1. SubgroupCapacity \in Nat /\ Subgroup = 0 .. SubgroupCapacity - 1
  BY SubgroupAssumption
<1>2. IsFiniteSet(Subgroup) /\ Cardinality(Subgroup) = SubgroupCapacity
  BY <1>1, FS_Interval, 0 \in Int, SubgroupCapacity - 1 \in Int
<1>3. IsFiniteSet(todo) /\ Cardinality(todo) \in Nat /\ Cardinality(todo) <= SubgroupCapacity
  BY <1>2, FS_Subset, FS_CardinalityType
<1>4. \A p \in todo : Cardinality(todo \ {p}) = Cardinality(todo) - 1
  BY <1>3, FS_RemoveElement
<1> QED BY <1>1, <1>3, <1>4

\* The attempts of an insertion are counted.
Budget(c) == c.pc \in {"inspect", "claim"} => c.attempt \in 1 .. CacheAttempts

LEMMA AttemptsLeft ==
  ASSUME NEW c, Budget(c), c.pc \in {"inspect", "claim"}
  PROVE  /\ CacheAttempts - c.attempt \in 0 .. CacheAttempts - 1
         /\ Rank(c) \in Nat /\ Rank(c) > 3
<1>1. c.attempt \in 1 .. CacheAttempts
  BY DEF Budget
<1>2. CacheAttempts - c.attempt \in 0 .. CacheAttempts - 1
  BY <1>1
<1> DEFINE left == CacheAttempts - c.attempt
<1>3. Rank(c) \in {2 * left + 5, 2 * left + 4}
  BY RankIs
<1> HIDE DEF left
<1>4. left \in Nat
  BY <1>2 DEF left
<1> QED BY <1>2, <1>3, <1>4

\* d is a later stage of call c.
Closer(c, d) == Budget(d) /\ Rank(d) \in 0 .. Rank(c) - 1

\* The steps that need no attempt.
Forward(from, to) ==
  \/ from \in {"inspect", "claim"} /\ to \in {"compare", "fill", "publish"}
  \/ from = "compare" /\ to \in {"mark", "publish"}
  \/ from = "fill" /\ to = "open"
  \/ from \in {"mark", "open"} /\ to = "publish"
  \/ from = "look" /\ to = "look address"
  \/ from = "look address" /\ to = "look mask"

LEMMA GotoRank ==
  ASSUME NEW c, NEW d, Budget(c), Forward(c.pc, d.pc)
  PROVE  Closer(c, d)
<1>1. SubgroupCapacity \in Nat
  BY SubgroupAssumption
<1>2. c.pc \in {"inspect", "claim"} => Rank(c) \in Nat /\ Rank(c) > 3
  BY AttemptsLeft
<1>3. /\ c.pc \in {"compare", "fill"} => Rank(c) = 3
      /\ c.pc \in {"mark", "open"} => Rank(c) = 2
      /\ c.pc = "look" => Rank(c) = 2 * SubgroupCapacity + 5
      /\ c.pc = "look address" => Rank(c) = 2 * SubgroupCapacity + 4
  BY RankIs
<1>4. /\ d.pc \in {"compare", "fill"} => Rank(d) = 3
      /\ d.pc \in {"mark", "open"} => Rank(d) = 2
      /\ d.pc = "publish" => Rank(d) = 1
      /\ d.pc = "look address" => Rank(d) = 2 * SubgroupCapacity + 4
      /\ d.pc = "look mask" => Rank(d) = 2 * SubgroupCapacity + 3
  BY RankIs
<1>5. Rank(d) \in 0 .. Rank(c) - 1
  <2>1. CASE c.pc \in {"inspect", "claim"}
    <3>1. Rank(d) \in {1, 3}
      BY <1>4, <2>1 DEF Forward
    <3> QED BY <1>2, <2>1, <3>1
  <2>2. CASE c.pc \in {"compare", "fill"}
    <3>1. Rank(c) = 3 /\ Rank(d) \in {1, 2}
      BY <1>3, <1>4, <2>2 DEF Forward
    <3> QED BY <3>1
  <2>3. CASE c.pc \in {"mark", "open"}
    <3>1. Rank(c) = 2 /\ Rank(d) = 1
      BY <1>3, <1>4, <2>3 DEF Forward
    <3> QED BY <3>1
  <2>4. CASE c.pc \in {"look", "look address"}
    <3>1. \/ Rank(c) = 2 * SubgroupCapacity + 5 /\ Rank(d) = 2 * SubgroupCapacity + 4
          \/ Rank(c) = 2 * SubgroupCapacity + 4 /\ Rank(d) = 2 * SubgroupCapacity + 3
      BY <1>3, <1>4, <2>4 DEF Forward
    <3> QED BY <1>1, <3>1
  <2> QED BY <2>1, <2>2, <2>3, <2>4 DEF Forward
<1>6. Budget(d)
  BY DEF Budget, Forward
<1> QED BY <1>5, <1>6 DEF Closer

LEMMA GotoCloser ==
  ASSUME CInv, NEW l \in Lane, Budget(call[l]), NEW pc, Goto(l, pc),
         Forward(call[l].pc, pc)
  PROVE  Closer(call[l], call'[l])
<1>1. /\ call[l] \in Calls
      /\ call'[l] = [call[l] EXCEPT !.pc = pc, !.attempt = 0, !.seen = 0]
  BY DEF CInv, CTypeOK, Goto, Set
<1>2. call'[l].pc = pc
  BY <1>1 DEF Calls
<1> QED BY <1>2, GotoRank

\* A failed attempt is used up.
LEMMA RetryRank ==
  ASSUME NEW c, NEW d, Budget(c), c.pc \in {"inspect", "claim"}, d.pc = "inspect",
         c.attempt < CacheAttempts, d.attempt = c.attempt + 1
  PROVE  Closer(c, d)
<1>1. c.attempt \in 1 .. CacheAttempts
  BY DEF Budget
<1>2. /\ Rank(d) = 2 * (CacheAttempts - d.attempt) + 5
      /\ Rank(c) \in {2 * (CacheAttempts - c.attempt) + 4, 2 * (CacheAttempts - c.attempt) + 5}
  BY RankIs
<1>3. Rank(d) \in 0 .. Rank(c) - 1
  BY <1>1, <1>2
<1>4. Budget(d)
  BY <1>1 DEF Budget
<1> QED BY <1>3, <1>4 DEF Closer

LEMMA RetryCloser ==
  ASSUME CInv, NEW l \in Lane, Budget(call[l]), call[l].pc \in {"inspect", "claim"}, Retry(l)
  PROVE  Closer(call[l], call'[l])
<1>1. CASE call[l].attempt < CacheAttempts
  <2>1. /\ call[l] \in Calls
        /\ call'[l] = [call[l] EXCEPT !.pc = "inspect", !.attempt = @ + 1, !.seen = 0]
    BY <1>1 DEF CInv, CTypeOK, Retry, Set
  <2>2. call'[l].pc = "inspect" /\ call'[l].attempt = call[l].attempt + 1
    BY <2>1 DEF Calls
  <2> QED BY <1>1, <2>2, RetryRank
<1>2. CASE ~(call[l].attempt < CacheAttempts)
  BY <1>2, GotoCloser DEF Forward, Retry
<1> QED BY <1>1, <1>2

\* A producer is off the list of an acquire, or one list is done.
LEMMA AcquireCloser ==
  ASSUME NEW c, NEW d, c.todo \in SUBSET Subgroup, d.todo \in SUBSET Subgroup,
         \/ c.pc \in LookPc /\ d.pc \in {"hits", "table"}
         \/ c.pc = "hits" /\ d.pc = "table"
         \/ c.pc \in {"hits", "table"} /\ d.pc = c.pc /\ \E p \in c.todo : d.todo = c.todo \ {p}
         \/ c.pc = "table" /\ d.pc = "idle"
  PROVE  Closer(c, d)
<1>1. SubgroupCapacity \in Nat
  BY SubgroupAssumption
<1>2. Cardinality(c.todo) \in 0 .. SubgroupCapacity /\ Cardinality(d.todo) \in 0 .. SubgroupCapacity
  BY ToDoSize
<1>3. \A p \in c.todo : Cardinality(c.todo \ {p}) = Cardinality(c.todo) - 1
  BY ToDoSize
<1>4. Budget(d)
  BY DEF Budget, LookPc
<1>5. CASE c.pc \in LookPc /\ d.pc \in {"hits", "table"}
  <2>1. Rank(c) \in {2 * SubgroupCapacity + 5, 2 * SubgroupCapacity + 4, 2 * SubgroupCapacity + 3}
    BY <1>5, RankIs DEF LookPc
  <2>2. Rank(d) \in {Cardinality(d.todo) + SubgroupCapacity + 2, Cardinality(d.todo) + 1}
    BY <1>5, RankIs
  <2>3. Rank(d) \in 0 .. Rank(c) - 1
    BY <1>1, <1>2, <2>1, <2>2
  <2> QED BY <1>4, <2>3 DEF Closer
<1>6. CASE c.pc = "hits" /\ d.pc = "table"
  <2>1. Rank(c) = Cardinality(c.todo) + SubgroupCapacity + 2 /\ Rank(d) = Cardinality(d.todo) + 1
    BY <1>6, RankIs
  <2>2. Rank(d) \in 0 .. Rank(c) - 1
    BY <1>1, <1>2, <2>1
  <2> QED BY <1>4, <2>2 DEF Closer
<1>7. ASSUME c.pc \in {"hits", "table"}, d.pc = c.pc, NEW p \in c.todo, d.todo = c.todo \ {p}
      PROVE  Closer(c, d)
  <2>1. Cardinality(d.todo) = Cardinality(c.todo) - 1
    BY <1>3, <1>7
  <2>2. \/ /\ Rank(c) = Cardinality(c.todo) + SubgroupCapacity + 2
           /\ Rank(d) = Cardinality(d.todo) + SubgroupCapacity + 2
        \/ Rank(c) = Cardinality(c.todo) + 1 /\ Rank(d) = Cardinality(d.todo) + 1
    BY <1>7, RankIs
  <2>3. Rank(d) \in 0 .. Rank(c) - 1
    BY <1>1, <1>2, <2>1, <2>2
  <2> QED BY <1>4, <2>3 DEF Closer
<1>8. CASE c.pc = "table" /\ d.pc = "idle"
  <2>1. Rank(c) = Cardinality(c.todo) + 1 /\ Rank(d) = 0
    BY <1>8, RankIs
  <2>2. Rank(d) \in 0 .. Rank(c) - 1
    BY <1>2, <2>1
  <2> QED BY <1>4, <2>2 DEF Closer
<1> QED BY <1>5, <1>6, <1>7, <1>8

LEMMA StepCloser ==
  ASSUME CInv, NEW l \in Lane, Budget(call[l]), Step(l), call'[l] # call[l]
  PROVE  Closer(call[l], call'[l])
<1> DEFINE c == call[l]
<1>1. c \in Calls /\ Others(l) \in SUBSET Subgroup /\ c.todo \in SUBSET Subgroup
  BY DEF CInv, CTypeOK, Calls, Others
<1>2. \A d : Set(l, d) => call'[l] = d
  BY DEF CInv, CTypeOK, Set
<1>3. CASE InspectSlot(l)
  <2>1. CASE Goto(l, "compare")
    BY <1>3, <2>1, GotoCloser DEF Forward, InspectSlot
  <2>2. CASE Retry(l)
    BY <1>3, <2>2, RetryCloser DEF InspectSlot
  <2>3. CASE Set(l, [c EXCEPT !.pc = "claim", !.seen = cache[Here(l)].generation])
    <3> DEFINE d == call'[l]
    <3>1. c.pc = "inspect" /\ d.pc = "claim" /\ d.attempt = c.attempt
      BY <1>1, <1>2, <1>3, <2>3 DEF InspectSlot, Calls
    <3>2. c.attempt \in 1 .. CacheAttempts
      BY <3>1 DEF Budget
    <3>3. /\ Rank(c) = 2 * (CacheAttempts - c.attempt) + 5
          /\ Rank(d) = 2 * (CacheAttempts - d.attempt) + 4
      BY <3>1, RankIs
    <3> HIDE DEF c, d
    <3>4. Rank(d) \in 0 .. Rank(c) - 1
      BY <3>1, <3>2, <3>3
    <3>5. Budget(d)
      BY <3>1, <3>2 DEF Budget
    <3> QED BY <3>4, <3>5 DEF Closer, c, d
  <2> QED BY <1>3, <2>1, <2>2, <2>3 DEF InspectSlot
<1>4. CASE CompareSlot(l)
  BY <1>4, GotoCloser DEF Forward, CompareSlot
<1>5. CASE MarkProducer(l)
  BY <1>5, GotoCloser DEF Forward, MarkProducer
<1>6. CASE ClaimSlot(l)
  <2>1. CASE Goto(l, "fill")
    BY <1>6, <2>1, GotoCloser DEF Forward, ClaimSlot
  <2>2. CASE Retry(l)
    BY <1>6, <2>2, RetryCloser DEF ClaimSlot
  <2> QED BY <1>6, <2>1, <2>2 DEF ClaimSlot
<1>7. CASE FillSlot(l)
  BY <1>7, GotoCloser DEF Forward, FillSlot
<1>8. CASE OpenSlot(l)
  BY <1>8, GotoCloser DEF Forward, OpenSlot
<1>9. CASE PublishRecord(l)
  <2>1. c.pc = "publish" /\ call'[l].pc = "idle"
    BY <1>2, <1>9 DEF PublishRecord, Idle
  <2>2. Rank(c) = 1 /\ Rank(call'[l]) = 0
    BY <2>1, RankIs
  <2> QED BY <2>1, <2>2 DEF Closer, Budget
<1>10. CASE LookGeneration(l)
  <2>1. CASE Goto(l, "look address")
    BY <1>10, <2>1, GotoCloser DEF Forward, LookGeneration
  <2>2. CASE ToTable(l)
    <3>1. c.pc = "look" /\ call'[l].pc = "table" /\ call'[l].todo = Others(l)
      BY <1>1, <1>2, <1>10, <2>2 DEF LookGeneration, ToTable, Calls
    <3> QED BY <1>1, <3>1, AcquireCloser DEF LookPc
  <2> QED BY <1>10, <2>1, <2>2 DEF LookGeneration
<1>11. CASE LookAddress(l)
  <2>1. CASE Goto(l, "look mask")
    BY <1>11, <2>1, GotoCloser DEF Forward, LookAddress
  <2>2. CASE ToTable(l)
    <3>1. c.pc = "look address" /\ call'[l].pc = "table" /\ call'[l].todo = Others(l)
      BY <1>1, <1>2, <1>11, <2>2 DEF LookAddress, ToTable, Calls
    <3> QED BY <1>1, <3>1, AcquireCloser DEF LookPc
  <2> QED BY <1>11, <2>1, <2>2 DEF LookAddress
<1>12. CASE LookMask(l)
  <2>1. /\ c.pc = "look mask" /\ call'[l].pc = "hits"
        /\ call'[l].todo = Others(l) \cap cache[Here(l)].mask
    BY <1>1, <1>2, <1>12 DEF LookMask, Calls
  <2> QED BY <1>1, <2>1, AcquireCloser DEF LookPc
<1>13. CASE ImportHit(l)
  <2>1. c.pc = "hits"
    BY <1>13 DEF ImportHit
  <2>2. CASE Set(l, [c EXCEPT !.pc = "table", !.todo = NotImported(l)])
    <3>1. call'[l].pc = "table" /\ call'[l].todo = NotImported(l)
      BY <1>1, <1>2, <2>2 DEF Calls
    <3> QED BY <1>1, <2>1, <3>1, AcquireCloser DEF NotImported, LookPc
  <2>3. ASSUME NEW p \in Subgroup, IsNext(l, p),
               Set(l, [c EXCEPT !.todo = @ \ {p},
                 !.imported = IF Released(c.address, p) # {} THEN @ \cup {p} ELSE @])
        PROVE  Closer(c, call'[l])
    <3>1. call'[l].pc = c.pc /\ call'[l].todo = c.todo \ {p} /\ p \in c.todo
      BY <1>1, <1>2, <2>3 DEF IsNext, Calls
    <3>2. call'[l].todo \in SUBSET Subgroup
      BY <1>1, <3>1 DEF Calls
    <3> QED BY <2>1, <3>1, <3>2, AcquireCloser DEF LookPc
  <2> QED BY <1>13, <2>2, <2>3 DEF ImportHit
<1>14. CASE ImportRest(l)
  <2>1. c.pc = "table"
    BY <1>14 DEF ImportRest
  <2>2. CASE Set(l, Idle)
    <3>1. call'[l].pc = "idle" /\ call'[l].todo \in SUBSET Subgroup
      BY <1>2, <2>2 DEF Idle
    <3> QED BY <1>1, <2>1, <3>1, AcquireCloser
  <2>3. ASSUME NEW p \in Subgroup, IsNext(l, p), Set(l, [c EXCEPT !.todo = @ \ {p}])
        PROVE  Closer(c, call'[l])
    <3>1. call'[l].pc = c.pc /\ call'[l].todo = c.todo \ {p} /\ p \in c.todo
      BY <1>1, <1>2, <2>3 DEF IsNext, Calls
    <3>2. call'[l].todo \in SUBSET Subgroup
      BY <1>1, <3>1 DEF Calls
    <3> QED BY <2>1, <3>1, <3>2, AcquireCloser DEF LookPc
  <2> QED BY <1>14, <2>2, <2>3 DEF ImportRest
<1> QED BY <1>3, <1>4, <1>5, <1>6, <1>7, <1>8, <1>9, <1>10, <1>11, <1>12, <1>13, <1>14
        DEF Step

\* What a step does to a lane's call: begins it, brings it closer to its end,
\* or leaves it alone.
LEMMA CallAfter ==
  ASSUME CInv, \A m \in Lane : Budget(call[m]), [Next]_vars, NEW l \in Lane
  PROVE  \/ call'[l] = call[l]
         \/ call[l].pc = "idle" /\ Budget(call'[l])
         \/ Closer(call[l], call'[l])
<1>1. \A m \in Lane : \A d : m # l /\ Set(m, d) => call'[l] = call[l]
  BY DEF CInv, CTypeOK, Set
<1>2. \A d : Set(l, d) => call'[l] = d
  BY DEF CInv, CTypeOK, Set
<1>3. CASE \E m \in Storers, a \in Address : PlainRelease(m, a)
  BY <1>3 DEF PlainRelease
<1>4. ASSUME NEW m \in Updaters, NEW a \in Address, BeginRelease(m, a)
      PROVE  call'[l] = call[l] \/ (call[l].pc = "idle" /\ Budget(call'[l]))
  <2> DEFINE d == IF MayCache(SubgroupOf[m])
                  THEN [Idle EXCEPT !.address = a, !.pc = "inspect", !.attempt = 1]
                  ELSE [Idle EXCEPT !.address = a, !.pc = "publish"]
  <2>1. m \in Lane /\ Set(m, d) /\ call[m].pc = "idle"
    BY <1>4 DEF BeginRelease
  <2>2. Budget(d)
    BY DEF Budget, Idle
  <2> QED BY <1>1, <1>2, <2>1, <2>2
<1>5. ASSUME NEW m \in Acquirers, NEW a \in Address, BeginAcquire(m, a)
      PROVE  call'[l] = call[l] \/ (call[l].pc = "idle" /\ Budget(call'[l]))
  <2> DEFINE d == [Idle EXCEPT !.address = a, !.todo = Others(m),
                     !.pc = IF SubgroupCapacity > 2 THEN "look" ELSE "table",
                     !.owed = {r \in released : r[1] = a}]
  <2>1. m \in Lane /\ Set(m, d) /\ call[m].pc = "idle"
    BY <1>5 DEF BeginAcquire
  <2>2. Budget(d)
    BY DEF Budget, Idle
  <2> QED BY <1>1, <1>2, <2>1, <2>2
<1>6. ASSUME NEW m \in Lane, Step(m)
      PROVE  call'[l] = call[l] \/ Closer(call[l], call'[l])
  <2>1. CASE m = l
    BY <1>6, <2>1, StepCloser
  <2>2. CASE m # l
    BY <1>6, <2>2, LaneSteps DEF StepInv, Effect
  <2> QED BY <2>1, <2>2
<1>7. CASE EndEpoch \/ NextLaunch \/ UNCHANGED vars
  BY <1>7 DEF EndEpoch, NextLaunch, vars
<1> QED BY <1>3, <1>4, <1>5, <1>6, <1>7 DEF Next

\* Every call is over after a number of steps that the attempts and the number
\* of subgroups bound, whoever holds the slot it looks at (context.hpp:800-829,
\* 887-943).
THEOREM CachedCallsEnd == Spec => WaitFree
<1> DEFINE Budgets == \A l \in Lane : Budget(call[l])
           Lower == \A l \in Lane : call[l].pc # "idle" /\ call'[l] # call[l]
                      => Rank(call'[l]) \in 0 .. Rank(call[l]) - 1
<1>1. Init => Budgets
  BY DEF Init, Idle, Budget
<1>2. CInv /\ Budgets /\ [Next]_vars => Budgets' /\ [Lower]_vars
  BY CallAfter DEF Closer
<1> HIDE DEF Budgets
<1>3. Spec => [](CInv /\ Budgets)
  BY <1>1, <1>2, CacheInvariance, PTL DEF Spec
<1> QED BY <1>2, <1>3, PTL DEF Spec, WaitFree
===============================================================================
