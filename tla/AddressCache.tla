----------------------------- MODULE AddressCache -----------------------------
(***************************************************************************)
(* The address cache in front of the atomic-object table: one direct-      *)
(* mapped slot per table record, which names the subgroups that released   *)
(* an address by a read-modify-write.  It is filled with a bounded number  *)
(* of attempts and never cleared, so it is a hint: an acquire imports from *)
(* the producers its slot names and then asks the table for all others.    *)
(* The table is its promise, ReleaseRecords; one action here is one access *)
(* to the cache, or one search of the table.                               *)
(***************************************************************************)
EXTENDS ReleaseRecords, FiniteSets

CONSTANTS
  SubgroupCapacity,  \* storage_ref::subgroup_capacity
  Lane,           \* lanes of the workgroup that use the context
  SubgroupOf,     \* context::subgroup_id of each lane
  Storers,        \* the lanes in which the kernel has releasing stores,
  Updaters,       \* releasing read-modify-writes,
  Acquirers,      \* and acquires
  NullAddress,    \* the address field of a zeroed slot
  CacheCapacity,  \* atomic_object_capacity: a cache slot for each record
  IndexOf,        \* atomic_address_cache_index, a hash of the address
  MaskBits,       \* 64: subgroups a producer mask has a bit for
  CacheAttempts   \* kAtomicRmwAcquireRetryCount, for insertion too

Slot == 0 .. CacheCapacity - 1

ASSUME SubgroupAssumption ==
  SubgroupCapacity \in Nat /\ Subgroup = 0 .. SubgroupCapacity - 1

ASSUME CacheAssumption ==
  /\ SubgroupOf \in [Lane -> Subgroup]
  /\ Storers \cup Updaters \cup Acquirers \subseteq Lane
  /\ NullAddress \notin Address
  /\ CacheCapacity \in Nat \ {0}
  /\ IndexOf \in [Address -> Slot]
  /\ MaskBits \in Nat \ {0}
  /\ CacheAttempts \in Nat \ {0}

Claimed == -1   \* kAtomicObjectClaimedGeneration

VARIABLES
  cache,  \* the slots
  call    \* the call each lane is in

vars == <<rvars, cache, call>>

ZeroSlot == [generation |-> 0, address |-> NullAddress, mask |-> {}]

\* A lane outside of calls.  `owed` is not in the code: what had been published
\* at the address when the acquire began.
Idle == [pc |-> "idle", address |-> NullAddress, attempt |-> 0, seen |-> 0,
         todo |-> {}, imported |-> {}, owed |-> {}]

Init ==
  /\ RInit
  /\ cache = [s \in Slot |-> ZeroSlot]
  /\ call = [l \in Lane |-> Idle]

Here(l) == IndexOf[call[l].address]
Bit(p) == IF p < MaskBits THEN {p} ELSE {}
IsCurrent(s) == cache[s].generation = generation
Set(l, c) == call' = [call EXCEPT ![l] = c]

\* on to a step that needs neither the attempts nor the generation seen
Goto(l, pc) == Set(l, [call[l] EXCEPT !.pc = pc, !.attempt = 0, !.seen = 0])

Released(address, producer) ==
  {e \in Epoch : <<address, producer, e>> \in released}

-------------------------------------------------------------------------------
\* record_atomic_rmw_release and cache_atomic_release

\* should_cache_atomic_rmw_release, and the bound of the mask
MayCache(p) == SubgroupCapacity > 2 /\ p < MaskBits

\* A release of a store, or one that consumes a fence, leaves the cache alone.
PlainRelease(l, address) ==
  /\ call[l].pc = "idle"
  /\ Release(address, SubgroupOf[l], subgroup_epoch)
  /\ UNCHANGED <<cache, call>>

\* find_or_claim and the atomicMax.  The epoch is out at once if the producer
\* already has a record; a claimed one is published behind the insertion.
BeginRelease(l, address) ==
  /\ call[l].pc = "idle"
  /\ IF Released(address, SubgroupOf[l]) # {}
     THEN Release(address, SubgroupOf[l], subgroup_epoch)
     ELSE UNCHANGED rvars
  /\ Set(l, IF MayCache(SubgroupOf[l])
            THEN [Idle EXCEPT !.address = address, !.pc = "inspect", !.attempt = 1]
            ELSE [Idle EXCEPT !.address = address, !.pc = "publish"])
  /\ UNCHANGED cache

\* Mutant: the insertion waits until the slot is its own or opened.
RetrySpins(l) == Set(l, [call[l] EXCEPT !.pc = "inspect", !.seen = 0])

\* atomic_acquire_retry_delay and the end of the attempts
Retry(l) ==
  IF call[l].attempt < CacheAttempts
  THEN Set(l, [call[l] EXCEPT !.pc = "inspect", !.attempt = @ + 1, !.seen = 0])
  ELSE Goto(l, "publish")

InspectSlot(l) ==
  /\ call[l].pc = "inspect"
  /\ \/ IsCurrent(Here(l)) /\ Goto(l, "compare")
     \/ cache[Here(l)].generation = Claimed /\ Retry(l)
     \/ /\ ~IsCurrent(Here(l)) /\ cache[Here(l)].generation # Claimed
        /\ Set(l, [call[l] EXCEPT !.pc = "claim", !.seen = cache[Here(l)].generation])
  /\ UNCHANGED <<rvars, cache>>

\* The slot of another address is left to it.
CompareSlot(l) ==
  /\ call[l].pc = "compare"
  /\ Goto(l, IF cache[Here(l)].address = call[l].address THEN "mark" ELSE "publish")
  /\ UNCHANGED <<rvars, cache>>

\* Mutant: a store of the mask instead of an atomicOr.
JoinedStores(mask, p) == Bit(p)

Joined(mask, p) == mask \cup Bit(p)

MarkProducer(l) ==
  /\ call[l].pc = "mark"
  /\ cache' = [cache EXCEPT ![Here(l)].mask = Joined(@, SubgroupOf[l])]
  /\ Goto(l, "publish")
  /\ UNCHANGED rvars

\* Mutant: the claim does not look whether the slot is still the one it saw.
ClaimsBlindly(l) == TRUE

\* the atomicCAS on the slot's generation
ClaimSucceeds(l) == cache[Here(l)].generation = call[l].seen

ClaimSlot(l) ==
  /\ call[l].pc = "claim"
  /\ IF ClaimSucceeds(l)
     THEN /\ cache' = [cache EXCEPT ![Here(l)].generation = Claimed]
          /\ Goto(l, "fill")
     ELSE Retry(l) /\ UNCHANGED cache
  /\ UNCHANGED rvars

\* Mutant: the bit is added to what an earlier launch left.
FilledOver(slot, address, p) ==
  [slot EXCEPT !.address = address, !.mask = Joined(@, p)]

Filled(slot, address, p) == [slot EXCEPT !.address = address, !.mask = Bit(p)]

FillSlot(l) ==
  /\ call[l].pc = "fill"
  /\ cache' = [cache EXCEPT ![Here(l)] = Filled(@, call[l].address, SubgroupOf[l])]
  /\ Goto(l, "open")
  /\ UNCHANGED rvars

OpenSlot(l) ==
  /\ call[l].pc = "open"
  /\ cache' = [cache EXCEPT ![Here(l)].generation = generation]
  /\ Goto(l, "publish")
  /\ UNCHANGED rvars

\* The record's generation is stored, whatever became of the insertion.
PublishRecord(l) ==
  /\ call[l].pc = "publish"
  /\ Release(call[l].address, SubgroupOf[l], subgroup_epoch)
  /\ Set(l, Idle)
  /\ UNCHANGED cache

-------------------------------------------------------------------------------
\* try_record_atomic_acquire

Others(l) == Subgroup \ {SubgroupOf[l]}

\* Mutant: the cache is believed, the table not asked.
TrustCache(l) == {}

\* Every producer the cache did not deliver is looked up in the table.
NotImported(l) == Others(l) \ call[l].imported

ToTable(l) == Set(l, [call[l] EXCEPT !.pc = "table", !.todo = Others(l)])

BeginAcquire(l, address) ==
  /\ call[l].pc = "idle"
  /\ Set(l, [Idle EXCEPT !.address = address, !.todo = Others(l),
               !.pc = IF SubgroupCapacity > 2 THEN "look" ELSE "table",
               !.owed = {r \in released : r[1] = address}])
  /\ UNCHANGED <<rvars, cache>>

\* Generation, address and mask are three reads.
LookGeneration(l) ==
  /\ call[l].pc = "look"
  /\ IF IsCurrent(Here(l)) THEN Goto(l, "look address") ELSE ToTable(l)
  /\ UNCHANGED <<rvars, cache>>

LookAddress(l) ==
  /\ call[l].pc = "look address"
  /\ IF cache[Here(l)].address = call[l].address
     THEN Goto(l, "look mask") ELSE ToTable(l)
  /\ UNCHANGED <<rvars, cache>>

LookMask(l) ==
  /\ call[l].pc = "look mask"
  /\ Set(l, [call[l] EXCEPT !.pc = "hits",
               !.todo = Others(l) \cap cache[Here(l)].mask])
  /\ UNCHANGED <<rvars, cache>>

\* try_import_atomic_release_from_producer: the newest epoch, if there is any
ImportNewest(l, p) ==
  IF Released(call[l].address, p) # {}
  THEN /\ Import(SubgroupOf[l], p, call[l].address)
       /\ \A e \in Released(call[l].address, p) : acquired_token'[SubgroupOf[l]][p] > e
  ELSE UNCHANGED rvars

\* Producers are visited in increasing order.
IsNext(l, p) == p \in call[l].todo /\ \A q \in call[l].todo : p <= q

\* the producers of the mask, and then the table
ImportHit(l) ==
  /\ call[l].pc = "hits"
  /\ \/ /\ call[l].todo = {}
        /\ Set(l, [call[l] EXCEPT !.pc = "table", !.todo = NotImported(l)])
        /\ UNCHANGED rvars
     \/ \E p \in Subgroup :
          /\ IsNext(l, p)
          /\ ImportNewest(l, p)
          /\ Set(l, [call[l] EXCEPT !.todo = @ \ {p},
               !.imported = IF Released(call[l].address, p) # {} THEN @ \cup {p} ELSE @])
  /\ UNCHANGED cache

ImportRest(l) ==
  /\ call[l].pc = "table"
  /\ \/ call[l].todo = {} /\ Set(l, Idle) /\ UNCHANGED rvars
     \/ \E p \in Subgroup :
          /\ IsNext(l, p)
          /\ ImportNewest(l, p)
          /\ Set(l, [call[l] EXCEPT !.todo = @ \ {p}])
  /\ UNCHANGED cache

-------------------------------------------------------------------------------

Quiet == \A l \in Lane : call[l].pc = "idle"

\* context::barrier
EndEpoch == Quiet /\ Barrier /\ UNCHANGED <<cache, call>>

\* The next kernel finds the cache as the last one left it.
NextLaunch == Quiet /\ Launch /\ UNCHANGED <<cache, call>>

Step(l) ==
  \/ InspectSlot(l) \/ CompareSlot(l) \/ MarkProducer(l) \/ ClaimSlot(l)
  \/ FillSlot(l) \/ OpenSlot(l) \/ PublishRecord(l)
  \/ LookGeneration(l) \/ LookAddress(l) \/ LookMask(l)
  \/ ImportHit(l) \/ ImportRest(l)

Next ==
  \/ \E l \in Storers, a \in Address : PlainRelease(l, a)
  \/ \E l \in Updaters, a \in Address : BeginRelease(l, a)
  \/ \E l \in Acquirers, a \in Address : BeginAcquire(l, a)
  \/ \E l \in Lane : Step(l)
  \/ EndEpoch
  \/ NextLaunch

Spec == Init /\ [][Next]_vars

-------------------------------------------------------------------------------

\* A claimed slot has one owner, which is about to open it: two lanes that
\* claimed one slot would mix the address of one with the mask of the other,
\* and one left claimed would use up the attempts of every later insertion
\* (context.hpp:819-837).
SlotsOwned ==
  \A s \in Slot : cache[s].generation = Claimed =>
    Cardinality({l \in Lane : call[l].pc \in {"fill", "open"} /\ Here(l) = s}) = 1

\* A slot of this launch names only subgroups that released its address in
\* this launch, or are about to publish the release; nothing that a launch
\* before left behind shows through (context.hpp:834-837).
MaskBacked ==
  \A s \in Slot : IsCurrent(s) => \A p \in cache[s].mask :
    \/ Released(cache[s].address, p) # {}
    \/ \E l \in Lane : /\ call[l].pc \in {"publish", "open"}
                      /\ SubgroupOf[l] = p
                      /\ call[l].address = cache[s].address

\* While a launch lasts, a slot that is open keeps its address and never loses
\* a producer.  A consultation reads generation, address and mask separately
\* (context.hpp:908-922) and puts together a slot that really was only
\* because of this.
OpenSlotsKept ==
  [][generation' = generation => \A s \in Slot : IsCurrent(s) =>
       /\ cache'[s].generation = generation
       /\ cache'[s].address = cache[s].address
       /\ cache[s].mask \subseteq cache'[s].mask]_vars

\* An acquire returns with every release that was published at its address
\* when it began, whatever the cache said, forgot or was still writing: "the
\* cache is a positive hint, never evidence of absence" (context.hpp:887-893).
AcquireComplete ==
  [][\A l \in Lane : call[l].pc = "table" /\ call'[l].pc = "idle" =>
       \A r \in call[l].owed : r[2] # SubgroupOf[l] =>
         acquired_token'[SubgroupOf[l]][r[2]] >= r[3] + 1]_vars

\* How much of its call a lane has left, at most: the attempts of an insertion,
\* or the producers an acquire looks up, those of the mask and then the table's.
Rank(c) ==
  LET attempts == CacheAttempts - c.attempt
  IN  CASE c.pc = "idle"                -> 0
        [] c.pc = "inspect"             -> 2 * attempts + 5
        [] c.pc = "claim"               -> 2 * attempts + 4
        [] c.pc \in {"compare", "fill"} -> 3
        [] c.pc \in {"mark", "open"}    -> 2
        [] c.pc = "publish"             -> 1
        [] c.pc = "look"                -> 2 * SubgroupCapacity + 5
        [] c.pc = "look address"        -> 2 * SubgroupCapacity + 4
        [] c.pc = "look mask"           -> 2 * SubgroupCapacity + 3
        [] c.pc = "hits"                -> Cardinality(c.todo) + SubgroupCapacity + 2
        [] c.pc = "table"               -> Cardinality(c.todo) + 1

\* The cache never makes a call wait: whoever has claimed the slot, and even
\* if it never opens it, an insertion gives up after its attempts
\* (context.hpp:800-829) and an acquire goes on to the table; every step of a
\* call lowers what is left of it, whatever the other lanes do.
WaitFree ==
  [][\A l \in Lane : call[l].pc # "idle" /\ call'[l] # call[l]
       => Rank(call'[l]) \in 0 .. Rank(call[l]) - 1]_vars
===============================================================================
