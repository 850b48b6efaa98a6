------------------------------ MODULE AtomicTable ------------------------------
(***************************************************************************)
(* The atomic-object table of hip_moi::context: an open-addressing table   *)
(* of release records in global memory, filled and searched by the lanes   *)
(* of a workgroup with no lock.  A slot belongs to a launch by its         *)
(* generation; a lane takes a stale slot by a compare-and-swap of the      *)
(* generation to "claimed", fills the record and publishes it by storing   *)
(* the launch's generation.  One action is one access to shared memory (or *)
(* several to fields nobody else can be using).                            *)
(* Memory is sequentially consistent here; the code publishes behind a     *)
(* __threadfence and reads through volatile pointers.                      *)
(***************************************************************************)
EXTENDS Integers

CONSTANTS
  Thread,            \* lanes of the workgroup that use the context
  SubgroupOf,        \* context::subgroup_id of each lane
  Address,           \* atomic addresses
  NullAddress,       \* the address field of a zeroed slot
  SubgroupCapacity,  \* storage_ref::subgroup_capacity
  Capacity,          \* storage_ref::atomic_object_capacity
  HashStart,         \* mix32(atomic_record_seed(..)) & (capacity - 1)
  ClaimAttempts,     \* passes of find_or_claim (4 in the code)
  AcquireRetries,    \* retry_count of record_atomic_acquire ({1, 4} in the code)
  LaggingReleases,   \* BOOLEAN: may a release carry an older epoch, as one
                     \* that consumes a pending release fence does?
  MaxEpoch,          \* bound: barriers of one launch
  MaxLaunch          \* bound: launches

Subgroup == 0 .. SubgroupCapacity - 1
Slot == 0 .. Capacity - 1
Epoch == 0 .. MaxEpoch
Key == Address \X Subgroup

ASSUME SubgroupAssumption ==
  /\ SubgroupCapacity \in Nat /\ SubgroupCapacity > 1
  /\ SubgroupOf \in [Thread -> Subgroup]
ASSUME TableAssumption ==
  /\ Capacity \in Nat \ {0}
  /\ HashStart \in [Key -> Slot]
  /\ NullAddress \notin Address
ASSUME BudgetAssumption ==
  /\ ClaimAttempts \in Nat \ {0}
  /\ AcquireRetries \subseteq Nat \ {0}
  /\ LaggingReleases \in BOOLEAN
ASSUME BoundAssumption == MaxEpoch \in Nat /\ MaxLaunch \in Nat \ {0}

Claimed == -1   \* kAtomicObjectClaimedGeneration

VARIABLES
  generation,      \* storage_ref::generation of the current launch
  subgroup_epoch,  \* the epoch of every subgroup between barriers
  atomic_objects,  \* the table
  acquired_token,  \* storage_ref::acquired_subgroup_epoch_tokens
  metadata_full,   \* has a metadata_full diagnostic been emitted?
  call             \* the context call each lane is executing

vars == <<generation, subgroup_epoch, atomic_objects, acquired_token,
          metadata_full, call>>
shared == <<generation, subgroup_epoch, atomic_objects, acquired_token,
            metadata_full>>

NoTokens == [consumer \in Subgroup |-> [producer \in Subgroup |-> 0]]

RaiseTo(old, new) == IF old < new THEN new ELSE old

ZeroRow == [generation |-> 0, address |-> NullAddress, producer |-> 0, epoch |-> 0]

\* A lane outside every context call; the locals of a call die with it.
Idle == [pc |-> "idle", address |-> NullAddress, producer |-> 0, epoch |-> 0,
         probe |-> 0, attempt |-> 0, sawClaimed |-> FALSE, seen |-> 0,
         retries |-> 0, found |-> FALSE, owed |-> {}]

Init ==
  /\ generation = 1
  /\ subgroup_epoch = 0
  /\ atomic_objects = [s \in Slot |-> ZeroRow]
  /\ acquired_token = NoTokens
  /\ metadata_full = FALSE
  /\ call = [t \in Thread |-> Idle]

-------------------------------------------------------------------------------
\* The probe chain of a key

SlotAt(address, producer, probe) ==
  LET index == HashStart[<<address, producer>>] + probe
  IN  IF index >= Capacity THEN index - Capacity ELSE index

\* the slot lane t is looking at
Here(t) == SlotAt(call[t].address, call[t].producer, call[t].probe)

IsCurrent(s) == atomic_objects[s].generation = generation
IsClaimed(s) == atomic_objects[s].generation = Claimed
IsStale(s) == ~IsCurrent(s) /\ ~IsClaimed(s)

RowMatches(s, address, producer) ==
  /\ atomic_objects[s].address = address
  /\ atomic_objects[s].producer = producer

HasRow(s, address, producer) == IsCurrent(s) /\ RowMatches(s, address, producer)

\* the epochs that the published records of a key carry
PublishedEpochs(address, producer) ==
  {atomic_objects[s].epoch : s \in {r \in Slot : HasRow(r, address, producer)}}

Set(t, c) == call' = [call EXCEPT ![t] = c]
Return(t) == Set(t, Idle)

-------------------------------------------------------------------------------
\* find_or_claim_atomic_object_record and record_atomic_release_at_epoch_impl

\* Mutant: the walk starts one slot late.
FirstProbeLate == 1

FirstProbe == 0

BeginRelease(t, address, e) ==
  /\ call[t].pc = "idle"
  /\ IF LaggingReleases THEN e <= subgroup_epoch ELSE e = subgroup_epoch
  /\ Set(t, [Idle EXCEPT !.pc = "probe", !.address = address,
                         !.producer = SubgroupOf[t], !.epoch = e,
                         !.probe = FirstProbe, !.attempt = 1])
  /\ UNCHANGED shared

\* Mutant: a lane gives up as soon as it meets a claimed slot.
NextProbeGivesUp(c, claimed) ==
  IF ~claimed /\ c.probe + 1 < Capacity
  THEN [c EXCEPT !.pc = "probe", !.probe = @ + 1, !.seen = 0]
  ELSE [c EXCEPT !.pc = "full"]

\* Mutant: the passes over the table are not counted.
NextProbeSpins(c, claimed) ==
  IF c.probe + 1 < Capacity THEN
    [c EXCEPT !.pc = "probe", !.probe = @ + 1, !.sawClaimed = claimed, !.seen = 0]
  ELSE IF claimed THEN
    [c EXCEPT !.pc = "probe", !.probe = FirstProbe, !.sawClaimed = FALSE, !.seen = 0]
  ELSE [c EXCEPT !.pc = "full"]

\* The end of the chain, or of an attempt; `claimed` is saw_claimed_slot.
NextProbe(c, claimed) ==
  IF c.probe + 1 < Capacity THEN
    [c EXCEPT !.pc = "probe", !.probe = @ + 1, !.sawClaimed = claimed, !.seen = 0]
  ELSE IF claimed /\ c.attempt < ClaimAttempts THEN
    [c EXCEPT !.pc = "probe", !.probe = FirstProbe, !.attempt = @ + 1,
              !.sawClaimed = FALSE, !.seen = 0]
  ELSE [c EXCEPT !.pc = "full"]

ProbeCurrent(t) ==
  /\ call[t].pc = "probe" /\ IsCurrent(Here(t))
  /\ Set(t, [call[t] EXCEPT !.pc = "match"])
  /\ UNCHANGED shared

ProbeClaimed(t) ==
  /\ call[t].pc = "probe" /\ IsClaimed(Here(t))
  /\ Set(t, NextProbe(call[t], TRUE))
  /\ UNCHANGED shared

ProbeStale(t) ==
  /\ call[t].pc = "probe" /\ IsStale(Here(t))
  /\ Set(t, [call[t] EXCEPT !.pc = "claim",
                            !.seen = atomic_objects[Here(t)].generation])
  /\ UNCHANGED shared

MatchRow(t) ==
  /\ call[t].pc = "match"
  /\ IF RowMatches(Here(t), call[t].address, call[t].producer)
     THEN Set(t, [call[t] EXCEPT !.pc = "record"])
     ELSE Set(t, NextProbe(call[t], call[t].sawClaimed))
  /\ UNCHANGED shared

\* Mutant: the slot is taken by a plain store after the check.
MayClaimBlind(t) == TRUE

\* the atomicCAS on the generation
MayClaim(t) == atomic_objects[Here(t)].generation = call[t].seen

ClaimSlot(t) ==
  /\ call[t].pc = "claim"
  /\ IF MayClaim(t)
     THEN /\ atomic_objects' = [atomic_objects EXCEPT ![Here(t)].generation = Claimed]
          /\ Set(t, [call[t] EXCEPT !.pc = "fill"])
     ELSE /\ Set(t, NextProbe(call[t], TRUE))
          /\ UNCHANGED atomic_objects
  /\ UNCHANGED <<generation, subgroup_epoch, acquired_token, metadata_full>>

\* Mutant: the epoch left by an earlier launch is kept.
FreshRowKeepsEpoch(row, c) == [row EXCEPT !.address = c.address, !.producer = c.producer]

FreshRow(row, c) == [row EXCEPT !.address = c.address, !.producer = c.producer,
                                !.epoch = 0]

FillRow(t) ==
  /\ call[t].pc = "fill"
  /\ atomic_objects' = [atomic_objects EXCEPT ![Here(t)] = FreshRow(@, call[t])]
  /\ Set(t, [call[t] EXCEPT !.pc = "record"])
  /\ UNCHANGED <<generation, subgroup_epoch, acquired_token, metadata_full>>

\* The record may be one that others already read: address and producer are
\* rewritten with the values they have, the epoch is raised.
JoinedRow(row, c) == [row EXCEPT !.address = c.address, !.producer = c.producer,
                                 !.epoch = RaiseTo(@, c.epoch)]

RecordEpoch(t) ==
  /\ call[t].pc = "record"
  /\ atomic_objects' = [atomic_objects EXCEPT ![Here(t)] = JoinedRow(@, call[t])]
  /\ Set(t, [call[t] EXCEPT !.pc = "publish"])
  /\ UNCHANGED <<generation, subgroup_epoch, acquired_token, metadata_full>>

PublishRow(t) ==
  /\ call[t].pc = "publish"
  /\ atomic_objects' = [atomic_objects EXCEPT ![Here(t)].generation = generation]
  /\ Return(t)
  /\ UNCHANGED <<generation, subgroup_epoch, acquired_token, metadata_full>>

\* emit_atomic_metadata_full; the release is dropped
EmitFull(t) ==
  /\ call[t].pc = "full"
  /\ metadata_full' = TRUE
  /\ Return(t)
  /\ UNCHANGED <<generation, subgroup_epoch, atomic_objects, acquired_token>>

-------------------------------------------------------------------------------
\* record_atomic_acquire, try_record_atomic_acquire_from_table and
\* find_atomic_object_record

\* Producers are tried in increasing order, the consumer itself left out.
Candidate(t, first) == IF first = SubgroupOf[t] THEN first + 1 ELSE first

\* `owed` is not in the code: it remembers the epochs that published records
\* of the key carried when this search of the chain began.
Search(t, c, first) ==
  [c EXCEPT !.pc = "lookup", !.producer = Candidate(t, first), !.probe = FirstProbe,
            !.owed = PublishedEpochs(c.address, Candidate(t, first))]

BeginAcquire(t, address, retries) ==
  /\ call[t].pc = "idle"
  /\ Set(t, Search(t, [Idle EXCEPT !.address = address, !.attempt = 1,
                                   !.retries = retries], 0))
  /\ UNCHANGED shared

\* After one producer: the next one, or the next attempt, or the caller.
NextProducer(t, anyFound) ==
  LET c == [call[t] EXCEPT !.found = anyFound]
      next == c.producer + 1
  IN  IF Candidate(t, next) < SubgroupCapacity THEN Set(t, Search(t, c, next))
      ELSE IF anyFound \/ c.attempt = c.retries THEN Return(t)
      ELSE Set(t, Search(t, [c EXCEPT !.attempt = @ + 1], 0))

\* Mutant: the lookup waits for the owner of a claimed slot.
LookupWaits(s) == FALSE

LookupPasses(s) == IsClaimed(s)

\* Mutant: a claimed slot ends the chain too.
LookupEndsAtClaimed(s) == ~IsCurrent(s)

\* a stale slot ends the chain, a claimed one does not
LookupEnds(s) == IsStale(s)

\* Mutant: the walk goes one slot too far.
NextLookupTooFar(c) ==
  IF c.probe < Capacity THEN [c EXCEPT !.pc = "lookup", !.probe = @ + 1]
                        ELSE [c EXCEPT !.pc = "absent"]

NextLookup(c) ==
  IF c.probe + 1 < Capacity THEN [c EXCEPT !.pc = "lookup", !.probe = @ + 1]
                            ELSE [c EXCEPT !.pc = "absent"]

LookupSlot(t) ==
  /\ call[t].pc = "lookup"
  /\ \/ LookupPasses(Here(t)) /\ Set(t, NextLookup(call[t]))
     \/ LookupEnds(Here(t)) /\ Set(t, [call[t] EXCEPT !.pc = "absent"])
     \/ IsCurrent(Here(t)) /\ Set(t, [call[t] EXCEPT !.pc = "compare"])
  /\ UNCHANGED shared

LookupCompare(t) ==
  /\ call[t].pc = "compare"
  /\ IF RowMatches(Here(t), call[t].address, call[t].producer)
     THEN Set(t, [call[t] EXCEPT !.pc = "import"])
     ELSE Set(t, NextLookup(call[t]))
  /\ UNCHANGED shared

\* try_import_atomic_release_from_producer found no record
LookupAbsent(t) ==
  /\ call[t].pc = "absent"
  /\ NextProducer(t, call[t].found)
  /\ UNCHANGED shared

ImportToken(t) ==
  /\ call[t].pc = "import"
  /\ acquired_token' = [acquired_token EXCEPT ![SubgroupOf[t]][call[t].producer] =
                          RaiseTo(@, atomic_objects[Here(t)].epoch + 1)]
  /\ NextProducer(t, TRUE)
  /\ UNCHANGED <<generation, subgroup_epoch, atomic_objects, metadata_full>>

-------------------------------------------------------------------------------
\* The rest of the program, as far as the table sees it

Quiet == \A t \in Thread : call[t].pc = "idle"

\* Mutant: the barrier does not wait for the lanes' metadata calls.
BarrierEarly ==
  /\ subgroup_epoch < MaxEpoch
  /\ subgroup_epoch' = subgroup_epoch + 1
  /\ UNCHANGED <<generation, atomic_objects, acquired_token, metadata_full, call>>

\* context::barrier: every lane has returned from its context calls
Barrier ==
  /\ Quiet /\ subgroup_epoch < MaxEpoch
  /\ subgroup_epoch' = subgroup_epoch + 1
  /\ UNCHANGED <<generation, atomic_objects, acquired_token, metadata_full, call>>

\* The kernel ends, host_context::launch_ref takes a new generation and
\* init_workgroup clears epochs, tokens and diagnostics; the table is kept.
Launch ==
  /\ Quiet /\ generation < MaxLaunch
  /\ generation' = generation + 1
  /\ subgroup_epoch' = 0
  /\ acquired_token' = NoTokens
  /\ metadata_full' = FALSE
  /\ UNCHANGED <<atomic_objects, call>>

ReleaseStep(t) ==
  \/ ProbeCurrent(t) \/ ProbeClaimed(t) \/ ProbeStale(t) \/ MatchRow(t)
  \/ ClaimSlot(t) \/ FillRow(t) \/ RecordEpoch(t) \/ PublishRow(t) \/ EmitFull(t)

AcquireStep(t) ==
  \/ LookupSlot(t) \/ LookupCompare(t) \/ LookupAbsent(t) \/ ImportToken(t)

Step(t) == ReleaseStep(t) \/ AcquireStep(t)

Next ==
  \/ \E t \in Thread, a \in Address, e \in Epoch : BeginRelease(t, a, e)
  \/ \E t \in Thread, a \in Address, r \in AcquireRetries : BeginAcquire(t, a, r)
  \/ \E t \in Thread : Step(t)
  \/ Barrier
  \/ Launch

Spec == Init /\ [][Next]_vars
-------------------------------------------------------------------------------
\* Properties

ReleasePc == {"probe", "match", "claim", "fill", "record", "publish", "full"}
AcquirePc == {"lookup", "compare", "absent", "import"}

Row == [generation : Nat \cup {Claimed}, address : Address \cup {NullAddress},
        producer : Subgroup, epoch : Epoch]

Call == [pc : {"idle"} \cup ReleasePc \cup AcquirePc,
         address : Address \cup {NullAddress}, producer : Subgroup,
         epoch : Epoch, probe : Slot, attempt : Nat, sawClaimed : BOOLEAN,
         seen : Nat, retries : Nat, found : BOOLEAN, owed : SUBSET Epoch]

\* The range of every variable: a probe never leaves the table, a released
\* epoch and a token never leave the epochs of the launch.
TypeOK ==
  /\ generation \in Nat \ {0}
  /\ subgroup_epoch \in Epoch
  /\ atomic_objects \in [Slot -> Row]
  /\ acquired_token \in [Subgroup -> [Subgroup -> 0 .. MaxEpoch + 1]]
  /\ metadata_full \in BOOLEAN
  /\ call \in [Thread -> Call]

Holds(t, s) == call[t].pc \in {"fill", "record", "publish"} /\ Here(t) = s

\* A claimed slot has one owner, a lane that is about to publish it: no slot
\* is claimed by two lanes at once (their records would overwrite each other)
\* and none stays claimed when its lane has returned, which would hide it
\* from every release and every acquire until the table is reallocated
\* (context.hpp:657-668, 780-782).
ClaimsOwned ==
  \A s \in Slot : IsClaimed(s) =>
    \E t \in Thread : /\ Holds(t, s)
                      /\ \A u \in Thread : Holds(u, s) => u = t

\* No stale slot lies between the first slot of a key's chain and a record
\* of that key, however releases, lost compare-and-swaps and launches
\* interleave.  find_atomic_object_record relies on it when it lets a stale
\* slot end the search (context.hpp:711-717).
ChainUnbroken ==
  \A s \in Slot : IsCurrent(s) =>
    \E probe \in Slot :
      /\ SlotAt(atomic_objects[s].address, atomic_objects[s].producer, probe) = s
      /\ \A n \in 0 .. probe - 1 :
           ~IsStale(SlotAt(atomic_objects[s].address, atomic_objects[s].producer, n))

\* An acquire never overlooks a release that was published before it began
\* to search: find_atomic_object_record returns null only if the key had no
\* published record at that time (context.hpp:685-728).  A release
\* overlooked here becomes a false report later.
NoReleaseOverlooked ==
  \A t \in Thread : call[t].pc = "absent" => call[t].owed = {}

\* metadata_full is emitted only when no slot of the table is left for this
\* launch: a release is never dropped while a stale slot could take it, even
\* when every compare-and-swap was lost to other lanes (context.hpp:630-682).
FullMeansNoRoom ==
  (metadata_full \/ \E t \in Thread : call[t].pc = "full") =>
    \A s \in Slot : ~IsStale(s)

\* The record an acquire imports carries the newest epoch that its key had
\* published when the search began: records of one producer and one address
\* join by the maximum released epoch (docs/atomics.md:131-132).
NewestImported ==
  \A t \in Thread : call[t].pc = "import" =>
    \A e \in call[t].owed : atomic_objects[Here(t)].epoch >= e

\* How much of its call a lane has left, at most: the probes of the present
\* and the coming attempts of a release, or the searches of an acquire for
\* the producers and attempts that are left.
ReleaseRank(c) ==
  LET probes == (ClaimAttempts - c.attempt) * Capacity + (Capacity - c.probe)
  IN  CASE c.pc = "probe"               -> 2 * probes + 3
        [] c.pc \in {"match", "claim"}  -> 2 * probes + 2
        [] c.pc = "fill"                -> 3
        [] c.pc = "record"              -> 2
        [] c.pc \in {"publish", "full"} -> 1

AcquireRank(c) ==
  LET searches == (c.retries - c.attempt) * SubgroupCapacity
                    + (SubgroupCapacity - c.producer)
      search == CASE c.pc = "lookup"              -> 2 * (Capacity - c.probe) + 1
                  [] c.pc = "compare"             -> 2 * (Capacity - c.probe)
                  [] c.pc \in {"absent", "import"} -> 0
  IN  searches * (2 * Capacity + 2) + search

Rank(c) ==
  IF c.pc = "idle" THEN 0
  ELSE IF c.pc \in ReleasePc THEN ReleaseRank(c) ELSE AcquireRank(c)

\* A call is over after a number of steps that its arguments and the capacity
\* bound, whatever the other lanes do: each of its steps uses up some of the
\* budgets of context.hpp:630 and 1003-1016.  A lane that spun until
\* another lane published could spin for ever, since lanes of one wave share
\* a program counter.
WaitFree ==
  [][\A t \in Thread : call[t].pc # "idle" /\ call'[t] # call[t]
       => Rank(call'[t]) \in 0 .. Rank(call[t]) - 1]_vars

\* ... and the next step never waits for a step of another lane, even if the
\* owner of a claimed slot has stopped for ever.
NeverStuck == \A t \in Thread : call[t].pc # "idle" => ENABLED Step(t)

\* The inductive invariant behind the properties above.  What a lane knows
\* while it executes a call:
CallFacts(t) ==
  /\ call[t].pc # "idle" => call[t].address \in Address
  /\ call[t].pc \in ReleasePc =>
       /\ call[t].producer = SubgroupOf[t]
       /\ call[t].epoch <= subgroup_epoch
  /\ call[t].pc \in AcquirePc => call[t].producer # SubgroupOf[t]
  /\ call[t].pc \in {"match", "compare"} => IsCurrent(Here(t))
  /\ call[t].pc = "claim" =>
       /\ call[t].seen # generation
       /\ IsStale(Here(t)) => atomic_objects[Here(t)].generation = call[t].seen
  /\ call[t].pc = "fill" => IsClaimed(Here(t))
  /\ call[t].pc \in {"record", "publish"} =>
       /\ ~IsStale(Here(t))
       /\ RowMatches(Here(t), call[t].address, call[t].producer)
       /\ atomic_objects[Here(t)].epoch <= subgroup_epoch
  /\ call[t].pc = "import" => HasRow(Here(t), call[t].address, call[t].producer)

\* ... a release has left no stale slot behind it,
WalkSolid(t) ==
  /\ call[t].pc \in ReleasePc \ {"full"} =>
       \A n \in 0 .. call[t].probe - 1 :
         ~IsStale(SlotAt(call[t].address, call[t].producer, n))
  /\ call[t].pc = "full" => \A s \in Slot : ~IsStale(s)

\* ... and an acquire still has the record it is owed ahead of it.
RowAhead(t) ==
  /\ call[t].pc \in {"lookup", "compare"} /\ call[t].owed # {} =>
       \E n \in call[t].probe .. Capacity - 1 :
         HasRow(SlotAt(call[t].address, call[t].producer, n),
                call[t].address, call[t].producer)
  /\ call[t].pc = "absent" => call[t].owed = {}

RowsValid ==
  \A s \in Slot :
    /\ atomic_objects[s].generation <= generation
    /\ IsCurrent(s) => /\ atomic_objects[s].address \in Address
                       /\ atomic_objects[s].epoch <= subgroup_epoch

IInv ==
  /\ TypeOK
  /\ RowsValid
  /\ ClaimsOwned
  /\ ChainUnbroken
  /\ metadata_full => \A s \in Slot : ~IsStale(s)
  /\ \A t \in Thread : CallFacts(t) /\ WalkSolid(t) /\ RowAhead(t)

\* What the table has published, seen as the abstract `released`
PublishedReleases ==
  {r \in Address \X Subgroup \X Epoch :
     \E s \in Slot : HasRow(s, r[1], r[2]) /\ r[3] <= atomic_objects[s].epoch}

Promise == INSTANCE ReleaseRecords WITH released <- PublishedReleases

\* The table implements ReleaseRecords: a torn, half-filled or leftover
\* record is never visible as a release, and a token is raised only to an
\* epoch that its producer released at that address in this launch.
ImplementsPromise == Promise!RSpec

===============================================================================
