---------------------------- MODULE ExactDetector ----------------------------
(***************************************************************************)
(* The exact-shadow detector of hip_moi::context: LDS accesses, atomics,   *)
(* fences and barriers of the subgroups of one workgroup, one thread of    *)
(* each, in one launch.  The atomic-object table is its abstract promise,  *)
(* ReleaseRecords: one record per address and producer.                    *)
(*                                                                         *)
(* Beside the detector's own state the module keeps what really is         *)
(* ordered.  An id <<s, c, k>> stands for the latest access of kind k by   *)
(* subgroup s to cell c.  knows[s] holds the ids that happen before s's    *)
(* next step, and a new access takes its id from everyone else, so that an *)
(* access races exactly with the conflicting ids its subgroup does not     *)
(* know.  Atomics are sequentially consistent: a load reads the newest     *)
(* value and learns all it carries.                                        *)
(***************************************************************************)
EXTENDS Integers, FiniteSets

CONSTANTS Subgroups,     \* those that fit subgroup_capacity
          Cells,         \* dwords of LDS covered by the shadow
          Kinds,         \* the accesses kernels make: a subset of AccessKinds
          Addresses,     \* atomic objects
          LoadOrders, StoreOrders, RmwOrders, CasOrders, FenceOrders,
          Attempts,      \* kAtomicRmwAcquireRetryCount
          EpochModulus,  \* 2^10: the bits of a shadow word's epoch
          MaxEpoch,      \* bound of the model: barriers of a run
          ReleaseLast,   \* kernels make no access after a release in an epoch
          FencesPaired,  \* their fences go with the atomic next to them
          Transitive     \* ids travel through third subgroups

AccessKinds == {"load", "store"}
Orders == {"relaxed", "acquire", "release", "acq_rel", "seq_cst"}
None == "none"

ASSUME DetectorAssumption ==
    /\ Kinds \subseteq AccessKinds
    /\ LoadOrders \subseteq Orders
    /\ StoreOrders \subseteq Orders
    /\ RmwOrders \subseteq Orders
    /\ CasOrders \subseteq Orders \X Orders
    /\ FenceOrders \subseteq Orders
    /\ None \notin Addresses
    /\ Attempts \in Nat \ {0}
    /\ EpochModulus \in Nat \ {0}
    /\ MaxEpoch \in Nat
    /\ ReleaseLast \in BOOLEAN
    /\ FencesPaired \in BOOLEAN
    /\ Transitive \in BOOLEAN

\* atomic_order_has_acquire and atomic_order_has_release
Acquires(o) == o \in {"acquire", "acq_rel", "seq_cst"}
Releases(o) == o \in {"release", "acq_rel", "seq_cst"}

Ids == Subgroups \X Cells \X Kinds
IdsOf(s) == {i \in Ids : i[1] = s}

Empty == [kind |-> "empty"]
Entries == [kind : Kinds, owner : Subgroups, epoch : 0 .. EpochModulus - 1]

VARIABLES
    epoch,      \* subgroup_epoch, which barriers keep the same for all
    shadow,     \* [Cells -> the packed word of the last access]
    token,      \* acquired_subgroup_epoch_tokens[consumer][producer]
    record,     \* [address][producer]: epoch + 1 of the release record, or 0
    pending,    \* pending_release_fence_epoch_token_ of each subgroup
    observed,   \* last_observed_atomic_address_, None while it is not valid
    call,       \* the atomic operation each subgroup is in
    diagnosed,  \* cells reported since the last barrier
    knows,      \* ids that happen before the subgroup's next step
    sync,       \* ids that reading the address's present value orders
    fenced,     \* ids the subgroup's last release fence covers
    seen,       \* ids its relaxed reads wait for an acquire fence to learn
    backing,    \* [address][producer]: ids the record may speak for
    evid,       \* ids the records a subgroup imported spoke for
    gaveUp      \* subgroups whose retries ran out before a record came

meta == <<shadow, token, record, pending, observed, diagnosed, gaveUp>>
truth == <<knows, sync, fenced, seen, backing, evid>>
vars == <<epoch, call, meta, truth>>

Idle == [stage |-> "idle"]
Calls == {Idle}
    \cup [stage : {"store"}, addr : Addresses, rel : BOOLEAN]
    \cup [stage : {"record"}, addr : Addresses, rel : BOOLEAN, acq : BOOLEAN]
    \cup [stage : {"acquire"}, addr : Addresses, left : 1 .. Attempts,
          todo : SUBSET Subgroups, found : BOOLEAN, late : BOOLEAN,
          retries : BOOLEAN]

\* The launch: every earlier access is ordered before it.
Init ==
    /\ epoch = 0
    /\ shadow = [c \in Cells |-> Empty]
    /\ token = [s \in Subgroups |-> [p \in Subgroups |-> 0]]
    /\ record = [a \in Addresses |-> [p \in Subgroups |-> 0]]
    /\ pending = [s \in Subgroups |-> 0]
    /\ observed = [s \in Subgroups |-> None]
    /\ call = [s \in Subgroups |-> Idle]
    /\ diagnosed = {}
    /\ knows = [s \in Subgroups |-> Ids]
    /\ sync = [a \in Addresses |-> {}]
    /\ fenced = [s \in Subgroups |-> {}]
    /\ seen = [s \in Subgroups |-> {}]
    /\ backing = [a \in Addresses |-> [p \in Subgroups |-> {}]]
    /\ evid = [s \in Subgroups |-> {}]
    /\ gaveUp = {}

IsIdle(s) == call[s].stage = "idle"

(***************************************************************************)
(* Accesses.                                                               *)
(***************************************************************************)
\* The epoch as a shadow word keeps it.
Stored(e) == e % EpochModulus

KindsConflict(k, prior) == ~(k = "load" /\ prior = "load")

\* exact_shadow_entries_conflict; the generation is that of the launch.
Conflicts(s, c, k) ==
    /\ shadow[c].kind # "empty"
    /\ shadow[c].epoch = Stored(epoch)
    /\ shadow[c].owner # s
    /\ KindsConflict(k, shadow[c].kind)

\* current_access_acquired_prior_epoch
AcquiredPrior(s, c) == token[s][shadow[c].owner] >= shadow[c].epoch + 1

Reports(s, c, k) == Conflicts(s, c, k) /\ ~AcquiredPrior(s, c)
Suppresses(s, c, k) == Conflicts(s, c, k) /\ AcquiredPrior(s, c)

\* What the cell's word says of its last access.  The owner has ten bits, and a
\* workgroup of at most 2^10 threads no more subgroups (shadow.hpp:75).
Packed(s, k) == [kind |-> k, owner |-> s, epoch |-> Stored(epoch)]

\* s has put out no release in this epoch.
NotReleased(s) ==
    /\ pending[s] <= epoch
    /\ \A a \in Addresses : record[a][s] <= epoch

CanAccess(s) == IsIdle(s) /\ (ReleaseLast => NotReleased(s))

Forget(F, id) == [x \in DOMAIN F |-> F[x] \ {id}]
ForgetBut(F, s, id) == [x \in DOMAIN F |-> IF x = s THEN F[x] ELSE F[x] \ {id}]

\* record_exact_shadow_access on one cell: exchange the word, look at the one
\* it displaced, report.  The access itself follows in program order.
Access(s, c, k) ==
    /\ CanAccess(s)
    /\ shadow' = [shadow EXCEPT ![c] = Packed(s, k)]
    /\ diagnosed' = IF Reports(s, c, k) THEN diagnosed \cup {c} ELSE diagnosed
    /\ LET id == <<s, c, k>> IN
         /\ knows' = ForgetBut(knows, s, id)
         /\ sync' = Forget(sync, id)
         /\ fenced' = Forget(fenced, id)
         /\ seen' = Forget(seen, id)
         /\ backing' = [a \in Addresses |-> Forget(backing[a], id)]
         /\ evid' = Forget(evid, id)
    /\ UNCHANGED <<epoch, token, record, pending, observed, call, gaveUp>>

(***************************************************************************)
(* Release metadata.                                                       *)
(***************************************************************************)
\* record_atomic_release_at_epoch: releases to one key join at the maximum.
Joined(old, new) == IF new > old THEN new ELSE old

\* Mutant: the pending token is taken for an epoch.
PublishedTwice(s, a, t) == [record EXCEPT ![a][s] = Joined(@, t + 1)]

Published(s, a, t) == [record EXCEPT ![a][s] = Joined(@, t)]

\* A release of s to address a with its present epoch, or else the epoch of
\* a pending release fence, which the operation consumes.
PutRelease(s, a, rel) ==
    IF rel
    THEN /\ record' = Published(s, a, epoch + 1)
         /\ backing' = [backing EXCEPT ![a][s] = @ \cup IdsOf(s)]
         /\ UNCHANGED pending
    ELSE IF pending[s] # 0
    THEN /\ record' = Published(s, a, pending[s])
         /\ backing' = [backing EXCEPT ![a][s] = @ \cup (fenced[s] \cap IdsOf(s))]
         /\ pending' = [pending EXCEPT ![s] = 0]
    ELSE UNCHANGED <<record, backing, pending>>

\* What s hands on when it knows K.
Carried(s, K) == IF Transitive THEN K ELSE K \cap IdsOf(s)

\* What a write of s to an atomic carries.
Handed(s, rel, K) == fenced[s] \cup (IF rel THEN Carried(s, K) ELSE {})

\* A read that returns the value of a: an acquire learns now what it carries,
\* a relaxed read leaves it to the next acquire fence.
Learn(s, ids, acq) ==
    /\ knows' = [knows EXCEPT ![s] = IF acq THEN @ \cup ids ELSE @]
    /\ seen' = [seen EXCEPT ![s] = IF acq THEN @ ELSE @ \cup ids]

(***************************************************************************)
(* Acquire metadata: attempts that import the record of every other        *)
(* producer.  The address cache makes the order in which a search visits   *)
(* the producers arbitrary.  late and retries only serve to tell when a    *)
(* search ran out of retries while a producer, whose value was out, had    *)
(* not put its record out yet.                                             *)
(***************************************************************************)
Acquiring(s, a, tries) ==
    [stage |-> "acquire", addr |-> a, left |-> tries,
     todo |-> Subgroups \ {s}, found |-> FALSE, late |-> FALSE,
     retries |-> tries # 1]

\* Mutant: the first atomic observed is the one remembered.
ReturnKeepsFirst(s, a) ==
    /\ call' = [call EXCEPT ![s] = Idle]
    /\ observed' = [observed EXCEPT ![s] = IF @ = None THEN a ELSE @]

\* The end of an operation on a, which the thread remembers.
Return(s, a) == /\ call' = [call EXCEPT ![s] = Idle]
                /\ observed' = [observed EXCEPT ![s] = a]

\* record_atomic_acquire, or the end of the operation.
ThenAcquire(s, a, acq, tries) ==
    IF acq THEN /\ call' = [call EXCEPT ![s] = Acquiring(s, a, tries)]
                /\ UNCHANGED observed
           ELSE Return(s, a)

HasRecord(a, p) == record[a][p] # 0

\* Mutant: the token is the consumer's own epoch.
ImportedNow(s, a, p) == [token EXCEPT ![s][p] = epoch + 1]

\* Tokens are raised, never lowered.
ImportedToken(s, a, p) ==
    [token EXCEPT ![s][p] = IF record[a][p] > @ THEN record[a][p] ELSE @]

Publishing(p, a) == call[p].stage = "record" /\ call[p].addr = a

\* try_import_atomic_release_from_producer
ImportFrom(s, p) ==
    /\ call[s].stage = "acquire"
    /\ p \in call[s].todo
    /\ LET a == call[s].addr IN
         /\ call' = [call EXCEPT ![s].todo = @ \ {p},
                                 ![s].found = @ \/ HasRecord(a, p),
                                 ![s].late = @ \/ Publishing(p, a)]
         /\ IF HasRecord(a, p)
            THEN /\ token' = ImportedToken(s, a, p)
                 /\ evid' = [evid EXCEPT ![s] = @ \cup backing[a][p]]
            ELSE UNCHANGED <<token, evid>>
    /\ UNCHANGED <<epoch, shadow, record, pending, observed, diagnosed,
                   knows, sync, fenced, seen, backing, gaveUp>>

\* An attempt is good enough as soon as one producer has a record.
AttemptSucceeds(s) == call[s].found

EndAttempt(s) ==
    /\ call[s].stage = "acquire"
    /\ call[s].todo = {}
    /\ IF AttemptSucceeds(s) \/ call[s].left = 1
       THEN /\ Return(s, call[s].addr)
            /\ gaveUp' = IF call[s].retries /\ call[s].late /\ ~call[s].found
                         THEN gaveUp \cup {s} ELSE gaveUp
       ELSE /\ call' = [call EXCEPT ![s].left = @ - 1, ![s].late = FALSE,
                                    ![s].todo = Subgroups \ {s}]
            /\ UNCHANGED <<observed, gaveUp>>
    /\ UNCHANGED <<epoch, shadow, token, record, pending, diagnosed, truth>>

(***************************************************************************)
(* Atomic operations.                                                      *)
(***************************************************************************)
\* With FencesPaired, s reads no other atomic while a relaxed read waits for
\* its acquire fence, and what a release fence covers goes out with writes to
\* an address that has its record.
ReadsPaired(s, a) ==
    FencesPaired => observed[s] \in {None, a} \/ seen[s] \subseteq knows[s]
WritesPaired(s, a, rel) ==
    FencesPaired => \/ rel \/ pending[s] # 0 \/ fenced[s] = {}
                    \/ record[a][s] > epoch \/ NotReleased(s)

\* Mutant: the value first, like a read-modify-write.
AtomicStoreValueFirst(s, a, o) ==
    /\ IsIdle(s)
    /\ sync' = [sync EXCEPT ![a] = Handed(s, Releases(o), knows[s])]
    /\ call' = [call EXCEPT ![s] = [stage |-> "record", addr |-> a,
                                    rel |-> Releases(o), acq |-> FALSE]]
    /\ UNCHANGED <<epoch, meta, knows, fenced, seen, backing, evid>>

\* atomic_store publishes first and stores then.
AtomicStore(s, a, o) ==
    /\ IsIdle(s) /\ WritesPaired(s, a, Releases(o))
    /\ PutRelease(s, a, Releases(o))
    /\ call' = [call EXCEPT
                  ![s] = [stage |-> "store", addr |-> a, rel |-> Releases(o)]]
    /\ UNCHANGED <<epoch, shadow, token, observed, diagnosed, gaveUp,
                   knows, sync, fenced, seen, evid>>

StoreValue(s) ==
    /\ call[s].stage = "store"
    /\ sync' = [sync EXCEPT
                  ![call[s].addr] = Handed(s, call[s].rel, knows[s])]
    /\ call' = [call EXCEPT ![s] = Idle]
    /\ UNCHANGED <<epoch, meta, knows, fenced, seen, backing, evid>>

\* Reads a and searches for its records if the order acquires.
ReadValue(s, a, acq, tries) ==
    /\ IsIdle(s) /\ ReadsPaired(s, a)
    /\ Learn(s, sync[a], acq)
    /\ ThenAcquire(s, a, acq, tries)
    /\ UNCHANGED <<epoch, shadow, token, record, pending, diagnosed, gaveUp,
                   sync, fenced, backing, evid>>

AtomicLoad(s, a, o) == ReadValue(s, a, Acquires(o), 1)

\* atomic_fetch_add, _or, _and, _xor and atomic_exchange: the value changes
\* first, and the metadata follows.
AtomicRmw(s, a, o) ==
    /\ IsIdle(s) /\ ReadsPaired(s, a) /\ WritesPaired(s, a, Releases(o))
    /\ Learn(s, sync[a], Acquires(o))
    /\ sync' = [sync EXCEPT ![a] = @ \cup Handed(s, Releases(o), knows'[s])]
    /\ call' = [call EXCEPT
                  ![s] = [stage |-> "record", addr |-> a,
                          rel |-> Releases(o), acq |-> Acquires(o)]]
    /\ UNCHANGED <<epoch, meta, fenced, backing, evid>>

RecordRmw(s) ==
    /\ call[s].stage = "record"
    /\ PutRelease(s, call[s].addr, call[s].rel)
    /\ ThenAcquire(s, call[s].addr, call[s].acq, Attempts)
    /\ UNCHANGED <<epoch, shadow, token, diagnosed, gaveUp,
                   knows, sync, fenced, seen, evid>>

\* atomic_compare_exchange_strong with success order o[1], failure order o[2]
CompareExchange(s, a, o) ==
    \/ AtomicRmw(s, a, o[1])
    \/ ReadValue(s, a, Acquires(o[2]), Attempts)

\* An acquire fence searches for the records of the last observed atomic.
AtomicFence(s, o) ==
    /\ IsIdle(s)
    /\ pending' = IF Releases(o) THEN [pending EXCEPT ![s] = epoch + 1]
                                 ELSE pending
    /\ knows' = IF Acquires(o) THEN [knows EXCEPT ![s] = @ \cup seen[s]]
                               ELSE knows
    /\ fenced' = IF Releases(o)
                 THEN [fenced EXCEPT ![s] = Carried(s, knows'[s])]
                 ELSE fenced
    /\ call' = IF Acquires(o) /\ observed[s] # None
               THEN [call EXCEPT ![s] = Acquiring(s, observed[s], Attempts)]
               ELSE call
    /\ UNCHANGED <<epoch, shadow, token, record, observed, diagnosed, gaveUp,
                   sync, seen, backing, evid>>

\* barrier, close_epoch: nobody leaves before all have arrived.
Barrier ==
    /\ epoch < MaxEpoch
    /\ \A s \in Subgroups : IsIdle(s)
    /\ epoch' = epoch + 1
    /\ knows' = [s \in Subgroups |-> Ids]
    /\ evid' = [s \in Subgroups |-> Ids]
    /\ diagnosed' = {}
    /\ gaveUp' = {}
    /\ UNCHANGED <<shadow, token, record, pending, observed, call,
                   sync, fenced, seen, backing>>

Next ==
    \/ \E s \in Subgroups, c \in Cells, k \in Kinds : Access(s, c, k)
    \/ \E s \in Subgroups, a \in Addresses :
         \/ \E o \in StoreOrders : AtomicStore(s, a, o)
         \/ \E o \in LoadOrders : AtomicLoad(s, a, o)
         \/ \E o \in RmwOrders : AtomicRmw(s, a, o)
         \/ \E o \in CasOrders : CompareExchange(s, a, o)
    \/ \E s \in Subgroups : StoreValue(s)
    \/ \E s \in Subgroups : RecordRmw(s)
    \/ \E s \in Subgroups, o \in FenceOrders : AtomicFence(s, o)
    \/ \E s, p \in Subgroups : ImportFrom(s, p)
    \/ \E s \in Subgroups : EndAttempt(s)
    \/ Barrier

Spec == Init /\ [][Next]_vars

(***************************************************************************)
(* Properties.  An access is decided by the state it meets, so each speaks *)
(* of the accesses the state allows.                                       *)
(***************************************************************************)
\* Every variable keeps its range, through all stages of an operation.
DTypeOK ==
    /\ epoch \in 0 .. MaxEpoch
    /\ shadow \in [Cells -> {Empty} \cup Entries]
    /\ token \in [Subgroups -> [Subgroups -> 0 .. MaxEpoch + 1]]
    /\ record \in [Addresses -> [Subgroups -> 0 .. MaxEpoch + 1]]
    /\ pending \in [Subgroups -> 0 .. MaxEpoch + 1]
    /\ observed \in [Subgroups -> {None} \cup Addresses]
    /\ call \in [Subgroups -> Calls]
    /\ diagnosed \subseteq Cells
    /\ knows \in [Subgroups -> SUBSET Ids]
    /\ sync \in [Addresses -> SUBSET Ids]
    /\ fenced \in [Subgroups -> SUBSET Ids]
    /\ seen \in [Subgroups -> SUBSET Ids]
    /\ backing \in [Addresses -> [Subgroups -> SUBSET Ids]]
    /\ evid \in [Subgroups -> SUBSET Ids]
    /\ gaveUp \subseteq Subgroups

\* The id of the access a cell's word describes.
IdIn(c) == <<shadow[c].owner, c, shadow[c].kind>>

\* A diagnostic names two accesses that really race: the one displaced does
\* not happen before the one that reports.  An acquire that ran out of retries
\* (context.hpp 1003-1016) excuses its subgroup until the next barrier.
ReportsAreRaces ==
    \A s \in Subgroups, c \in Cells, k \in Kinds :
        CanAccess(s) /\ Reports(s, c, k) /\ s \notin gaveUp
            => IdIn(c) \notin knows[s]

\* A conflict is suppressed (context.hpp 1155-1156) only for an access that
\* some record the subgroup imported speaks for: the producer released the
\* address after that access.
SuppressedWithEvidence ==
    \A s \in Subgroups, c \in Cells, k \in Kinds :
        CanAccess(s) /\ Suppresses(s, c, k) => IdIn(c) \in evid[s]

\* What the records have published, seen as the abstract `released`.
Released ==
    {r \in Addresses \X Subgroups \X (0 .. MaxEpoch) : record[r[1]][r[2]] > r[3]}

Promise == INSTANCE ReleaseRecords WITH
    Address <- Addresses, Subgroup <- Subgroups, MaxLaunch <- 1, generation <- 1,
    subgroup_epoch <- epoch, released <- Released, acquired_token <- token

\* The detector asks no more of the atomic-object table than it promises: all
\* its operations, orders, fences and retries come down to releases of epochs
\* that have been reached and imports of what is out, also when a pending
\* fence carries its epoch past a barrier (context.hpp:841-862, 864-880).
KeepsPromise == Promise!RSpec
==============================================================================
