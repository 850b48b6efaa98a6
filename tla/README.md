# A TLA+ verification of hip-moi

hip-moi is a race detector for LDS (workgroup-shared) memory on AMD GPUs. A
kernel is written against `hip_moi::context`: every instrumented LDS access,
atomic and barrier goes through a device-side context object that keeps
metadata in global memory, and a host-side `host_context` owns that memory and
reports the diagnostics. This directory holds TLA+ models of the library,
TLC configurations that check them on small instances and TLAPS proofs of what
matters most. Line numbers are those of `src/include/hip_moi/`.

## The system

| Component | State | Operations | What is hard about it |
| --- | --- | --- | --- |
| atomic-object table (`context.hpp` 590-783, 864-1016) | open-addressing table of release records, matrix of acquired tokens | release, acquire (bounded retry) | lock-free: claim by compare-and-swap, publication by a generation, never cleared between launches |
| atomic operations (`context.hpp` 228-472) | pending release fence and last observed atomic of a thread | load, store, read-modify-write, compare-exchange, fences | metadata before the store, but after the read-modify-write |
| exact shadow (`context.hpp` 1018-1163, `shadow.hpp`) | one packed word per 4-byte LDS cell | access: exchange the word, compare, report | keeps one access per cell, epochs of 10 bits, suppression by tokens |
| barriers and epochs (`context.hpp` 131-161, 474-545, 1527-1541) | epoch per subgroup, arrival counter | `init_workgroup`, `barrier`, `close_epoch`, `simulate_syncthreads` | every thread must agree on the epoch |
| address cache (`context.hpp` 785-839, 896-944) | direct-mapped producer masks | insert, consult | a hint only; bounded insertion |
| sampled watchpoints (`context.hpp` 1165-1525) | table of packed ranges | publish, scan | sampling, scan coverage, split of wide ranges |
| publish-only sampled context (`sampled_watchpoint_context.hpp`) | the same table, local epoch | publish | must publish what `context` would |
| host context (`host_context.hpp`) | one device allocation, generation, options, consumed flag | construct, `launch_ref`, consume, destroy | memory layout within a budget, diagnostics survive until consumed |
| diagnostics (`common.hpp` 209-225) | bounded array and counter | emit | lost, overwritten or overflowing diagnostics |
| native atomics (`common.hpp` 246-656) | none | wrappers over compiler builtins | none: out of the model |
| clients (`tests/`, `benchmarks/`, `docs/`) | none of the library's | kernels that use the API | external |

The parts interact through shared memory only. A barrier waits for every
thread, raises the epoch of every subgroup and lets them go. An access packs
its kind, subgroup, epoch and generation into a word, exchanges it with the
cell's word and reports a conflict if the displaced access is of the same epoch
and generation, of another subgroup, one of the two is a write, and the token
`acquired[current][prior]` does not cover the prior's epoch. Tokens are raised
by acquires from the records that releases put into the atomic-object table.
The host hands out a fresh generation for each launch, which makes the records
and shadow words of earlier launches stale without clearing them.

### What makes each part correct

- **Atomic-object table.** A published release is found by every search that
  begins later; a slot is claimed by one lane and given back by it; a stale slot
  never precedes a record of the launch on its chain; a release is dropped only
  when no slot is left; no call waits for another lane.
- **Atomic operations and fences.** A token is never ahead of what its producer
  released, and is there whenever the value that orders two accesses has been
  read, although value and metadata are separate steps.
- **Exact shadow.** A report names two accesses that race; a suppressed conflict
  has a record that speaks for it; a cell with a race gets a report.
- **Barriers.** The epoch changes for all threads at once and only when all have
  arrived; a launch starts with fresh epochs and tokens; a barrier that a thread
  sits out is told of, and nobody is left behind in one.
- **Address cache.** It may cost time and never a record.
- **Sampled watchpoints.** A conflict that the table shows is found by a full scan;
  the words of an access cover just its cells, in both contexts; a report is of a
  real conflict, whatever older words the table still holds.
- **Host context.** A diagnostic is told of before the context goes; a record that
  is copied is whole; no launch has the generation of leftover metadata; the
  layout fits its budget and is the one the device assumes.

## The models

| Module | Models | State and actions |
| --- | --- | --- |
| `ReleaseRecords` | what the table promises | `released`: the set of published (address, producer, epoch); `Release`, `Import` of one released epoch into the token matrix, `Barrier`, `Launch` |
| `AtomicTable` | `find_or_claim_atomic_object_record`, `record_atomic_release*`, `find_atomic_object_record`, `try_import_*`, `record_atomic_acquire` | the slots, the tokens, one `call` record per lane with a program counter; one action per access to shared memory. `INSTANCE ReleaseRecords` maps `released` to what the current slots say |
| `AddressCache` | `cache_atomic_release`, `record_atomic_rmw_release`, the consultation in `try_record_atomic_acquire`, `consume_pending_release_fence`'s table-only release | extends `ReleaseRecords`; the cache slots and one `call` record per lane; one action per access to the cache, one per search of the table |
| `ExactDetector` | `load`/`store` checks, `atomic_*`, `atomic_fence`, `barrier` | shadow words, tokens, records, pending fences, observed addresses, the stage of each subgroup's operation; beside them what is really ordered (below) |
| `BarrierProtocol` | `init_workgroup`, `barrier`, `close_epoch`, `simulate_syncthreads`, `close_current_epoch`, and the loop of `record_exact_shadow_access` over the cells of an access | one program counter per thread around the two native `__syncthreads`; epoch words, arrival counter, shadow words of all launches. `INSTANCE ExactDetector` maps each launch to the one-step barrier and access |
| `SampledWatchpoint` | `record_sampled_watchpoint_*` and the scan of `context`, `record_access_at` and both of its paths in `sampled_watchpoint_context` | the table, tokens, one `call` record per subgroup; one action per chunk published and per slot scanned |
| `HostContext` | `launch_ref`, `device_ref`, `consume_diagnostics`, `check_or_abort`, the destructor, `init_workgroup`'s reset, `emit_diagnostic` | host fields, the stream's queue, the device counter and slots; each blocking HIP call of a consumption is a step that may fail |
| `HostLayout` | `validate_options_or_abort`, `compute_layout_or_abort`, `assign_layout_slices`, the automatic capacities | options, capacities, the stage of the constructor |

How they compose:

- `AtomicTable` implements `ReleaseRecords` (`ImplementsPromise`). `AddressCache`
  is built on the promise: its actions are those of `ReleaseRecords` with the steps
  of the cache around them, so that it keeps to the promise by construction.
  `ExactDetector` has records of its own and is shown to keep to it (`KeepsPromise`).
  Publishing a record and importing one are single steps in both, and the many steps
  they take are `AtomicTable`'s.
- `BarrierProtocol` implements `ExactDetector` without atomics, launch by launch
  (`EachLaunchDetects`): epochs that thread 0 raises word by word are the one epoch
  of `ExactDetector`, and words of earlier launches are empty words.
- `SampledWatchpoint` takes from `BarrierProtocol` that all threads are in one
  epoch, and from `ReleaseRecords` what a token says.
- `HostContext` gives every launch a generation that no metadata bears
  (`FreshGenerations`); `AtomicTable`, `AddressCache`, `BarrierProtocol` and
  `SampledWatchpoint` have launches and rely on it; `ExactDetector` is one launch.
- `HostLayout` gives `AtomicTable` a capacity that is a power of two (its slots
  are taken by a mask) and puts the address cache where the device looks for it.

### Conventions

*Memory* is sequentially consistent. The code publishes a record behind
`__threadfence` and reads metadata through volatile pointers, so that the order of
steps in `AtomicTable` is the order of the code; what a weaker order could do to
the kernel's own atomics is the compiler's affair and left out.

*What is ordered* in `BarrierProtocol` is told by three variables no action of the
code reads: `phase`, the barriers of the launch that every thread took part in,
`fresh`, the accesses in the shadow since the last of them, and `missed`, those
since then that got no word, because a cell lies beyond the shadow. Two diagnostics
tell of what the detector cannot see: `short`, that the launch has fewer epoch words
than subgroups, and `beyond`, that an access left the shadow. A kernel is a script of
barriers, the same for all threads, which is what `__syncthreads` demands; that a
thread sits a simulated barrier out is the divergence the code reports.

*Bounds* of the models are constants called `Max...`. `Attempts`, `ClaimAttempts`,
`AcquireRetries`, `CacheAttempts`, `EpochModulus`, `GenerationModulus`, `OwnerModulus`,
`AutoDivisor`, `MaxAutoBytes`, `MaxInt`, `MaskBits`, `Granule`, `MaxStart` and `MaxCount`
are constants of the code, which the runs take smaller. A word of the shadow has ten bits
for its owner; `BarrierProtocol` cuts the subgroup to `OwnerModulus`, while `ExactDetector`
and `SampledWatchpoint` keep it whole: more than 1024 subgroups are more than a workgroup has.
`ConfiguredThreads` is the thread count a program configures, 0 for none.

*Disciplines* are Boolean constants that say what kernels and programs do. The
library does not enforce them, and what happens without them is in "Limits of the
detector" below:

- `ReleaseLast`: a kernel makes no access after a release in an epoch. It gives a
  token, which covers an epoch, the meaning "all accesses of that epoch".
- `Transitive`: FALSE reads "ordered" as handed over directly, from the subgroup
  that accessed to the one that reports; TRUE lets order pass through third ones.
- `FencesPaired`: a fence goes with the atomic next to it, the pattern of
  `docs/atomics.md:219-235`. Between a relaxed read and its acquire fence a subgroup
  reads no other atomic (`ReadsPaired`). After a release fence, the write that
  consumes it may go anywhere; a later relaxed write of the epoch, which still
  carries what the fence covers, goes to an address that has a record of the epoch
  (`WritesPaired`). FALSE lets fences and atomics follow one another in any order.
- `LaggingReleases`: whether releases may carry an older epoch, as those that
  consume a pending release fence do.
- `ReadsBetween`, `LaunchesRefs`: a program consumes before it takes a new ref, and
  launches a ref it took. There is one stream and one host thread.

*What is really ordered* in `ExactDetector`. `<<s, c, k>>` names the latest access
of kind `k` by subgroup `s` to cell `c`. `knows[s]` is what happens before the next
step of `s`; a new access removes its name from everybody else's knowledge. A
releasing store puts the knowledge of its subgroup into `sync` of the address; an
acquiring load takes it from there; relaxed ones go through `fenced` and `seen`
and need the fences; a barrier tells everybody everything. None of this is read by
an action of the detector. `backing` and `evid` do the same for records and
tokens: the accesses a record, and a subgroup's imports, may speak for.

`gaveUp` holds the subgroups whose retries ran out while a record was still on its
way. The code's answer to this is to leave the conflict diagnosable, and
`ReportsAreRaces` excuses those subgroups until the next barrier.

One thread stands for a subgroup in `ExactDetector`: the pending fence and the
observed address are members of a thread's context, and lanes that share a
subgroup never conflict. What lanes of one subgroup do to each other is in
`AtomicTable`, where two of the three lanes share one.

## What the runs check

| Run | Instance | What it shows |
| --- | --- | --- |
| `address_cache` | a storing, an updating and an acquiring lane of 3 subgroups, 2 addresses in one cache slot, a mask of 2 bits, 2 launches, 2 epochs | `AcquireComplete`: an acquire brings every release that was out when it began, whatever the cache forgot, mixed up or was still writing; `SlotsOwned`, `MaskBacked`, `OpenSlotsKept` on the way; `WaitFree`: no call waits for the owner of a slot; `TokensBacked` of the promise |
| `table` | 3 lanes in 2 subgroups, 1 address, 2 slots, one chain for all keys, 2 launches, a retry, no lagging releases | `ClaimsOwned`, `ChainUnbroken`, `NoReleaseOverlooked`, `FullMeansNoRoom`, and that the table implements the promise, in every interleaving; leftovers of the first launch are stale slots. `NewestImported`: a search imports the newest epoch its key had when the search began. `WaitFree` and `NeverStuck`: every call ends after a bounded number of its own steps |
| `table_join` | the same lanes, one launch, lagging releases | Finding 1 |
| `detector_barriers` | 3 threads in 2 subgroups, one of them beyond the full subgroups, 2 cells, stores of both cells or of one in the shadow and one beyond it, every script of 2 barriers, 2 launches, epoch words for one or both subgroups | `EpochsInStep`; with epoch words for all a report is of a race (`ReportsAreRaces`); a race is reported, unless the launch has told that its epoch words do not suffice or that the other access was beyond the shadow (`RacyCellReported`); `DivergenceTold`; `AllLeave`: once a thread is at a barrier, all get out of it; `EachLaunchDetects` |
| `detector_handoffs` | 2 subgroups, loads and stores of 1 cell, 1 flag, 2 epochs | Acquiring loads, releasing stores, relaxed ones after release fences: `ReportsAreRaces`, `SuppressedWithEvidence`; `KeepsPromise`: records and tokens of the detector are those of `ReleaseRecords` |
| `detector_rmw` | 2 subgroups, stores to 1 cell, 2 flags, 1 epoch | `ReportsAreRaces` under read-modify-writes, compare-exchanges with two orders and acquire fences: retries make up for values that are out before their records, and an acquire fence, which searches only the last atomic observed, is enough |
| `detector_arrivals` | 3 subgroups, a counter | Finding 2 |
| `sampled_watchpoints` | 2 subgroups, 4 cells of 4 bytes, words of at most 2 cells, 4 slots, a full scan; an unaligned access of 9 bytes, a scalar across two cells, one beyond the last cell; 2 launches with either context, 2 epochs | `RangeTiled`, `ConflictsTold`, `ReportsAreRaces` |
| `sampled_scan` | the same with 3 slots | Finding 4 |
| `host_consume` | 3 launches of up to 3 diagnostics by 2 lanes, 2 slots, generations modulo 4 | `NoDiagnosticLost`, `ReportIsWhole`, `FreshGenerations`, `AbortsForUnread`, with failing HIP calls and a destructor that may come at any time |
| `host_launches` | 2 launches of one diagnostic | Finding 3 |
| `host_layout` | budgets of 150 to 620 bytes, one by one, both backends, automatic, zero and fixed capacities, 1, 2 and 6 subgroups, a largest int of 30 | `SlicesFit`, `CacheBehindTable`, `BudgetUsed`; `AbortsOnlyForCause`: valid options are turned down for lack of room or because a number outgrows an int; what is allocated has capacities that are ints (`LTypeOK`) |

Most modules have a type invariant that a run checks or a theorem proves. A comment "Mutant" in a
module marks an operator that is a plausible bug; each property has one that
breaks it, so that none of them holds whatever the code does.

### Why the bounds are enough to be interesting

- *Table.* Lagging releases are in `table_join` and in the proofs. Three lanes, two of one subgroup, are what a race for one key and a race
  of two keys for one slot take. With two slots and a hash that sends every key to
  the last slot all chains collide, wrap and fill the table. Two claim attempts
  include the one that is repeated because a slot was claimed; the code has four.
  The proofs cover every table, hash, budget and number of lanes and addresses.
- *Cache.* Two addresses in one slot are a collision; the third subgroup has no bit
  in the mask and only acquires. Two attempts are a first one and a retry, and a
  launch in between leaves a stale slot to claim.
- *Detector.* Two flags, in `detector_rmw`, are what it takes to forget an observed
  atomic before the acquire fence. Two subgroups make a handoff; a third one arrives
  in between in `detector_arrivals`. Two epochs, in `detector_handoffs`, are what a
  record or a fence of an earlier epoch takes. Two attempts are a first one and a
  retry. Several flags in several epochs, both fences at once, and a release fence
  before a read-modify-write are beyond the runs and left to the proofs.
- *Barriers.* Three threads with one thread per subgroup and two subgroups give the
  last subgroup the thread that is beyond the configured ones. Two barriers are
  one whose count must not leak into the other; two launches leave words of the
  first behind for the second. `EpochModulus` and `GenerationModulus` are larger
  than the epochs and launches of a run, as 10 and 20 bits are larger than those
  of most programs, and `OwnerModulus` is the number of subgroups. Accesses of one
  cell, loads and atomic kinds are left to the theorems, of which that on
  `RacyCellReported` is about stores: with a range of one cell the run outgrows its time.
- *Sampled.* An access of 3 cells takes two words of at most 2; the words of the
  first launch collide with those of the second in other slots than their own.
  Every odd step is tried at every scan, not only the one the hash would give.
- *Host.* Three launches go once around a generation modulo 4 and meet the wrap,
  which skips 0; three diagnostics overflow two slots.
- *Layout.* The records have their real sizes and alignments. `AutoDivisor` 6 and
  `MaxAutoBytes` 96 instead of 64 and 256 KiB let budgets of some hundred bytes
  reach the minimum, the share and the limit. The budgets cover every remainder
  of the alignment many times. With `MaxInt` 30 an automatic table outgrows an int
  from about 400 bytes on, and the tokens of 6 subgroups always do; the automatic
  diagnostics and atomic objects do not, as 256 KiB of them never would.

### Fairness

`AllLeave` assumes, of `BarrierProtocol`: weak fairness of thread 0's work between
the two native barriers, of the native barriers (a `__syncthreads` opens when all
threads are at it) and of the next exchange of a thread in an access; strong
fairness of a thread's next barrier call, because a thread may make accesses in
between, each of which disables the call for a while: a kernel makes finitely many
of them between two barriers. The GPU schedules every resident wave, and
`__syncthreads` is defined to open; nothing else is assumed.

The calls of the table and the cache need no fairness. Lanes of one wave share a program counter, and
a lane that waited for another one could wait for ever. `NeverStuck` says that a
lane in a call always has a next step, whatever the others do or have stopped
doing, and `WaitFree`, of both modules, that each such step lowers a rank that is a natural number
and that the steps of other lanes do not raise: every call returns after a bounded
number of its own steps.

The other properties are of safety, under no fairness. Deadlock is checked in every
run but `host_layout`, where the constructor ends.

## Findings

Four runs check what the documentation says and the code does not do.

1. `table_join`. *Releases of one subgroup to one address join by the maximum*
   (`docs/atomics.md:131-132`). Two lanes of the subgroup that find no record may
   claim two slots, since a lane that meets a claimed slot goes on to the next
   (`context.hpp:654-672`). The records never join; a search stops at the first,
   which may be the older. Without lagging releases the record a search meets
   first is the one later releases raise, and `NewestImported` holds
   (`table`).
2. `detector_arrivals`. *Arrival counters suppress ordered payload diagnostics*
   (`docs/atomics_fast_paths.md:37`). The last arriver stops retrying with the
   first producer whose record it finds (`context.hpp:960`, `1007`), also when
   another one's value is in the counter and its record is not out yet.
3. `host_launches`. *If the program did not consume the diagnostics, the destructor
   reports them* (`docs/tutorial/README.md:221-222`). `init_workgroup` of the next
   kernel clears the counter first (`context.hpp:137`).
4. `sampled_scan`. *A probe count of 0 scans the whole watchpoint table*
   (`host_context.hpp:34`, `docs/context.md:131-132`). The step of a scan is odd
   before it is taken modulo the capacity (`context.hpp:1419-1429`); only if the
   capacity is a power of two does that make the probes visit every slot. The
   automatic capacity, which the documented recipe of a full scan leaves in place
   (`docs/context.md:239-244`), is what fills the budget, and for the default
   16 MiB it is no power of two.

### Limits of the detector

Each of these is what a property says when a discipline is lifted or a bound
widened. They are designed or documented limits, and they show what the
disciplines are for.

| Change | What fails | Because |
| --- | --- | --- |
| `detector_rmw` with `MaxEpoch = 1` | `ReportsAreRaces` | a record of an earlier epoch, left at the address, ends the retries (`context.hpp:1007`) |
| 3 subgroups, 2 flags, `Transitive = TRUE` | `ReportsAreRaces` | an acquire imports the producer's epoch and not the producer's tokens (`context.hpp:979`) |
| acquire loads of releasing read-modify-writes | `ReportsAreRaces` | `atomic_load` looks once, and the record comes after the value (`context.hpp:240`, `281-289`) |
| `ReleaseLast = FALSE` | `SuppressedWithEvidence` | a token covers the accesses after the release too (`context.hpp:1052`) |
| loads in `detector_barriers` | `RacyCellReported` | a subgroup's read displaces its own write (`context.hpp:1154`) |
| `EpochModulus = 2` in `detector_barriers` | `ReportsAreRaces` | the word's epoch is that of `EpochModulus` barriers ago (`shadow.hpp:117`) |
| `ConfiguredThreads = 2` in `detector_barriers` | `EpochsInStep`, `ReportsAreRaces`, `RacyCellReported`, `DivergenceTold` | arrivals are compared with the configured count (`context.hpp:490`) |
| `OwnerModulus = 1` in `detector_barriers` | `RacyCellReported` | the word's owner is the subgroup modulo 2^10 (`shadow.hpp:75`) |
| `GenerationModulus = 1` in `detector_barriers` | `EachLaunchDetects`, `ReportsAreRaces` | the word's generation is that of 2^20 launches ago, and nobody clears it (`shadow.hpp:120`) |
| `ProbeCount = 1` in `sampled_watchpoints`, the default | nothing, as `ConflictsTold` is about full scans | the first probe is the slot just written (`context.hpp:1449-1452`): one probe looks at no other slot, although `docs/context.md:130-131` speaks of additional slots |
| `FencesPaired = FALSE` in `detector_rmw`, also with relaxed stores between both fences | `ReportsAreRaces` | an acquire fence searches for the last observed atomic only (`context.hpp:467`), and the first write consumes a release fence (`context.hpp:858`); either half of the discipline alone is not enough |
| publish-only kernels in `host_consume` | `AbortsForUnread` | they do not clear the counter, so what was consumed is counted again (`host_context.hpp:129`) |

## What is proved

The proofs are in `...Proofs` modules and hold for all values of the constants
that satisfy the named assumptions of the modules.

**`ReleaseRecordsProofs`.** `RInv`, the conjunction of type, `TokensBacked` and
`NothingAhead`, is inductive: `RInvariance`, `EveryTokenBacked`, `NothingIsAhead`.
`TokensGrow` follows from the type and from `RaiseTo` never lowering.

**`AtomicTableProofs`.** `ClaimsOwned` and `ChainUnbroken` are not inductive. `IInv`
adds what a lane knows at each program counter (`CallFacts`: the slot it is about
to compare is current, the one it fills is claimed, the one it claims has the
generation it saw or is no longer stale), that the walk of a release has left no
stale slot behind it (`WalkSolid`), that the record a search is owed lies ahead of
it (`RowAhead`), and that current rows carry epochs that have been reached
(`RowsValid`). The proof rests on two observations: slots of the launch never
become stale again, so what a walk has passed stays passed; and only the lane that
claimed a slot changes its key, so what the others know of it stays true. For each
action one lemma says what it does to its own lane and one that the others keep
their facts. From `Invariance` follow `TypeCorrect`, `ClaimsAreOwned`,
`ChainsUnbroken`, `ReleasesAreFound`, `FullIsFull` and `Refinement`: every step is
a step of `ReleaseRecords` or changes nothing it sees. `FillRow` is invisible
because the slot is still claimed; `RecordEpoch` and `PublishRow` are the abstract
`Release`, whose epoch the row reaches by a maximum.

**`ExactDetectorProofs`.** `DetectorTypeCorrect` holds without conditions.

`SuppressionIsBacked` needs `ReleaseLast` and `MaxEpoch < EpochModulus`, and holds
for all operations and orders, retries and fences included. Its invariant `Speaks`
says of each place where an epoch is written down (record, fence, token) that it
is not ahead, and that if it is the present one, the accesses of its producer are
among those it speaks for. An access of the producer would break that, and
`ReleaseLast` excludes it after a release in the epoch.

`HandoffsAreQuiet` and `PairsAreQuiet` are `ReportsAreRaces`, for any number of cells,
under conditions that "Limits of the detector" and finding 2 show to be needed:
order is handed over directly or there are only two subgroups (`Direct`), and
kernels with fences pair them with the atomic next to them or have only one address
(`FencesSeeAll`), since an acquire fence looks at one and a release fence is consumed by
the first operation. Then it depends on what
comes first. `HandoffsAreQuiet`: if no read-modify-write releases and no release fence
precedes one (`RecordsFirst`), every record is out before its value, and any number of
subgroups may synchronize over any number of epochs: by flags, by spin locks (an
acquiring exchange and a releasing store), by relaxed operations between fences.
`PairsAreQuiet`: if the value may come first, there must be two subgroups, no barrier,
no acquiring load (it looks once) and more than one attempt (`Pairs`). The runs
`detector_handoffs` and `detector_rmw` are instances of the two, each with some of
the orders and fences the theorems allow.

Both have the inductive invariant `Handoff`, which follows an access of the present
epoch on its way. What an address carries has a record, or its producer is about to
put one out (`SyncBacked`); so has what a release fence covers when the next value
goes out (`FencesBacked`, `StoresBacked`), and what relaxed reads have left to an
acquire fence (`SeenBacked`). With several addresses a fence must further have been paid for by the
record of the address its writes go to (`FencePaid`), and what relaxed reads have left
is of the atomic remembered (`LooksAt`). Whoever knows the access has a token for it, is still to
search for its record, has found it missing in an attempt that will be repeated, or
has given up (`KnownCovered`). A step of one subgroup is `Quiet` for the others, whose
facts stay (`OthersKeep`); one lemma per action shows the facts of its own.

`DetectorKeepsPromise` has no condition at all: with `released` mapped to the epochs
below each record, every step is a step of `ReleaseRecords` or changes nothing it sees.
A search imports from others only (`SearchesOthers`), and what a pending fence
publishes has been reached, also behind a barrier (`Reached`), since the abstract
`Release` takes any epoch up to the present one.

**`AddressCacheProofs`.** `CInv` is the type; `Owners`, who has claimed which slot;
`InsertFacts`, what a lane that inserts knows of its slot; `Masks`, that a slot of
this launch names only producers that have released to its address or hold their
record ready; and `AcquireFacts`, that of the releases an acquire is owed those
behind it are imported and those before it are still on its list. `Effect` is what
a step of one lane leaves to all others: one lemma per action proves it and the
lane's own facts, and one lemma proves from `Effect` that the facts of the others
stay. From `CacheInvariance` follow `CachedTokensBacked`, `ClaimedOnce`, `MasksBacked`,
`OpenSlotsStay` and `NoReleaseMissed`: a full mask may be wrong, stale or torn by
a collision, and no acquire loses a record by it, because the table is searched for
all producers that the mask did not name. `CachedCallsEnd` (`WaitFree`) shows that every
step of a call lowers its `Rank`: a failed attempt of an insertion is used up, also
when the owner of the slot never opens it (`Budget`), and an acquire's lists, which have
no more producers than there are subgroups (`ToDoSize`), only get shorter.

**`BarrierProtocolProofs`.** `BInv` says where the threads may be together (`Modes`:
all on their way to the barrier, or all but thread 0 behind it), how many barriers
lie behind each (`Levels`), what the arrival counter counts (`Counts`, by the
cardinality of the threads that have arrived) and which epoch words thread 0 has
raised already (`Epochs`). It gives `EpochsKeepStep` and `DivergenceIsTold` for all
threads, scripts and launches. Every theorem of the module assumes `Configured`: the
configured thread count is that of the threads. `SInv` adds that no word is ahead of its launch and
phase and that a word of the present ones is that of a fresh access. With `NoWrap`
(fewer barriers and launches than epochs and generations, and no more subgroups than owners) it gives
`BarrierReportsAreRaces` and `LaunchesImplementDetector`, the refinement of
`ExactDetector`: an exchange is its access, the first native barrier, if nobody sits
it out, its barrier, and a launch its initial state, as no word bears the new
generation. `RacyStoresAreReported` needs that kernels only store (see "Limits")
and rests on `LastAccess`: the shadow has the last access of a cell, and if the
cell is not reported yet, all of the phase are of its subgroup; and on `Told`, that
missing epoch words and accesses beyond the shadow have been told of by then.

**`SampledWatchpointProofs`.** `SInv` is the type of calls and words, and that what an
access in flight has published tiles its cells up to the next chunk (`InChunks`). It
gives `SampledTypes` and `AccessesAreTiled` for every start, size, granule and both
contexts. `SampledReportsAreRaces` needs `NoWrap` (fewer epochs and launches than
the bits of a word count) and `Dated`: no word is ahead of its launch and epoch, and
one of the present ones names an access that was made. `ScansTellAll` follows what
is due to be reported: while a scan is on, each such slot lies ahead of it on its
walk (`Tracked`). That the walk comes to every slot takes `Capacity \in PowersOfTwo`,
the least set that holds 1 and is closed under doubling: by the halving of the
capacity, an odd step times a number below the capacity is no multiple of it.
Without the assumption finding 4 contradicts the conclusion.

**`HostContextProofs`.** `HInv` says that kernels run in the order of their launches
(`Order`), which kernel the device counter counts (`Counter`), and that an index below
it is filled or in a lane's hand (`Filled`). It gives `ReportsAreWhole` for all
programs. The other theorems have the disciplines of a program as assumptions. With
`LaunchesRefs` and fewer launches than generations the number of refs tells the
generation (`Numbered`), hence `GenerationsAreFresh`; a ref that is never launched
uses up a generation, which is what the assumption excludes. With `ReadsBetween` as
well, all launches but the last are settled, that is, told or without diagnostics
(`Accounted`), hence `NothingIsLost`, whichever HIP calls fail. When every kernel
clears the counter, what the destructor would consume has not been told (`Unread`),
hence `TheAbortIsForUnread`.

**`HostLayoutProofs`.** `LInv` says that all capacities are those the options fix, but
for an automatic table of the backend, one record more of which would not fit, that they
are ints, and why the constructor has refused. It gives `LayoutTypes`,
`BudgetIsUsed` and `RefusalsAreDue`; `SlicesAlwaysFit` and `CacheFollowsTable` follow
by the slices one by one. The proof first derives induction on the naturals from
the well-foundedness of proper inclusion, and with it that the recursion of `Ends`
has a solution and that between `n` and `2n - 1` there is a power of two.

In `AtomicTableProofs`, `CallsEnd` shows that every step of a call lowers its `Rank`,
which needs that attempts stay within their budgets (`Budgets`). `NewestIsImported`
holds without lagging releases. It needs that the epochs of a key never rise along
its chain (`Descending`), although two lanes may have published two records of it;
what a release knows of the records behind it (`WalkNewest`: they are of the present
epoch); and that the first record ahead of a search has all the search is owed
(`SearchNewest`).

**Only model-checked**: `NeverStuck` (a statement about `ENABLED`) and `AllLeave`
(liveness), which are beyond the prover. Every other property of a passing run is
stated by a theorem.

## What is not modelled

- *Which accesses sampling selects*: an access that is not selected changes nothing,
  and any access may be one that is.
- *Wide accesses under atomics*: accesses of several cells are in `BarrierProtocol`
  and `SampledWatchpoint`; `ExactDetector`, with atomics, has one cell per access.
- *Threads that leave a kernel early*, or call different barriers: undefined for
  `__syncthreads` itself.
- *Overflow of the diagnostic counter*: it takes 2^31 diagnostics in a launch.
- *Native atomics, hashing, site ids, configuration*: without state. Hashes are
  any function of the key.
- *Clients* (tests, benchmarks, tutorial): they are the programs the models take
  as free choices.

## Plan

Done: `ReleaseRecords`, `AtomicTable` and its refinement, `AddressCache`,
`ExactDetector`, `BarrierProtocol` and its refinement, `SampledWatchpoint`,
`HostContext`, `HostLayout`; theorems on all of them.

Left, the most important first:

1. `ReportsAreRaces` of `ExactDetector` between the two theorems: more than two
   subgroups with releasing read-modify-writes, of which one may give up or be
   satisfied too early (finding 2), under a condition on who arrives when.
2. Coverage of a scan whose step and capacity have no common divisor, for
   capacities that are no powers of two.
3. The hazards of `PROJECT.json` that no property covers: the overflow of the
   diagnostic counter, and a configured thread count that is not the kernel's.
