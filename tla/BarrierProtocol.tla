---------------------------- MODULE BarrierProtocol ----------------------------
(***************************************************************************)
(* The barriers of hip_moi::context, thread by thread: init_workgroup,     *)
(* barrier and close_epoch, and simulate_syncthreads, each built from two  *)
(* native __syncthreads around work that only thread 0 does; and the LDS   *)
(* accesses between them, which read the epoch word of their subgroup and  *)
(* exchange one shadow word after the other.  Metadata is not cleared      *)
(* between launches, except what init_workgroup clears.                    *)
(*                                                                         *)
(* A kernel is a script: the barriers its threads call, the same for all,  *)
(* with any accesses in between.  `phase`, `fresh` and `missed` say what   *)
(* is really ordered: the barriers that every thread has taken part in,    *)
(* and the accesses since the last of them, with a word in the shadow and  *)
(* without.                                                                *)
(***************************************************************************)
EXTENDS Integers, FiniteSets

CONSTANTS
  ThreadCount,         \* threads of the workgroup: blockDim
  ConfiguredThreads,   \* config::thread_count; 0: as many as there are
  ThreadsPerSubgroup,  \* config::threads_per_subgroup
  SubgroupCount,       \* config::subgroup_count
  SubgroupCapacities,  \* storage_ref::subgroup_capacity, one of these
  ShadowCapacity,      \* storage_ref::exact_shadow_entry_capacity
  Ranges,              \* cells of an access: <<first, last>>
  Kinds,               \* its kinds
  OwnerModulus,        \* 2^10, 2^10 and 2^20: the bits of a shadow word's
  EpochModulus,        \* owner, epoch
  GenerationModulus,   \* and generation
  MaxBarriers,         \* bound: barriers of a kernel
  MaxLaunch            \* bound: launches

Thread == 0 .. ThreadCount - 1
Subgroup == 0 .. SubgroupCount - 1
Cell == 0 .. ShadowCapacity - 1
BarrierCalls == {"barrier", "simulate"}

ASSUME BarrierAssumption ==
  /\ ThreadCount \in Nat \ {0}
  /\ ConfiguredThreads \in Int
  /\ ThreadsPerSubgroup \in Nat \ {0}
  /\ SubgroupCount \in Nat \ {0}
  /\ SubgroupCapacities \subseteq Nat \ {0}
  /\ ShadowCapacity \in Nat \ {0}
  /\ \A r \in Ranges : r \in Nat \X Nat /\ r[1] <= r[2]
  /\ Kinds \subseteq {"load", "store"}
  /\ OwnerModulus \in Nat \ {0}
  /\ EpochModulus \in Nat \ {0}
  /\ GenerationModulus \in Nat \ {0}
  /\ MaxBarriers \in Nat
  /\ MaxLaunch \in Nat \ {0}

VARIABLES
  subgroup_capacity,  \* storage_ref::subgroup_capacity
  generation,         \* storage_ref::generation
  subgroup_epoch,     \* subgroup_states[..].epoch
  arrivals,           \* simulated_barrier_arrival_count
  shadow,             \* exact_shadow_entries, which nobody clears
  short,              \* has this launch emitted metadata_full for its epochs?
  beyond,             \* and metadata_full for an access the shadow has no room for?
  divergences,        \* the barrier_divergence diagnostics of this launch
  diagnosed,          \* cells reported since the last barrier
  script,             \* the barriers in the kernel's text
  passed,             \* how many of them each thread has called
  call,               \* where each thread is
  phase,              \* barriers of this launch all threads took part in
  fresh,              \* <<subgroup, cell, kind>> of the accesses since
  missed,             \* and of those that got no word
  absent,             \* threads that sit the present barrier out
  diverged            \* barriers of this launch some thread sat out

host == <<subgroup_capacity, generation, script>>
words == <<subgroup_epoch, arrivals, short, beyond, divergences>>
truth == <<phase, fresh, missed, absent, diverged>>
vars == <<host, words, shadow, diagnosed, passed, call, truth>>

Out == [pc |-> "out"]
At(pc) == [pc |-> pc]
IsAt(t, pc) == call[t].pc = pc
AllAt(pc) == \A t \in Thread : IsAt(t, pc)

Empty == [kind |-> "empty"]

\* The last subgroup takes in the threads beyond the configured ones.
SubgroupOf(t) ==
  LET subgroup == t \div ThreadsPerSubgroup
  IN  IF subgroup < SubgroupCount THEN subgroup ELSE SubgroupCount - 1

\* detail::stored_subgroup_count
StoredCount ==
  IF SubgroupCount < subgroup_capacity THEN SubgroupCount ELSE subgroup_capacity

\* detail::current_epoch
CurrentEpoch(s) == IF s < subgroup_capacity THEN subgroup_epoch[s] ELSE 0

\* Thread 0 goes to work; the others wait for it at the second __syncthreads.
WorkFrom(work) == [t \in Thread |-> IF t = 0 THEN work ELSE At("second")]

Scripts == [1 .. MaxBarriers -> BarrierCalls]

Init ==
  /\ subgroup_capacity \in SubgroupCapacities
  /\ generation = 1
  /\ script \in Scripts
  /\ subgroup_epoch = [s \in Subgroup |-> 0]
  /\ arrivals = 0
  /\ shadow = [c \in Cell |-> Empty]
  /\ short = FALSE /\ beyond = FALSE
  /\ divergences = 0
  /\ diagnosed = {}
  /\ passed = [t \in Thread |-> 0]
  /\ call = WorkFrom(At("clear"))
  /\ phase = 0 /\ fresh = {} /\ missed = {} /\ absent = {} /\ diverged = 0

(***************************************************************************)
(* init_workgroup.                                                         *)
(***************************************************************************)
Fits == SubgroupCount <= subgroup_capacity

\* Mutant: the epochs are left as the last launch left them.
EpochsAtStartKept == subgroup_epoch

EpochsAtStart ==
  [s \in Subgroup |-> IF s < subgroup_capacity THEN 0 ELSE subgroup_epoch[s]]

\* Everybody else waits at the second __syncthreads, so that the stores of
\* thread 0 are one step: the diagnostics begin anew, and the first may be
\* emit_subgroup_capacity_full.
ClearMetadata ==
  /\ IsAt(0, "clear")
  /\ subgroup_epoch' = EpochsAtStart
  /\ arrivals' = 0
  /\ divergences' = 0
  /\ short' = ~Fits /\ beyond' = FALSE
  /\ call' = [call EXCEPT ![0] = At("second")]
  /\ UNCHANGED <<host, shadow, diagnosed, passed, truth>>

(***************************************************************************)
(* LDS accesses.                                                           *)
(***************************************************************************)
\* The word an access leaves in its cells.
Packed(t, k) ==
  [kind |-> k, owner |-> SubgroupOf(t) % OwnerModulus,
   epoch |-> CurrentEpoch(SubgroupOf(t)) % EpochModulus,
   generation |-> generation % GenerationModulus]

FitsShadow(r) == r[2] < ShadowCapacity

\* An access that the shadow has no room for is told of and leaves no word.
BeginAccess(t, r, k) ==
  /\ IsAt(t, "out")
  /\ IF FitsShadow(r)
     THEN /\ call' = [call EXCEPT ![t] = [pc |-> "exchange", cell |-> r[1],
                                          last |-> r[2], word |-> Packed(t, k)]]
          /\ UNCHANGED <<beyond, missed>>
     ELSE /\ beyond' = TRUE
          /\ missed' = missed \cup {<<SubgroupOf(t), c, k>> : c \in r[1] .. r[2]}
          /\ UNCHANGED call
  /\ UNCHANGED <<host, subgroup_epoch, arrivals, short, divergences, shadow, diagnosed,
                 passed, phase, fresh, absent, diverged>>

\* Mutant: the generations are not compared.
ConflictsAcrossLaunches(word, prior) ==
  /\ prior.kind # "empty"
  /\ word.epoch = prior.epoch
  /\ word.owner # prior.owner
  /\ "store" \in {word.kind, prior.kind}

\* exact_shadow_entries_conflict.  Without atomics all tokens are 0 and
\* current_access_acquired_prior_epoch is false.
WordsConflict(word, prior) ==
  /\ prior.kind # "empty"
  /\ word.epoch = prior.epoch
  /\ word.generation = prior.generation
  /\ word.owner # prior.owner
  /\ "store" \in {word.kind, prior.kind}

\* One turn of the loop of record_exact_shadow_access.
Exchange(t) ==
  /\ IsAt(t, "exchange")
  /\ LET c == call[t].cell
         word == call[t].word
     IN  /\ shadow' = [shadow EXCEPT ![c] = word]
         /\ diagnosed' = IF WordsConflict(word, shadow[c])
                         THEN diagnosed \cup {c} ELSE diagnosed
         /\ fresh' = fresh \cup {<<SubgroupOf(t), c, word.kind>>}
         /\ call' = [call EXCEPT ![t] = IF c < call[t].last
                                        THEN [@ EXCEPT !.cell = c + 1] ELSE Out]
  /\ UNCHANGED <<host, words, passed, phase, missed, absent, diverged>>

(***************************************************************************)
(* The native barrier, and what the threads do around it.                  *)
(***************************************************************************)
Called(t) == script[passed[t]]

\* barrier, close_epoch: straight to the first __syncthreads.
CallBarrier(t) ==
  /\ IsAt(t, "out") /\ passed[t] < MaxBarriers
  /\ script[passed[t] + 1] = "barrier"
  /\ passed' = [passed EXCEPT ![t] = @ + 1]
  /\ call' = [call EXCEPT ![t] = At("first")]
  /\ UNCHANGED <<host, words, shadow, diagnosed, truth>>

\* Mutant: a thread that does not take part returns at once.
AbsenteeLeaves == Out

AbsenteeGoes == At("first")

\* simulate_syncthreads: who takes part is counted.
CallSimulate(t, participates) ==
  /\ IsAt(t, "out") /\ passed[t] < MaxBarriers
  /\ script[passed[t] + 1] = "simulate"
  /\ passed' = [passed EXCEPT ![t] = @ + 1]
  /\ arrivals' = IF participates THEN arrivals + 1 ELSE arrivals
  /\ absent' = IF participates THEN absent ELSE absent \cup {t}
  /\ call' = [call EXCEPT ![t] = IF participates THEN At("first") ELSE AbsenteeGoes]
  /\ UNCHANGED <<host, subgroup_epoch, short, beyond, divergences, shadow, diagnosed,
                 phase, fresh, missed, diverged>>

Close == [pc |-> "close", next |-> 0]

\* Mutant: no second __syncthreads.
BehindFirstFree(work) == [t \in Thread |-> IF t = 0 THEN work ELSE Out]

BehindFirst(work) == WorkFrom(work)

\* The first __syncthreads opens.  This is where a barrier orders.
FirstSync ==
  /\ AllAt("first")
  /\ call' = BehindFirst(IF Called(0) = "simulate" THEN At("count") ELSE Close)
  /\ IF absent = {}
     THEN /\ phase' = phase + 1 /\ fresh' = {} /\ missed' = {} /\ diagnosed' = {}
          /\ UNCHANGED diverged
     ELSE diverged' = diverged + 1 /\ UNCHANGED <<phase, fresh, missed, diagnosed>>
  /\ absent' = {}
  /\ UNCHANGED <<host, words, shadow, passed>>

ExpectedCount == IF ConfiguredThreads > 0 THEN ConfiguredThreads ELSE ThreadCount

\* Thread 0 compares the count with the configured one.
CountArrivals ==
  /\ IsAt(0, "count")
  /\ IF arrivals = ExpectedCount
     THEN call' = [call EXCEPT ![0] = Close] /\ UNCHANGED divergences
     ELSE /\ divergences' = divergences + 1
          /\ call' = [call EXCEPT ![0] = At("reset")]
  /\ UNCHANGED <<host, subgroup_epoch, arrivals, short, beyond, shadow, diagnosed,
                 passed, truth>>

\* Mutant: the last word is left out.
LastToCloseShort == StoredCount - 1

LastToClose == StoredCount

\* close_current_epoch: one epoch word after the other
CloseEpoch ==
  /\ IsAt(0, "close")
  /\ LET next == call[0].next IN
     IF next < LastToClose
     THEN /\ subgroup_epoch' = [subgroup_epoch EXCEPT ![next] = @ + 1]
          /\ call' = [call EXCEPT ![0].next = next + 1]
     ELSE /\ call' = [call EXCEPT
                        ![0] = At(IF Called(0) = "simulate" THEN "reset" ELSE "second")]
          /\ UNCHANGED subgroup_epoch
  /\ UNCHANGED <<host, arrivals, short, beyond, divergences, shadow, diagnosed, passed,
                 truth>>

\* Mutant: the count is reset only if everybody took part.
CountAfterIfComplete == IF arrivals = ExpectedCount THEN 0 ELSE arrivals

CountAfter == 0

ResetCount ==
  /\ IsAt(0, "reset")
  /\ arrivals' = CountAfter
  /\ call' = [call EXCEPT ![0] = At("second")]
  /\ UNCHANGED <<host, subgroup_epoch, short, beyond, divergences, shadow, diagnosed,
                 passed, truth>>

SecondSync ==
  /\ AllAt("second")
  /\ call' = [t \in Thread |-> Out]
  /\ UNCHANGED <<host, words, shadow, diagnosed, passed, truth>>

\* The kernel ends and the next one starts, under the next generation.
Launch ==
  /\ AllAt("out")
  /\ \A t \in Thread : passed[t] = passed[0]
  /\ generation < MaxLaunch
  /\ generation' = generation + 1
  /\ script' \in Scripts
  /\ passed' = [t \in Thread |-> 0]
  /\ call' = WorkFrom(At("clear"))
  /\ diagnosed' = {}
  /\ phase' = 0 /\ fresh' = {} /\ missed' = {} /\ absent' = {} /\ diverged' = 0
  /\ UNCHANGED <<subgroup_capacity, words, shadow>>

CallOf(t) == CallBarrier(t) \/ \E participates \in BOOLEAN : CallSimulate(t, participates)

Work == ClearMetadata \/ CountArrivals \/ CloseEpoch \/ ResetCount
Sync == FirstSync \/ SecondSync

Next ==
  \/ \E t \in Thread, r \in Ranges, k \in Kinds : BeginAccess(t, r, k)
  \/ \E t \in Thread : Exchange(t) \/ CallOf(t)
  \/ Work \/ Sync
  \/ Launch

Spec == Init /\ [][Next]_vars

\* Every thread executes its next instruction, makes finitely many accesses
\* between two barriers, and a native barrier opens for all that wait at it.
Fairness ==
  /\ WF_vars(Work) /\ WF_vars(Sync)
  /\ \A t \in Thread : WF_vars(Exchange(t)) /\ SF_vars(CallOf(t))

FairSpec == Spec /\ Fairness

-------------------------------------------------------------------------------

Words == [kind : Kinds, owner : Subgroup, epoch : 0 .. EpochModulus - 1,
          generation : 0 .. GenerationModulus - 1]

\* Every variable keeps its range: no word is written outside the shadow, the
\* count never runs ahead of the threads, and no epoch of the barriers.
BTypeOK ==
  /\ subgroup_capacity \in SubgroupCapacities
  /\ generation \in 1 .. MaxLaunch
  /\ script \in Scripts
  /\ subgroup_epoch \in [Subgroup -> 0 .. MaxBarriers]
  /\ arrivals \in 0 .. ThreadCount
  /\ shadow \in [Cell -> {Empty} \cup Words]
  /\ short \in BOOLEAN /\ beyond \in BOOLEAN
  /\ divergences \in 0 .. MaxBarriers
  /\ diagnosed \subseteq Cell
  /\ passed \in [Thread -> 0 .. MaxBarriers]
  /\ call \in [Thread ->
       [pc : {"out", "first", "second", "clear", "count", "reset"}]
         \cup [pc : {"close"}, next : 0 .. SubgroupCount]
         \cup [pc : {"exchange"}, cell : Cell, last : Cell, word : Words]]
  /\ phase \in 0 .. MaxBarriers
  /\ fresh \subseteq Subgroup \X Cell \X Kinds
  /\ missed \subseteq Subgroup \X Nat \X Kinds
  /\ absent \subseteq Thread
  /\ diverged \in 0 .. MaxBarriers

\* Outside of barriers the epoch word of every subgroup is the number of
\* barriers all threads took part in, although thread 0 raises the words one
\* by one: no two threads are ever in one phase under different epochs, or in
\* two phases under one (context.hpp:524-545, 1527-1541).
EpochsInStep ==
  Fits => \A t \in Thread : IsAt(t, "out") =>
            \A s \in Subgroup : CurrentEpoch(s) = phase

\* s would race with one of the accesses, at cell c.
RacesWith(accesses, s, c, k) ==
  \E i \in accesses : i[1] # s /\ i[2] = c /\ "store" \in {k, i[3]}

Races(s, c, k) == RacesWith(fresh, s, c, k)

Reports(t, c, k) == WordsConflict(Packed(t, k), shadow[c])

\* Without atomics a diagnostic is always of a real race: no word that an
\* earlier phase or an earlier launch left in the shadow is taken for one of
\* this phase (context.hpp:1152-1161).
ReportsAreRaces ==
  Fits => \A t \in Thread, c \in Cell, k \in Kinds :
    IsAt(t, "out") /\ Reports(t, c, k) => Races(SubgroupOf(t), c, k)

\* The cells that kernels access, in the shadow or not
Touched == UNION {r[1] .. r[2] : r \in Ranges}

\* And no race passes in silence, though the shadow keeps one access of each
\* cell and an access of several cells is not atomic (context.hpp:1152-1154).
\* Where the launch has no epochs for all it has said so by then, behind the
\* reset of its diagnostics (context.hpp:135-157); and if the other access is
\* none that the shadow has room for, it has been told of (context.hpp:1131).
RacyCellReported ==
  \A t \in Thread, c \in Touched, k \in Kinds :
    IsAt(t, "out") /\ RacesWith(fresh \cup missed, SubgroupOf(t), c, k) =>
      \/ short
      \/ c \in Cell /\ (c \in diagnosed \/ Reports(t, c, k))
      \/ ~Races(SubgroupOf(t), c, k) /\ beyond

\* As soon as a thread is out of a simulated barrier, every one that some
\* thread sat out has been reported, and no other: no arrival is lost to a
\* reset or counted for the next barrier (context.hpp:481-506).
DivergenceTold ==
  (\E t \in Thread : IsAt(t, "out")) => divergences = diverged

\* No thread is left behind in a barrier that another has called, whoever
\* takes part: once one waits, all come to it and get out together
\* (context.hpp:486-506).
AllLeave == (\E t \in Thread : IsAt(t, "first")) ~> AllAt("out")

\* What ExactDetector calls the epoch, the words and the ordering.
AbstractWord(c) ==
  IF shadow[c].kind # "empty" /\ shadow[c].generation = generation % GenerationModulus
  THEN [kind |-> shadow[c].kind, owner |-> shadow[c].owner, epoch |-> shadow[c].epoch]
  ELSE Empty

Accesses == Subgroup \X Cell \X Kinds
Known(s) == {i \in Accesses : i \in fresh => i[1] = s}
Constantly(x) == [s \in Subgroup |-> x]
NoAddress == [a \in {} |-> {}]

Exact == INSTANCE ExactDetector WITH
  Subgroups <- Subgroup, Cells <- Cell, Addresses <- {},
  LoadOrders <- {}, StoreOrders <- {}, RmwOrders <- {}, CasOrders <- {},
  FenceOrders <- {}, Attempts <- 1, MaxEpoch <- MaxBarriers,
  ReleaseLast <- FALSE, FencesPaired <- FALSE, Transitive <- FALSE,
  epoch <- phase, shadow <- [c \in Cell |-> AbstractWord(c)],
  token <- Constantly(Constantly(0)), record <- NoAddress,
  pending <- Constantly(0), observed <- Constantly("none"),
  call <- Constantly([stage |-> "idle"]),
  knows <- [s \in Subgroup |-> Known(s)],
  sync <- NoAddress, fenced <- Constantly({}), seen <- Constantly({}),
  backing <- NoAddress,
  evid <- Constantly(IF phase = 0 THEN {} ELSE Accesses \ fresh),
  gaveUp <- {}

\* Within a launch, the threads with their two native barriers, the epoch word
\* of each subgroup and the loop over the cells implement the detector of
\* ExactDetector, where a barrier is one step and an access exchanges a word
\* with the epoch of all; every launch starts it anew.
EachLaunchDetects ==
  [][Fits => IF generation' = generation
             THEN Exact!Next \/ UNCHANGED Exact!vars
             ELSE Exact!Init']_vars
===============================================================================
