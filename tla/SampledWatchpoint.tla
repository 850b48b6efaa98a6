--------------------------- MODULE SampledWatchpoint ---------------------------
(***************************************************************************)
(* The sampled-watchpoint backend: an access publishes the range of cells  *)
(* it touches in a table slot, in chunks that a packed word can hold,      *)
(* looks at the word it displaced and then scans other slots for ranges    *)
(* that overlap.  sampled_watchpoint_context is the same without looking   *)
(* (publish-only); for scalars it computes the range in a simpler way.     *)
(* One lane of each subgroup accesses, the one that sampling selected; an  *)
(* access that is not selected changes nothing.                            *)
(***************************************************************************)
EXTENDS Integers, FiniteSets

CONSTANTS
  Subgroup,
  Contexts,           \* the contexts kernels use: a subset of ContextKinds
  Accesses,           \* byte ranges of accesses: <<offset, byte count>>
  Kinds,              \* their kinds
  Granule,            \* granule_bytes: bytes of a cell
  MaxStart,           \* max_start: the last cell a word can name
  MaxCount,           \* max_count: the cells of a word
  Capacity,           \* sampled_watchpoint_capacity
  SlotOf,             \* sampled_watchpoint_slot, a hash of its arguments
  ProbeCount,         \* sampled_watchpoint_probe_count, 0: all slots
  EpochModulus,       \* 2^10 and 2^20: the bits of a word's epoch
  GenerationModulus,  \* and generation
  MaxEpoch,           \* bound: barriers of a launch
  MaxLaunch           \* bound: launches

ContextKinds == {"reporting", "publish_only"}
Slot == 0 .. Capacity - 1
Cell == 0 .. MaxStart
Epoch == 0 .. MaxEpoch
Generation == 1 .. MaxLaunch

ASSUME SampledAssumption ==
  /\ Contexts \subseteq ContextKinds
  /\ Accesses \subseteq Nat \X (Nat \ {0})
  /\ Kinds \subseteq {"load", "store"}
  /\ Granule \in Nat \ {0} /\ MaxStart \in Nat /\ MaxCount \in Nat \ {0}
  /\ Capacity \in Nat \ {0}
  /\ SlotOf \in [Cell \X Epoch \X Generation -> Slot]
  /\ ProbeCount \in Nat
  /\ EpochModulus \in Nat \ {0} /\ GenerationModulus \in Nat \ {0}
  /\ MaxEpoch \in Nat /\ MaxLaunch \in Nat \ {0}

VARIABLES
  context,     \* the context of the present kernel
  generation,  \* storage_ref::generation
  epoch,       \* the epoch of all subgroups, or of all threads' epoch_
  token,       \* acquired_subgroup_epoch_tokens[consumer][producer]
  table,       \* sampled_watchpoints, which nobody clears
  call,        \* the access each subgroup's lane is in
  made         \* <<subgroup, cell, kind>> of the accesses of this epoch

launch == <<context, generation>>
vars == <<launch, epoch, token, table, call, made>>

Empty == [kind |-> "empty"]
Idle == [pc |-> "idle"]
IsAt(s, pc) == call[s].pc = pc
NoTokens == [s \in Subgroup |-> [p \in Subgroup |-> 0]]

Init ==
  /\ context \in Contexts
  /\ generation = 1
  /\ epoch = 0
  /\ token = NoTokens
  /\ table = [x \in Slot |-> Empty]
  /\ call = [s \in Subgroup |-> Idle]
  /\ made = {}

(***************************************************************************)
(* Words.                                                                  *)
(***************************************************************************)
\* Mutant: the count itself is stored.
EncodedCountRaw(count) == count % MaxCount

\* encode_sampled_cell_count: a chunk of MaxCount cells just fits.
EncodedCount(count) == (count - 1) % MaxCount

\* The owner has ten bits, and a workgroup no more subgroups (shadow.hpp:161).
Packed(s, k, start, count) ==
  [kind |-> k, owner |-> s, epoch |-> epoch % EpochModulus,
   generation |-> generation % GenerationModulus,
   start |-> start % (MaxStart + 1), field |-> EncodedCount(count)]

CellsOf(word) == word.start .. word.start + word.field

\* Mutant: the kinds only, as if slots were cells.
OverlapAnyway(word, prior) == TRUE

\* cell_ranges_overlap
Overlap(word, prior) ==
  /\ word.start < prior.start + prior.field + 1
  /\ prior.start < word.start + word.field + 1

\* sampled_watchpoints_conflict
WordsConflict(word, prior) ==
  /\ prior.kind # "empty" /\ word.kind # "empty"
  /\ word.epoch = prior.epoch
  /\ word.generation = prior.generation
  /\ word.owner # prior.owner
  /\ "store" \in {word.kind, prior.kind}
  /\ Overlap(word, prior)

\* current_access_acquired_prior_epoch
Acquired(word, prior) == token[word.owner][prior.owner] >= prior.epoch + 1

Reports(word, prior) == WordsConflict(word, prior) /\ ~Acquired(word, prior)

(***************************************************************************)
(* An access.                                                              *)
(***************************************************************************)
FirstCell(a) == a[1] \div Granule
EndCell(a) == (a[1] + a[2] - 1) \div Granule + 1

\* the general check, and the one for a byte count known to the compiler
TooFar(a) == FirstCell(a) > MaxStart \/ EndCell(a) > MaxStart + 1
TooFarStatic(a) == a[1] > (MaxStart + 1) * Granule - a[2]

\* Mutant: the offset inside the first cell is forgotten.
StaticCountAligned(a) == (a[2] + Granule - 1) \div Granule

\* the cells of a scalar in sampled_watchpoint_context
StaticCount(a) == ((a[1] % Granule) + a[2] + Granule - 1) \div Granule

\* Scalars of the publish-only context take the simpler path, if a word holds
\* as many cells as they can touch.
IsStatic(a) ==
  /\ context = "publish_only"
  /\ a[2] <= Granule
  /\ (a[2] + 2 * Granule - 2) \div Granule <= MaxCount

\* published and due belong to the properties: the ranges of the words put
\* out, and the slots whose words this access has found to conflict with its
\* own and has still to report.  full: a metadata_full diagnostic came of it.
Begin(a, k, start, end) ==
  [pc |-> "publish", kind |-> k, access |-> a, start |-> start, end |-> end,
   published |-> {}, due |-> {}]

Return(c, full) ==
  [pc |-> "return", access |-> c.access, published |-> c.published,
   due |-> c.due, full |-> full]

CellsTouched(a) == {b \div Granule : b \in a[1] .. a[1] + a[2] - 1}

BeginAccess(s, a, k) ==
  /\ IsAt(s, "idle")
  /\ LET refused == IF IsStatic(a) THEN TooFarStatic(a) ELSE TooFar(a)
         end == IF IsStatic(a) THEN FirstCell(a) + StaticCount(a) ELSE EndCell(a)
     IN  /\ call' = [call EXCEPT ![s] = LET c == Begin(a, k, FirstCell(a), end)
                                        IN  IF refused
                                            THEN Return(c, context = "reporting")
                                            ELSE c]
         /\ made' = IF refused THEN made
                    ELSE made \cup ({s} \X CellsTouched(a) \X {k})
  /\ UNCHANGED <<launch, epoch, token, table>>

Chunk(c) == IF c.end - c.start > MaxCount THEN MaxCount ELSE c.end - c.start

\* Behind a chunk: the next one, or the end of the access.
NextChunk(c, chunk, word) ==
  LET next == [pc |-> "publish", kind |-> c.kind, access |-> c.access,
               start |-> c.start + chunk, end |-> c.end, due |-> c.due,
               published |-> c.published \cup {CellsOf(word)}]
  IN  IF next.start < c.end THEN next ELSE Return(next, FALSE)

\* Mutant: an even step.
StepsEven == {(2 * n) % Capacity : n \in Slot}

\* sampled_probe_step: a hash made odd, and then cut to the capacity.
Steps == IF Capacity = 1 THEN {0} ELSE {(2 * n + 1) % Capacity : n \in Slot}

\* What the scan has to find: the displaced word is reported at once.
DueAfterExchange(word, x) == {y \in Slot \ {x} : Reports(word, table[y])}

\* A word that somebody displaces is no longer there to be found.
Displaced(s, x) ==
  [r \in Subgroup |-> IF r = s \/ IsAt(r, "idle") THEN call[r]
                      ELSE [call[r] EXCEPT !.due = @ \ {x}]]

\* record_sampled_watchpoint_range up to the scan, or all of it where the
\* context does not report: pack, hash, exchange, look at the displaced word.
Publish(s) ==
  /\ IsAt(s, "publish")
  /\ LET c == call[s]
         chunk == Chunk(c)
         word == Packed(s, c.kind, c.start, chunk)
         x == SlotOf[<<c.start, epoch, generation>>]
     IN  /\ table' = [table EXCEPT ![x] = word]
         /\ \/ /\ context = "reporting"
               /\ \E step \in Steps :
                    call' = [Displaced(s, x) EXCEPT ![s] =
                      [pc |-> "scan", kind |-> c.kind, access |-> c.access,
                       start |-> c.start, end |-> c.end, published |-> c.published,
                       due |-> c.due \cup DueAfterExchange(word, x),
                       word |-> word, slot |-> x, step |-> step, probe |-> 0]]
            \/ /\ context = "publish_only"
               /\ call' = [call EXCEPT ![s] = NextChunk(c, chunk, word)]
  /\ UNCHANGED <<launch, epoch, token, made>>

\* The slots a scan visits; the first is the one just written.
Probes == IF ProbeCount = 0 \/ ProbeCount > Capacity THEN Capacity ELSE ProbeCount

\* scan_sampled_watchpoint_conflicts: one probe, reported if it conflicts.
ScanProbe(s) ==
  /\ IsAt(s, "scan")
  /\ LET c == call[s]
         index == (c.slot + c.probe * c.step) % Capacity
         after == [c EXCEPT !.probe = @ + 1, !.due = IF Reports(c.word, table[index])
                                                     THEN @ \ {index} ELSE @]
     IN  call' = [call EXCEPT ![s] = IF after.probe < Probes THEN after
                                     ELSE NextChunk(after, Chunk(c), c.word)]
  /\ UNCHANGED <<launch, epoch, token, table, made>>

EndAccess(s) ==
  /\ IsAt(s, "return")
  /\ call' = [call EXCEPT ![s] = Idle]
  /\ UNCHANGED <<launch, epoch, token, table, made>>

(***************************************************************************)
(* What goes on around the accesses.                                       *)
(***************************************************************************)
\* Some lane of s imports p's release of this epoch: ReleaseRecords tells
\* when.  From now on p's words of this epoch are no conflict for s; a second
\* import changes nothing.  The publish-only context keeps no tokens.
Acquire(s, p) ==
  /\ context = "reporting"
  /\ p # s
  /\ token[s][p] <= epoch
  /\ token' = [token EXCEPT ![s][p] = epoch + 1]
  /\ call' = IF IsAt(s, "idle") THEN call
             ELSE [call EXCEPT ![s].due = {y \in @ : table[y].owner # p}]
  /\ UNCHANGED <<launch, epoch, table, made>>

AllIdle == \A s \in Subgroup : IsAt(s, "idle")

\* barrier of either context: nobody leaves it before all have arrived
EndEpoch ==
  /\ AllIdle
  /\ epoch < MaxEpoch
  /\ epoch' = epoch + 1
  /\ made' = {}
  /\ UNCHANGED <<launch, token, table, call>>

\* The next kernel, with either context: a new generation, and the table as
\* the last one left it.
Launch ==
  /\ AllIdle
  /\ generation < MaxLaunch
  /\ context' \in Contexts
  /\ generation' = generation + 1
  /\ epoch' = 0
  /\ token' = NoTokens
  /\ made' = {}
  /\ UNCHANGED <<table, call>>

Next ==
  \/ \E s \in Subgroup :
       \/ \E a \in Accesses, k \in Kinds : BeginAccess(s, a, k)
       \/ Publish(s)
       \/ ScanProbe(s)
       \/ EndAccess(s)
       \/ \E p \in Subgroup : Acquire(s, p)
  \/ EndEpoch
  \/ Launch

Spec == Init /\ [][Next]_vars

(***************************************************************************)
(* Properties.                                                             *)
(***************************************************************************)
Words ==
  [kind : Kinds, owner : Subgroup, epoch : 0 .. EpochModulus - 1,
   generation : 0 .. GenerationModulus - 1, start : Cell, field : 0 .. MaxCount - 1]

\* Every variable keeps its range; no word outgrows its fields or names a
\* cell beyond the last.
STypeOK ==
  /\ context \in Contexts
  /\ generation \in Generation
  /\ epoch \in Epoch
  /\ token \in [Subgroup -> [Subgroup -> 0 .. MaxEpoch + 1]]
  /\ \A x \in Slot :
       table[x] = Empty \/ (table[x] \in Words /\ CellsOf(table[x]) \subseteq Cell)
  /\ \A s \in Subgroup : call[s].pc \in {"idle", "publish", "scan", "return"}
  /\ made \subseteq Subgroup \X Cell \X Kinds

\* sampled_probe_step visits all slots of a table whose capacity is a power of
\* two: with a full scan, every conflict that the table shows at an exchange
\* is reported before the access returns, unless its word is displaced or its
\* release acquired first.
ConflictsTold ==
  context = "reporting" /\ (ProbeCount = 0 \/ ProbeCount >= Capacity)
    => \A s \in Subgroup : IsAt(s, "return") => call[s].due = {}

\* What an access in the middle of its chunks compares.
WordInHand(s) ==
  IF IsAt(s, "scan") THEN call[s].word
  ELSE Packed(s, call[s].kind, call[s].start, Chunk(call[s]))

\* sampled_watchpoints_conflict: whatever word of whatever launch, epoch and
\* context the table holds, a report names two subgroups that really access a
\* cell of both words in this epoch, one of them to write.
ReportsAreRaces ==
  \A s \in Subgroup, x \in Slot :
    (IsAt(s, "publish") \/ IsAt(s, "scan")) /\ Reports(WordInHand(s), table[x])
      => \E cell \in CellsOf(WordInHand(s)) \cap CellsOf(table[x]) :
           /\ <<s, cell, WordInHand(s).kind>> \in made
           /\ <<table[x].owner, cell, table[x].kind>> \in made

\* record_sampled_watchpoint_access and both paths of record_access_at: the
\* words of an access cover exactly the cells its bytes touch, each cell in
\* one word; an access beyond the last cell puts out nothing, and in the
\* reporting context it is told of.
RangeTiled ==
  \A s \in Subgroup : IsAt(s, "return") =>
    LET c == call[s]
        fits == CellsTouched(c.access) \subseteq Cell
    IN  /\ UNION c.published = (IF fits THEN CellsTouched(c.access) ELSE {})
        /\ \A p, q \in c.published : p = q \/ p \cap q = {}
        /\ ~fits /\ context = "reporting" => c.full
===============================================================================
