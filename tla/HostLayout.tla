------------------------------ MODULE HostLayout ------------------------------
(***************************************************************************)
(* How the constructor of host_context divides one device allocation of a  *)
(* given byte budget into the detector's tables: capacities are fixed by   *)
(* the options or derived from the budget, one capacity is shrunk until    *)
(* the layout fits, and the slices are laid out.  The constructor either   *)
(* allocates or aborts the program.                                        *)
(***************************************************************************)
EXTENDS Integers, Sequences

CONSTANTS Options,      \* the host_context_options under study
          AutoDivisor,  \* 64: the share of the budget an auto table gets
          MaxAutoBytes, \* 256 KiB: and its limit
          MaxInt        \* INT_MAX: capacities are ints

ASSUME LayoutAssumption ==
    /\ Options \subseteq [bytes : Nat, backend : {"exact_shadow", "sampled_watchpoint"},
                          exact : Int, sampled : Int, diagnostic : Int, subgroup : Int]
    /\ \A o \in Options : /\ o.exact <= MaxInt /\ o.sampled <= MaxInt
                           /\ o.diagnostic <= MaxInt /\ o.subgroup <= MaxInt
    /\ AutoDivisor \in Nat \ {0}
    /\ MaxAutoBytes \in Nat \ {0}
    /\ MaxInt \in Nat \ {0}

VARIABLES options, stage, cap
vars == <<options, stage, cap>>

\* sizeof and alignof of the records
Diagnostic == [size |-> 64, align |-> 8]
SubgroupState == [size |-> 4, align |-> 4]
Word32 == [size |-> 4, align |-> 4]
AtomicObject == [size |-> 32, align |-> 8]
AtomicAddressCache == [size |-> 24, align |-> 8]
Word64 == [size |-> 8, align |-> 8]

IsAuto(n) == n < 0

AlignUp(offset, alignment) ==
    LET r == offset % alignment IN IF r = 0 THEN offset ELSE offset + (alignment - r)

\* Where a slice of n records begins, and where the next may begin.
SliceStart(offset, n, t) == IF n <= 0 THEN offset ELSE AlignUp(offset, t.align)
SliceEnd(offset, n, t) == IF n <= 0 THEN offset ELSE AlignUp(offset, t.align) + n * t.size

\* The end of the i-th slice when they are laid out in sequence
Ends(slices) ==
    LET e[i \in 0 .. Len(slices)] ==
          IF i = 0 THEN 0 ELSE SliceEnd(e[i - 1], slices[i].n, slices[i].t)
    IN  e

Of(n, t) == [n |-> n, t |-> t]

\* The slices of layout_byte_count; its mutant counts one of two counters.
CountedSlicesShort(c) ==
    <<Of(c.diagnostic, Diagnostic), Of(c.subgroup, SubgroupState), Of(1, Word32),
      Of(c.atomic, AtomicObject), Of(c.atomic, AtomicAddressCache),
      Of(c.subgroup * c.subgroup, Word32), Of(c.exact, Word64), Of(c.sampled, Word64)>>
CountedSlices(c) ==
    <<Of(c.diagnostic, Diagnostic), Of(c.subgroup, SubgroupState), Of(2, Word32),
      Of(c.atomic, AtomicObject), Of(c.atomic, AtomicAddressCache),
      Of(c.subgroup * c.subgroup, Word32), Of(c.exact, Word64), Of(c.sampled, Word64)>>

LayoutByteCount(c) == Ends(CountedSlices(c))[8]

\* The slices of assign_layout_slices; its mutant puts the cache behind the
\* token matrix.
AssignedSlicesApart(c) ==
    <<Of(c.diagnostic, Diagnostic), Of(c.subgroup, SubgroupState),
      Of(1, Word32), Of(1, Word32), Of(c.atomic, AtomicObject),
      Of(c.subgroup * c.subgroup, Word32), Of(c.atomic, AtomicAddressCache),
      Of(c.exact, Word64), Of(c.sampled, Word64)>>
AssignedSlices(c) ==
    <<Of(c.diagnostic, Diagnostic), Of(c.subgroup, SubgroupState),
      Of(1, Word32), Of(1, Word32), Of(c.atomic, AtomicObject),
      Of(c.atomic, AtomicAddressCache), Of(c.subgroup * c.subgroup, Word32),
      Of(c.exact, Word64), Of(c.sampled, Word64)>>

\* Records of size bytes in the auto share of the budget, at least one
AutoRecords(size) ==
    LET share == options.bytes \div AutoDivisor
        least == IF share < size THEN size ELSE share
        bytes == IF least > MaxAutoBytes THEN MaxAutoBytes ELSE least
    IN  IF bytes \div size = 0 THEN 1 ELSE bytes \div size

\* Mutant: the capacity is not rounded.
CeilPowerOfTwoSkipped(n) == n

\* Powers of two have no odd divisor but one; n .. 2n - 1 holds one of them.
IsPowerOfTwo(p) == p > 0 /\ \A d \in 2 .. p : p % d = 0 => d % 2 = 0

CeilPowerOfTwo(n) == CHOOSE p \in n .. 2 * n - 1 : IsPowerOfTwo(p)

AutoDiagnosticCapacity == AutoRecords(Diagnostic.size)
AutoAtomicObjectCapacity == CeilPowerOfTwo(AutoRecords(AtomicObject.size))

NoCap == [diagnostic |-> 0, subgroup |-> 0, atomic |-> 0, exact |-> 0, sampled |-> 0]

\* validate_options_or_abort
IsValid(o) ==
    /\ o.bytes # 0
    /\ o.exact >= -1 /\ o.sampled >= -1 /\ o.diagnostic >= -1
    /\ o.diagnostic # 0
    /\ o.subgroup > 0

Init ==
    /\ options \in Options
    /\ stage = "validate"
    /\ cap = NoCap

Validate ==
    /\ stage = "validate"
    /\ stage' = IF IsValid(options) THEN "compute" ELSE "rejected"
    /\ UNCHANGED <<options, cap>>

\* What the options fix, with the tables that take what remains left empty
FixedCap ==
    [diagnostic |-> IF IsAuto(options.diagnostic) THEN AutoDiagnosticCapacity
                                                  ELSE options.diagnostic,
     subgroup |-> options.subgroup,
     atomic |-> AutoAtomicObjectCapacity,
     exact |-> IF IsAuto(options.exact) THEN 0 ELSE options.exact,
     sampled |-> IF IsAuto(options.sampled) THEN 0 ELSE options.sampled]

\* The backend's table takes the remaining bytes if its capacity is auto.
\* Mutant: one record is left out.
WithRemainingShort(c) ==
    LET n == (options.bytes - LayoutByteCount(c)) \div Word64.size - 1 IN
    IF options.backend = "sampled_watchpoint"
    THEN IF IsAuto(options.sampled) THEN [c EXCEPT !.sampled = n] ELSE c
    ELSE IF IsAuto(options.exact) THEN [c EXCEPT !.exact = n] ELSE c
WithRemaining(c) ==
    LET n == (options.bytes - LayoutByteCount(c)) \div Word64.size IN
    IF options.backend = "sampled_watchpoint"
    THEN IF IsAuto(options.sampled) THEN [c EXCEPT !.sampled = n] ELSE c
    ELSE IF IsAuto(options.exact) THEN [c EXCEPT !.exact = n] ELSE c

\* The capacity of the backend's own table
Serving(c) == IF options.backend = "sampled_watchpoint" THEN c.sampled ELSE c.exact

\* The numbers the constructor derives from options alone, before it looks at
\* the bytes: each is held by checked_capacity to be an int.
DerivedAreInts ==
    /\ AutoAtomicObjectCapacity <= MaxInt
    /\ IsAuto(options.diagnostic) => AutoDiagnosticCapacity <= MaxInt
    /\ options.subgroup * options.subgroup <= MaxInt

HasBytes == LayoutByteCount(FixedCap) <= options.bytes

\* capacity_from_bytes holds what remains to be an int before any shrinking;
\* a table of a fixed size is one anyway.
RemainingIsInt == Serving(WithRemaining(FixedCap)) <= MaxInt

\* The constructor ends in an abort where a number is no int or bytes lack.
Compute ==
    /\ stage = "compute"
    /\ \/ /\ ~DerivedAreInts \/ (HasBytes /\ ~RemainingIsInt)
          /\ stage' = "too_large"
          /\ UNCHANGED cap
       \/ /\ DerivedAreInts /\ ~HasBytes
          /\ stage' = "too_small"
          /\ cap' = FixedCap
       \/ /\ DerivedAreInts /\ HasBytes /\ RemainingIsInt
          /\ stage' = "shrink"
          /\ cap' = WithRemaining(FixedCap)
    /\ UNCHANGED options

\* Mutant: only the sampled table shrinks.
CanShrinkSampled == IsAuto(options.sampled) /\ cap.sampled > 0

CanShrink == \/ IsAuto(options.sampled) /\ cap.sampled > 0
             \/ IsAuto(options.exact) /\ cap.exact > 0

\* shrink_one_auto_capacity
Shrink ==
    /\ stage = "shrink"
    /\ LayoutByteCount(cap) > options.bytes
    /\ CanShrink
    /\ cap' = IF IsAuto(options.sampled) /\ cap.sampled > 0
              THEN [cap EXCEPT !.sampled = @ - 1]
              ELSE [cap EXCEPT !.exact = @ - 1]
    /\ UNCHANGED <<options, stage>>

\* The checks at the end of compute_layout_or_abort, and the allocation
Allocate ==
    /\ stage = "shrink"
    /\ ~(LayoutByteCount(cap) > options.bytes /\ CanShrink)
    /\ stage' = IF /\ LayoutByteCount(cap) <= options.bytes
                   /\ cap.diagnostic > 0
                   /\ Serving(cap) > 0
                THEN "allocated" ELSE "too_small"
    /\ UNCHANGED <<options, cap>>

Next == Validate \/ Compute \/ Shrink \/ Allocate

Spec == Init /\ [][Next]_vars

(***************************************************************************)
(* Properties.                                                             *)
(***************************************************************************)
Offsets(c) == LET s == AssignedSlices(c) IN
    [i \in DOMAIN s |-> SliceStart(Ends(s)[i - 1], s[i].n, s[i].t)]

\* Both walks over the slices agree: the allocation holds every slice that
\* assign_layout_slices hands out (host_context.hpp 446-484).
SlicesFit ==
    stage = "allocated" =>
        LET s == AssignedSlices(cap) IN
        /\ Ends(s)[Len(s)] = LayoutByteCount(cap)
        /\ \A i \in DOMAIN s : s[i].n > 0 => Ends(s)[i] <= options.bytes

\* The device takes the address cache to lie right behind the atomic-object
\* table (context.hpp 985-993): the slice the host cleared for it is there.
CacheBehindTable ==
    stage = "allocated" =>
        LET cache == CHOOSE i \in 1 .. 9 : AssignedSlices(cap)[i].t = AtomicAddressCache
        IN  Offsets(cap)[cache] = Offsets(cap)[5] + cap.atomic * AtomicObject.size

\* With capacity n for the backend's own table
Sized(n) == IF options.backend = "sampled_watchpoint"
            THEN [FixedCap EXCEPT !.sampled = n] ELSE [FixedCap EXCEPT !.exact = n]
Fits(n) == LayoutByteCount(Sized(n)) <= options.bytes
ServingAuto == IsAuto(IF options.backend = "sampled_watchpoint"
                      THEN options.sampled ELSE options.exact)

\* The backend's table gets every record the budget has room for: the margin
\* for alignment costs at most the record that would not fit.
BudgetUsed ==
    stage = "allocated" /\ ServingAuto => ~Fits(Serving(cap) + 1)

\* No table of the backend that the options allow fits the budget.
NoRoom == IF ServingAuto THEN ~Fits(1)
          ELSE Serving(FixedCap) <= 0 \/ ~Fits(Serving(FixedCap))

\* Some number that the options leave to the constructor outgrows an int: the
\* budget has room for as many records of the backend's table as an int counts.
TooMany == ~DerivedAreInts \/ (ServingAuto /\ Fits(MaxInt))

\* Valid options are turned down only if no table of the backend would fit, or
\* because a number outgrows an int (host_context.hpp 306-318, 510-588).  A
\* budget for more records than that is turned down, not used in part, and the
\* record the alignment may cost is counted.
AbortsOnlyForCause ==
    /\ stage = "too_small" => NoRoom
    /\ stage = "too_large" => TooMany

\* Capacities are ints through the shrinking, so are the tokens that go with
\* them, and the capacity of the atomic-object table is the power of two its
\* slot mask needs.
LTypeOK ==
    /\ options \in Options
    /\ stage \in {"validate", "compute", "shrink", "allocated", "rejected",
                  "too_small", "too_large"}
    /\ {cap.diagnostic, cap.atomic, cap.exact, cap.sampled} \subseteq 0 .. MaxInt
    /\ stage \in {"shrink", "allocated"} => /\ cap.subgroup * cap.subgroup <= MaxInt
                                           /\ IsPowerOfTwo(cap.atomic)
==============================================================================
