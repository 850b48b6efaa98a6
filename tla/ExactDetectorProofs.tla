------------------------- MODULE ExactDetectorProofs -------------------------
(***************************************************************************)
(* Type correctness of ExactDetector; that it suppresses a conflict only   *)
(* with evidence, for every mix of atomic operations and orders, provided  *)
(* that kernels access nothing after a release in an epoch; and that it    *)
(* reports only races, for the kernels whose order it can follow.  Both    *)
(* hold as long as the epochs fit their ten bits.  And that, whatever the  *)
(* kernel does, it keeps to the promise of the atomic-object table.        *)
(***************************************************************************)
EXTENDS ExactDetector, TLAPS

(***************************************************************************)
(* Helpers.                                                                *)
(***************************************************************************)
\* A stored epoch fits the field it is stored in.
LEMMA StoredFits == \A e \in Nat : Stored(e) \in 0 .. EpochModulus - 1
  BY DetectorAssumption, SMT DEF Stored

\* Where the epochs fit the field, nothing is lost.
LEMMA StoredIsEpoch ==
  ASSUME DTypeOK, MaxEpoch < EpochModulus
  PROVE  Stored(epoch) = epoch /\ epoch \in Nat
<1>1. epoch \in Nat /\ EpochModulus \in Nat /\ epoch < EpochModulus
  BY DetectorAssumption DEF DTypeOK
<1>2. \A m \in Nat : \A e \in Nat : e < m => e % m = e
  BY SMT
<1> QED BY <1>1, <1>2 DEF Stored

LEMMA OrdersAreBoolean ==
  \A o : Acquires(o) \in BOOLEAN /\ Releases(o) \in BOOLEAN
  BY DEF Acquires, Releases

\* The three forms a call takes.
LEMMA CallForms ==
  ASSUME NEW a \in Addresses, NEW b \in BOOLEAN, NEW d \in BOOLEAN,
         NEW e \in BOOLEAN, NEW n \in 1 .. Attempts, NEW T \in SUBSET Subgroups
  PROVE  /\ Idle \in Calls
         /\ [stage |-> "store", addr |-> a, rel |-> b] \in Calls
         /\ [stage |-> "record", addr |-> a, rel |-> b, acq |-> d] \in Calls
         /\ [stage |-> "acquire", addr |-> a, left |-> n, todo |-> T,
             found |-> b, late |-> d, retries |-> e] \in Calls
  BY DEF Calls, Idle

LEMMA AcquiringType ==
  ASSUME NEW s \in Subgroups, NEW a \in Addresses, NEW n \in 1 .. Attempts
  PROVE  Acquiring(s, a, n) \in Calls
<1>1. (n # 1) \in BOOLEAN /\ FALSE \in BOOLEAN
  BY Zenon
<1>2. Subgroups \ {s} \in SUBSET Subgroups
  OBVIOUS
<1> QED BY <1>1, <1>2, CallForms, Zenon DEF Acquiring

\* What a release does to the records.
LEMMA PutReleaseType ==
  ASSUME DTypeOK, NEW s \in Subgroups, NEW a \in Addresses, NEW rel \in BOOLEAN,
         PutRelease(s, a, rel)
  PROVE  /\ record' \in [Addresses -> [Subgroups -> 0 .. MaxEpoch + 1]]
         /\ pending' \in [Subgroups -> 0 .. MaxEpoch + 1]
         /\ backing' \in [Addresses -> [Subgroups -> SUBSET Ids]]
<1> USE DetectorAssumption
<1>1. \A t \in 0 .. MaxEpoch + 1 :
        Published(s, a, t) \in [Addresses -> [Subgroups -> 0 .. MaxEpoch + 1]]
  BY SMT DEF Published, Joined, DTypeOK
<1>2. epoch + 1 \in 0 .. MaxEpoch + 1 /\ pending[s] \in 0 .. MaxEpoch + 1
  BY SMT DEF DTypeOK
<1>3. IdsOf(s) \subseteq Ids
  BY DEF IdsOf
<1>4. \A B \in SUBSET Ids :
        [backing EXCEPT ![a][s] = @ \cup B] \in [Addresses -> [Subgroups -> SUBSET Ids]]
  BY SMT DEF DTypeOK
<1>5. CASE rel
  <2>1. record' = Published(s, a, epoch + 1) /\ pending' = pending
        /\ backing' = [backing EXCEPT ![a][s] = @ \cup IdsOf(s)]
    BY <1>5 DEF PutRelease
  <2> QED BY <1>1, <1>2, <1>3, <1>4, <2>1 DEF DTypeOK
<1>6. CASE ~rel /\ pending[s] # 0
  <2>1. fenced[s] \cap IdsOf(s) \in SUBSET Ids
    BY <1>3
  <2>2. record' = Published(s, a, pending[s])
        /\ backing' = [backing EXCEPT ![a][s] = @ \cup (fenced[s] \cap IdsOf(s))]
        /\ pending' = [pending EXCEPT ![s] = 0]
    BY <1>6 DEF PutRelease
  <2>3. 0 \in 0 .. MaxEpoch + 1
    OBVIOUS
  <2> QED BY <1>1, <1>2, <1>4, <2>1, <2>2, <2>3 DEF DTypeOK
<1>7. CASE ~rel /\ pending[s] = 0
  BY <1>7 DEF PutRelease, DTypeOK
<1> QED BY <1>5, <1>6, <1>7

LEMMA ThenAcquireType ==
  ASSUME DTypeOK, NEW s \in Subgroups, NEW a \in Addresses, NEW acq \in BOOLEAN,
         NEW n \in 1 .. Attempts, ThenAcquire(s, a, acq, n)
  PROVE  /\ call' \in [Subgroups -> Calls]
         /\ observed' \in [Subgroups -> {None} \cup Addresses]
<1>1. Acquiring(s, a, n) \in Calls /\ Idle \in Calls
  BY AcquiringType DEF Calls
<1>2. CASE acq
  BY <1>1, <1>2 DEF ThenAcquire, DTypeOK
<1>3. CASE ~acq
  BY <1>1, <1>3 DEF ThenAcquire, Return, DTypeOK
<1> QED BY <1>2, <1>3

LEMMA CarriedType ==
  ASSUME DTypeOK, NEW s \in Subgroups, NEW rel \in BOOLEAN, NEW K \in SUBSET Ids
  PROVE  Carried(s, K) \subseteq Ids /\ Handed(s, rel, K) \subseteq Ids
  BY SMT DEF Carried, Handed, DTypeOK

(***************************************************************************)
(* Type correctness.                                                       *)
(***************************************************************************)
LEMMA InitType == Init => DTypeOK
<1> USE DetectorAssumption
<1> SUFFICES ASSUME Init PROVE DTypeOK
  OBVIOUS
<1>1. Idle \in Calls
  BY DEF Calls
<1>2. 0 \in 0 .. MaxEpoch /\ 0 \in 0 .. MaxEpoch + 1
  OBVIOUS
<1> QED BY <1>1, <1>2 DEF Init, DTypeOK

LEMMA AccessType ==
  ASSUME DTypeOK, NEW s \in Subgroups, NEW c \in Cells, NEW k \in Kinds,
         Access(s, c, k)
  PROVE  DTypeOK'
<1>1. Packed(s, k) \in Entries
  <2>1. Stored(epoch) \in 0 .. EpochModulus - 1
    BY StoredFits, DetectorAssumption DEF DTypeOK
  <2> QED BY <2>1 DEF Packed, Entries
<1>2. shadow' \in [Cells -> {Empty} \cup Entries]
  BY <1>1 DEF Access, DTypeOK
<1>3. diagnosed' \subseteq Cells
  BY DEF Access, DTypeOK
<1>4. /\ knows' \in [Subgroups -> SUBSET Ids]
      /\ sync' \in [Addresses -> SUBSET Ids]
      /\ fenced' \in [Subgroups -> SUBSET Ids]
      /\ seen' \in [Subgroups -> SUBSET Ids]
      /\ evid' \in [Subgroups -> SUBSET Ids]
  BY SMT DEF Access, DTypeOK, Forget, ForgetBut
<1>5. backing' \in [Addresses -> [Subgroups -> SUBSET Ids]]
  BY SMT DEF Access, DTypeOK, Forget
<1>6. UNCHANGED <<epoch, token, record, pending, observed, call, gaveUp>>
  BY DEF Access
<1> QED BY <1>2, <1>3, <1>4, <1>5, <1>6 DEF DTypeOK

LEMMA AtomicStoreType ==
  ASSUME DTypeOK, NEW s \in Subgroups, NEW a \in Addresses, NEW o,
         AtomicStore(s, a, o)
  PROVE  DTypeOK'
<1>1. Releases(o) \in BOOLEAN
  BY OrdersAreBoolean
<1>2. PutRelease(s, a, Releases(o))
  BY DEF AtomicStore
<1>3. [stage |-> "store", addr |-> a, rel |-> Releases(o)] \in Calls
  BY <1>1 DEF Calls
<1>4. call' \in [Subgroups -> Calls]
  BY <1>3 DEF AtomicStore, DTypeOK
<1>5. UNCHANGED <<epoch, shadow, token, observed, diagnosed, gaveUp,
                  knows, sync, fenced, seen, evid>>
  BY DEF AtomicStore
<1> QED BY <1>1, <1>2, <1>4, <1>5, PutReleaseType DEF DTypeOK

\* Where a call is, its fields are those of that stage.
LEMMA StageFields ==
  ASSUME DTypeOK, NEW s \in Subgroups
  PROVE  /\ call[s].stage = "store" =>
              call[s].addr \in Addresses /\ call[s].rel \in BOOLEAN
         /\ call[s].stage = "record" =>
              /\ call[s].addr \in Addresses
              /\ call[s].rel \in BOOLEAN /\ call[s].acq \in BOOLEAN
         /\ call[s].stage = "acquire" =>
              call[s] \in [stage : {"acquire"}, addr : Addresses,
                           left : 1 .. Attempts, todo : SUBSET Subgroups,
                           found : BOOLEAN, late : BOOLEAN, retries : BOOLEAN]
<1>1. call[s] \in Calls
  BY DEF DTypeOK
<1>2. CASE call[s] = Idle
  BY <1>2 DEF Idle
<1>3. CASE call[s] \in [stage : {"store"}, addr : Addresses, rel : BOOLEAN]
  BY <1>3
<1>4. CASE call[s] \in [stage : {"record"}, addr : Addresses, rel : BOOLEAN,
                        acq : BOOLEAN]
  BY <1>4
<1>5. CASE call[s] \in [stage : {"acquire"}, addr : Addresses,
                        left : 1 .. Attempts, todo : SUBSET Subgroups,
                        found : BOOLEAN, late : BOOLEAN, retries : BOOLEAN]
  BY <1>5
<1> QED BY <1>1, <1>2, <1>3, <1>4, <1>5 DEF Calls

LEMMA StoreValueType ==
  ASSUME DTypeOK, NEW s \in Subgroups, StoreValue(s)
  PROVE  DTypeOK'
<1>1. call[s].addr \in Addresses /\ call[s].rel \in BOOLEAN
  BY StageFields DEF StoreValue
<1>2. Handed(s, call[s].rel, knows[s]) \subseteq Ids
  BY <1>1, CarriedType DEF DTypeOK
<1>3. sync' \in [Addresses -> SUBSET Ids]
  BY <1>1, <1>2 DEF StoreValue, DTypeOK
<1>4. call' \in [Subgroups -> Calls]
  BY DEF StoreValue, DTypeOK, Calls
<1>5. UNCHANGED <<epoch, shadow, token, record, pending, observed, diagnosed,
                  gaveUp, knows, fenced, seen, backing, evid>>
  BY DEF StoreValue, meta
<1> QED BY <1>3, <1>4, <1>5 DEF DTypeOK

LEMMA ReadValueType ==
  ASSUME DTypeOK, NEW s \in Subgroups, NEW a \in Addresses, NEW acq \in BOOLEAN,
         NEW n \in 1 .. Attempts, ReadValue(s, a, acq, n)
  PROVE  DTypeOK'
<1>1. sync[a] \in SUBSET Ids
  BY DEF DTypeOK
<1>2. Learn(s, sync[a], acq) /\ ThenAcquire(s, a, acq, n)
  BY DEF ReadValue
<1>3. /\ knows' \in [Subgroups -> SUBSET Ids]
      /\ seen' \in [Subgroups -> SUBSET Ids]
  BY <1>1, <1>2 DEF Learn, DTypeOK
<1>4. /\ call' \in [Subgroups -> Calls]
      /\ observed' \in [Subgroups -> {None} \cup Addresses]
  BY <1>2, ThenAcquireType
<1>5. UNCHANGED <<epoch, shadow, token, record, pending, diagnosed, gaveUp,
                  sync, fenced, backing, evid>>
  BY DEF ReadValue
<1> QED BY <1>3, <1>4, <1>5 DEF DTypeOK

LEMMA AtomicRmwType ==
  ASSUME DTypeOK, NEW s \in Subgroups, NEW a \in Addresses, NEW o,
         AtomicRmw(s, a, o)
  PROVE  DTypeOK'
<1>1. Acquires(o) \in BOOLEAN /\ Releases(o) \in BOOLEAN
  BY OrdersAreBoolean
<1>2. sync[a] \in SUBSET Ids
  BY DEF DTypeOK
<1>3. /\ knows' \in [Subgroups -> SUBSET Ids]
      /\ seen' \in [Subgroups -> SUBSET Ids]
  BY <1>2 DEF AtomicRmw, Learn, DTypeOK
<1>4. Handed(s, Releases(o), knows'[s]) \subseteq Ids
  BY <1>1, <1>3, CarriedType
<1>5. sync' \in [Addresses -> SUBSET Ids]
  BY <1>4 DEF AtomicRmw, DTypeOK
<1>6. [stage |-> "record", addr |-> a, rel |-> Releases(o), acq |-> Acquires(o)]
        \in Calls
  BY <1>1 DEF Calls
<1>7. call' \in [Subgroups -> Calls]
  BY <1>6 DEF AtomicRmw, DTypeOK
<1>8. UNCHANGED <<epoch, shadow, token, record, pending, observed, diagnosed,
                  gaveUp, fenced, backing, evid>>
  BY DEF AtomicRmw, meta
<1> QED BY <1>3, <1>5, <1>7, <1>8 DEF DTypeOK

LEMMA RecordRmwType ==
  ASSUME DTypeOK, NEW s \in Subgroups, RecordRmw(s)
  PROVE  DTypeOK'
<1>1. /\ call[s].addr \in Addresses
      /\ call[s].rel \in BOOLEAN /\ call[s].acq \in BOOLEAN
  BY StageFields DEF RecordRmw
<1>2. PutRelease(s, call[s].addr, call[s].rel)
  BY DEF RecordRmw
<1>3. Attempts \in 1 .. Attempts
  BY DetectorAssumption
<1>4. ThenAcquire(s, call[s].addr, call[s].acq, Attempts)
  BY DEF RecordRmw
<1>5. /\ call' \in [Subgroups -> Calls]
      /\ observed' \in [Subgroups -> {None} \cup Addresses]
  BY <1>1, <1>3, <1>4, ThenAcquireType
<1>6. /\ record' \in [Addresses -> [Subgroups -> 0 .. MaxEpoch + 1]]
      /\ pending' \in [Subgroups -> 0 .. MaxEpoch + 1]
      /\ backing' \in [Addresses -> [Subgroups -> SUBSET Ids]]
  BY <1>1, <1>2, PutReleaseType
<1>7. UNCHANGED <<epoch, shadow, token, diagnosed, gaveUp,
                  knows, sync, fenced, seen, evid>>
  BY DEF RecordRmw
<1> QED BY <1>5, <1>6, <1>7 DEF DTypeOK

LEMMA ImportFromType ==
  ASSUME DTypeOK, NEW s \in Subgroups, NEW p \in Subgroups, ImportFrom(s, p)
  PROVE  DTypeOK'
<1> DEFINE a == call[s].addr
<1>1. call[s] \in [stage : {"acquire"}, addr : Addresses, left : 1 .. Attempts,
                   todo : SUBSET Subgroups, found : BOOLEAN, late : BOOLEAN,
                   retries : BOOLEAN]
  BY StageFields DEF ImportFrom
<1>2. a \in Addresses
  BY <1>1
<1>3. (call[s].found \/ HasRecord(a, p)) \in BOOLEAN
  BY Zenon
<1>4. (call[s].late \/ Publishing(p, a)) \in BOOLEAN
  BY Zenon
<1> DEFINE f == (call[s].found \/ HasRecord(a, p))
           l == (call[s].late \/ Publishing(p, a))
           next == [call[s] EXCEPT !.todo = @ \ {p}, !.found = f, !.late = l]
<1>5. next \in Calls
  <2> HIDE DEF f, l
  <2>1. next \in [stage : {"acquire"}, addr : Addresses, left : 1 .. Attempts,
                  todo : SUBSET Subgroups, found : BOOLEAN, late : BOOLEAN,
                  retries : BOOLEAN]
    BY <1>1, <1>3, <1>4 DEF f, l
  <2> QED BY <2>1 DEF Calls
<1>6. call' = [call EXCEPT ![s] = next]
  BY DEF ImportFrom, DTypeOK
<1>7. call' \in [Subgroups -> Calls]
  <2> HIDE DEF next
  <2> QED BY <1>5, <1>6 DEF DTypeOK
<1>8. /\ token' \in [Subgroups -> [Subgroups -> 0 .. MaxEpoch + 1]]
      /\ evid' \in [Subgroups -> SUBSET Ids]
  <2>1. /\ ImportedToken(s, a, p) \in [Subgroups -> [Subgroups -> 0 .. MaxEpoch + 1]]
        /\ [evid EXCEPT ![s] = @ \cup backing[a][p]] \in [Subgroups -> SUBSET Ids]
    <3> HIDE DEF a
    <3> QED BY <1>2 DEF ImportedToken, DTypeOK
  <2> QED BY <2>1 DEF ImportFrom, DTypeOK
<1>9. UNCHANGED <<epoch, shadow, record, pending, observed, diagnosed,
                  knows, sync, fenced, seen, backing, gaveUp>>
  BY DEF ImportFrom
<1> QED BY <1>7, <1>8, <1>9 DEF DTypeOK

LEMMA EndAttemptType ==
  ASSUME DTypeOK, NEW s \in Subgroups, EndAttempt(s)
  PROVE  DTypeOK'
<1> DEFINE next == [call[s] EXCEPT !.left = @ - 1, !.late = FALSE,
                                   !.todo = Subgroups \ {s}]
<1>1. call[s] \in [stage : {"acquire"}, addr : Addresses, left : 1 .. Attempts,
                   todo : SUBSET Subgroups, found : BOOLEAN, late : BOOLEAN,
                   retries : BOOLEAN]
  BY StageFields DEF EndAttempt
<1>2. UNCHANGED <<epoch, shadow, token, record, pending, diagnosed,
                  knows, sync, fenced, seen, backing, evid>>
  BY DEF EndAttempt, truth
<1>3. CASE AttemptSucceeds(s) \/ call[s].left = 1
  <2>1. Return(s, call[s].addr) /\ gaveUp' \subseteq gaveUp \cup {s}
    BY <1>3 DEF EndAttempt
  <2>2. /\ call' \in [Subgroups -> Calls]
        /\ observed' \in [Subgroups -> {None} \cup Addresses]
    BY <1>1, <2>1 DEF Return, DTypeOK, Calls
  <2> QED BY <1>2, <2>1, <2>2 DEF DTypeOK
<1>4. CASE ~(AttemptSucceeds(s) \/ call[s].left = 1)
  <2>1. call' = [call EXCEPT ![s] = next] /\ UNCHANGED <<observed, gaveUp>>
    <3>1. /\ call' = [call EXCEPT ![s].left = @ - 1, ![s].late = FALSE,
                                   ![s].todo = Subgroups \ {s}]
          /\ UNCHANGED <<observed, gaveUp>>
      BY <1>4, Zenon DEF EndAttempt
    <3> QED BY <3>1 DEF DTypeOK
  <2>2. call[s].left - 1 \in 1 .. Attempts
    BY <1>1, <1>4, DetectorAssumption
  <2>3. next \in Calls
    <3>1. next \in [stage : {"acquire"}, addr : Addresses, left : 1 .. Attempts,
                    todo : SUBSET Subgroups, found : BOOLEAN, late : BOOLEAN,
                    retries : BOOLEAN]
      BY <1>1, <2>2
    <3> QED BY <3>1 DEF Calls
  <2>4. call' \in [Subgroups -> Calls]
    <3> HIDE DEF next
    <3> QED BY <2>1, <2>3 DEF DTypeOK
  <2> QED BY <1>2, <2>1, <2>4 DEF DTypeOK
<1> QED BY <1>3, <1>4

LEMMA AtomicFenceType ==
  ASSUME DTypeOK, NEW s \in Subgroups, NEW o, AtomicFence(s, o)
  PROVE  DTypeOK'
<1>1. pending' \in [Subgroups -> 0 .. MaxEpoch + 1]
  <2>1. epoch + 1 \in 0 .. MaxEpoch + 1
    BY DetectorAssumption DEF DTypeOK
  <2> QED BY <2>1 DEF AtomicFence, DTypeOK
<1>2. knows' \in [Subgroups -> SUBSET Ids]
  BY DEF AtomicFence, DTypeOK
<1>3. Carried(s, knows'[s]) \subseteq Ids
  BY <1>2, CarriedType
<1>4. fenced' \in [Subgroups -> SUBSET Ids]
  BY <1>3 DEF AtomicFence, DTypeOK
<1>5. call' \in [Subgroups -> Calls]
  <2>1. CASE Acquires(o) /\ observed[s] # None
    <3>1. observed[s] \in Addresses /\ Attempts \in 1 .. Attempts
      BY <2>1, DetectorAssumption DEF DTypeOK
    <3>2. Acquiring(s, observed[s], Attempts) \in Calls
      BY <3>1, AcquiringType
    <3> QED BY <2>1, <3>2 DEF AtomicFence, DTypeOK
  <2>2. CASE ~(Acquires(o) /\ observed[s] # None)
    BY <2>2 DEF AtomicFence, DTypeOK
  <2> QED BY <2>1, <2>2
<1>6. UNCHANGED <<epoch, shadow, token, record, observed, diagnosed, gaveUp,
                  sync, seen, backing, evid>>
  BY DEF AtomicFence
<1> QED BY <1>1, <1>2, <1>4, <1>5, <1>6 DEF DTypeOK

LEMMA BarrierType ==
  ASSUME DTypeOK, Barrier
  PROVE  DTypeOK'
<1>1. epoch' \in 0 .. MaxEpoch
  BY DetectorAssumption DEF Barrier, DTypeOK
<1>2. /\ knows' \in [Subgroups -> SUBSET Ids]
      /\ evid' \in [Subgroups -> SUBSET Ids]
      /\ diagnosed' \subseteq Cells /\ gaveUp' \subseteq Subgroups
  BY DEF Barrier
<1>3. UNCHANGED <<shadow, token, record, pending, observed, call,
                  sync, fenced, seen, backing>>
  BY DEF Barrier
<1> QED BY <1>1, <1>2, <1>3 DEF DTypeOK

LEMMA TypeStep == DTypeOK /\ [Next]_vars => DTypeOK'
<1> SUFFICES ASSUME DTypeOK, [Next]_vars PROVE DTypeOK'
  OBVIOUS
<1>1. ASSUME NEW s \in Subgroups, NEW a \in Addresses, NEW o, AtomicLoad(s, a, o)
      PROVE  DTypeOK'
  <2>1. Acquires(o) \in BOOLEAN /\ 1 \in 1 .. Attempts
    BY OrdersAreBoolean, DetectorAssumption
  <2> QED BY <1>1, <2>1, ReadValueType DEF AtomicLoad
<1>2. ASSUME NEW s \in Subgroups, NEW a \in Addresses, NEW o,
             CompareExchange(s, a, o)
      PROVE  DTypeOK'
  <2>1. CASE AtomicRmw(s, a, o[1])
    BY <2>1, AtomicRmwType
  <2>2. CASE ReadValue(s, a, Acquires(o[2]), Attempts)
    <3>1. Acquires(o[2]) \in BOOLEAN /\ Attempts \in 1 .. Attempts
      BY OrdersAreBoolean, DetectorAssumption
    <3> QED BY <2>2, <3>1, ReadValueType
  <2> QED BY <1>2, <2>1, <2>2 DEF CompareExchange
<1>3. CASE UNCHANGED vars
  BY <1>3 DEF vars, meta, truth, DTypeOK
<1> QED BY <1>1, <1>2, <1>3, AccessType, AtomicStoreType, StoreValueType,
           AtomicRmwType, RecordRmwType, AtomicFenceType, ImportFromType,
           EndAttemptType, BarrierType DEF Next

\* Every variable keeps its range, for any instance.
THEOREM DetectorTypeCorrect == Spec => []DTypeOK
  BY InitType, TypeStep, PTL DEF Spec

(***************************************************************************)
(* Suppression with evidence.  A token covers a whole epoch of a producer, *)
(* so it is evidence for all its accesses of that epoch only because the   *)
(* producer makes none after the release: Speaks is the inductive form.    *)
(***************************************************************************)
\* Nothing is published for a later epoch than the present one.
NotAhead ==
    /\ \A a \in Addresses, p \in Subgroups : record[a][p] <= epoch + 1
    /\ \A p \in Subgroups : pending[p] <= epoch + 1
    /\ \A s, p \in Subgroups : token[s][p] <= epoch + 1

RecordsSpeak ==
    \A a \in Addresses, p \in Subgroups :
        record[a][p] > epoch => IdsOf(p) \subseteq backing[a][p]

FencesSpeak ==
    \A p \in Subgroups : pending[p] > epoch => IdsOf(p) \subseteq fenced[p]

TokensSpeak ==
    \A s, p \in Subgroups :
        token[s][p] > epoch => /\ IdsOf(p) \subseteq evid[s]
                               /\ \E a \in Addresses : record[a][p] > epoch

OwnKnown == \A s \in Subgroups : IdsOf(s) \subseteq knows[s]

Speaks == NotAhead /\ RecordsSpeak /\ FencesSpeak /\ TokensSpeak /\ OwnKnown

LEMMA InitSpeaks == Init => Speaks
<1> SUFFICES ASSUME Init PROVE Speaks
  OBVIOUS
<1>1. \A s \in Subgroups : IdsOf(s) \subseteq Ids
  BY DEF IdsOf
<1> QED BY <1>1 DEF Init, Speaks, NotAhead, RecordsSpeak, FencesSpeak,
                   TokensSpeak, OwnKnown

\* An access takes nothing from the ids of other subgroups.
LEMMA IdsApart ==
  ASSUME NEW s, NEW c, NEW k, NEW p, p # s, NEW X
  PROVE  IdsOf(p) \subseteq X => IdsOf(p) \subseteq X \ {<<s, c, k>>}
  BY DEF IdsOf

LEMMA AccessSpeaks ==
  ASSUME DTypeOK, Speaks, ReleaseLast, NEW s \in Subgroups, NEW c \in Cells,
         NEW k \in Kinds, Access(s, c, k)
  PROVE  Speaks'
<1> DEFINE id == <<s, c, k>>
<1>1. /\ pending[s] <= epoch
      /\ \A a \in Addresses : record[a][s] <= epoch
  BY DEF Access, CanAccess, NotReleased
<1>2. UNCHANGED <<epoch, token, record, pending>>
  BY DEF Access
<1>3. /\ \A t \in Subgroups : knows'[t] = IF t = s THEN knows[t] ELSE knows[t] \ {id}
      /\ \A t \in Subgroups : fenced'[t] = fenced[t] \ {id}
      /\ \A t \in Subgroups : evid'[t] = evid[t] \ {id}
      /\ \A a \in Addresses, t \in Subgroups : backing'[a][t] = backing[a][t] \ {id}
  BY DEF Access, Forget, ForgetBut, DTypeOK
<1> HIDE DEF id
<1>4. \A p \in Subgroups : \A X : p # s /\ IdsOf(p) \subseteq X
                                    => IdsOf(p) \subseteq X \ {id}
  BY IdsApart DEF id
<1>5. NotAhead'
  BY <1>2 DEF Speaks, NotAhead
<1>6. RecordsSpeak'
  <2> SUFFICES ASSUME NEW a \in Addresses, NEW p \in Subgroups, record[a][p] > epoch
               PROVE  IdsOf(p) \subseteq backing[a][p] \ {id}
    BY <1>2, <1>3 DEF RecordsSpeak
  <2>1. p # s
    BY <1>1 DEF DTypeOK
  <2> QED BY <1>4, <2>1 DEF Speaks, RecordsSpeak
<1>7. FencesSpeak'
  <2> SUFFICES ASSUME NEW p \in Subgroups, pending[p] > epoch
               PROVE  IdsOf(p) \subseteq fenced[p] \ {id}
    BY <1>2, <1>3 DEF FencesSpeak
  <2>1. p # s
    BY <1>1 DEF DTypeOK
  <2> QED BY <1>4, <2>1 DEF Speaks, FencesSpeak
<1>8. TokensSpeak'
  <2> SUFFICES ASSUME NEW t \in Subgroups, NEW p \in Subgroups, token[t][p] > epoch
               PROVE  /\ IdsOf(p) \subseteq evid[t] \ {id}
                      /\ \E a \in Addresses : record[a][p] > epoch
    BY <1>2, <1>3 DEF TokensSpeak
  <2>1. /\ IdsOf(p) \subseteq evid[t]
        /\ \E a \in Addresses : record[a][p] > epoch
    BY DEF Speaks, TokensSpeak
  <2>2. p # s
    BY <1>1, <2>1 DEF DTypeOK
  <2> QED BY <1>4, <2>1, <2>2
<1>9. OwnKnown'
  <2> SUFFICES ASSUME NEW t \in Subgroups
               PROVE  IdsOf(t) \subseteq IF t = s THEN knows[t] ELSE knows[t] \ {id}
    BY <1>3 DEF OwnKnown
  <2> QED BY <1>4 DEF Speaks, OwnKnown
<1> QED BY <1>5, <1>6, <1>7, <1>8, <1>9 DEF Speaks

\* A release puts out a record that speaks for everything its subgroup did.
LEMMA PutReleaseSpeaks ==
  ASSUME DTypeOK, Speaks, NEW s \in Subgroups, NEW a \in Addresses,
         NEW rel \in BOOLEAN, PutRelease(s, a, rel), epoch' = epoch,
         UNCHANGED <<token, knows, fenced, evid>>
  PROVE  Speaks'
<1> DEFINE t == IF rel THEN epoch + 1 ELSE pending[s]
           B == IF rel THEN IdsOf(s) ELSE fenced[s] \cap IdsOf(s)
<1>1. t \in Nat /\ t <= epoch + 1 /\ epoch \in Nat
  BY DetectorAssumption DEF DTypeOK, Speaks, NotAhead
<1>2. t > epoch => IdsOf(s) \subseteq B
  BY <1>1 DEF DTypeOK, Speaks, FencesSpeak
<1> HIDE DEF t, B
<1>3. \A b \in Addresses, p \in Subgroups :
        \/ record'[b][p] = record[b][p] /\ backing'[b][p] = backing[b][p]
        \/ /\ b = a /\ p = s
           /\ record'[b][p] = Joined(record[b][p], t)
           /\ backing'[b][p] = backing[b][p] \cup B
  <2>1. CASE rel
    <3>1. record' = Published(s, a, epoch + 1)
          /\ backing' = [backing EXCEPT ![a][s] = @ \cup IdsOf(s)]
      BY <2>1 DEF PutRelease
    <3> QED BY <2>1, <3>1 DEF Published, DTypeOK, t, B
  <2>2. CASE ~rel /\ pending[s] # 0
    <3>1. record' = Published(s, a, pending[s])
          /\ backing' = [backing EXCEPT ![a][s] = @ \cup (fenced[s] \cap IdsOf(s))]
      BY <2>2 DEF PutRelease
    <3> QED BY <2>2, <3>1 DEF Published, DTypeOK, t, B
  <2>3. CASE ~rel /\ pending[s] = 0
    BY <2>3 DEF PutRelease
  <2> QED BY <2>1, <2>2, <2>3
<1>4. \A p \in Subgroups : pending'[p] = pending[p] \/ pending'[p] = 0
  <2>1. pending' = pending \/ pending' = [pending EXCEPT ![s] = 0]
    BY DEF PutRelease
  <2> QED BY <2>1 DEF DTypeOK
<1>5. \A b \in Addresses, p \in Subgroups :
        /\ record[b][p] \in Nat /\ record'[b][p] \in Nat
        /\ record'[b][p] >= record[b][p]
        /\ record'[b][p] <= epoch + 1
  <2> TAKE b \in Addresses, p \in Subgroups
  <2>1. record[b][p] \in Nat /\ record[b][p] <= epoch + 1
    BY DEF DTypeOK, Speaks, NotAhead
  <2>2. \/ record'[b][p] = record[b][p]
        \/ record'[b][p] = Joined(record[b][p], t)
    BY <1>3
  <2> QED BY <1>1, <2>1, <2>2 DEF Joined
<1>6. NotAhead'
  BY <1>1, <1>4, <1>5 DEF Speaks, NotAhead
<1>7. RecordsSpeak'
  <2> SUFFICES ASSUME NEW b \in Addresses, NEW p \in Subgroups, record'[b][p] > epoch
               PROVE  IdsOf(p) \subseteq backing'[b][p]
    BY DEF RecordsSpeak
  <2> QED BY <1>1, <1>2, <1>3, <1>5 DEF Joined, Speaks, RecordsSpeak
<1>8. FencesSpeak'
  BY <1>1, <1>4 DEF Speaks, FencesSpeak
<1>9. TokensSpeak'
  <2> SUFFICES ASSUME NEW x \in Subgroups, NEW p \in Subgroups, token[x][p] > epoch
               PROVE  /\ IdsOf(p) \subseteq evid[x]
                      /\ \E b \in Addresses : record'[b][p] > epoch
    BY DEF TokensSpeak
  <2>1. PICK b \in Addresses : record[b][p] > epoch
    BY DEF Speaks, TokensSpeak
  <2>2. record'[b][p] > epoch
    BY <1>1, <1>5, <2>1
  <2> QED BY <2>2 DEF Speaks, TokensSpeak
<1>10. OwnKnown'
  BY DEF Speaks, OwnKnown
<1> QED BY <1>6, <1>7, <1>8, <1>9, <1>10 DEF Speaks

\* What leaves records, tokens and fences alone and takes no knowledge away.
LEMMA QuietSpeaks ==
  ASSUME Speaks, UNCHANGED <<epoch, token, record, pending, fenced, backing, evid>>,
         \A s \in Subgroups : knows[s] \subseteq knows'[s]
  PROVE  Speaks'
BY DEF Speaks, NotAhead, RecordsSpeak, FencesSpeak, TokensSpeak, OwnKnown

LEMMA LearnGrows ==
  ASSUME DTypeOK, NEW s \in Subgroups, NEW ids, NEW acq, Learn(s, ids, acq)
  PROVE  \A x \in Subgroups : knows[x] \subseteq knows'[x]
BY DEF Learn, DTypeOK

LEMMA ImportFromSpeaks ==
  ASSUME DTypeOK, Speaks, NEW s \in Subgroups, NEW p \in Subgroups,
         ImportFrom(s, p)
  PROVE  Speaks'
<1> DEFINE a == call[s].addr
<1>1. a \in Addresses
  BY StageFields DEF ImportFrom
<1>2. UNCHANGED <<epoch, record, pending, knows, fenced, backing>>
  BY DEF ImportFrom
<1>3. CASE HasRecord(a, p)
  <2>1. token' = ImportedToken(s, a, p)
        /\ evid' = [evid EXCEPT ![s] = @ \cup backing[a][p]]
    BY <1>3 DEF ImportFrom
  <2> HIDE DEF a
  <2>2. \A x, q \in Subgroups :
          \/ token'[x][q] = token[x][q] /\ evid[x] \subseteq evid'[x]
          \/ /\ q = p /\ token'[x][q] = record[a][p]
             /\ backing[a][p] \subseteq evid'[x]
    BY <1>1, <2>1 DEF ImportedToken, DTypeOK
  <2>3. record[a][p] <= epoch + 1
        /\ (record[a][p] > epoch => IdsOf(p) \subseteq backing[a][p])
    BY <1>1 DEF Speaks, NotAhead, RecordsSpeak
  <2>4. NotAhead'
    BY <1>2, <2>2, <2>3 DEF Speaks, NotAhead
  <2>5. TokensSpeak'
    <3> SUFFICES ASSUME NEW x \in Subgroups, NEW q \in Subgroups,
                        token'[x][q] > epoch
                 PROVE  /\ IdsOf(q) \subseteq evid'[x]
                        /\ \E b \in Addresses : record[b][q] > epoch
      BY <1>2 DEF TokensSpeak
    <3> QED BY <1>1, <2>2, <2>3 DEF Speaks, TokensSpeak
  <2> QED BY <1>2, <2>4, <2>5 DEF Speaks, RecordsSpeak, FencesSpeak, OwnKnown
<1>4. CASE ~HasRecord(a, p)
  <2>1. UNCHANGED <<token, evid>>
    BY <1>4 DEF ImportFrom
  <2> QED BY <1>2, <2>1, QuietSpeaks
<1> QED BY <1>3, <1>4

LEMMA AtomicFenceSpeaks ==
  ASSUME DTypeOK, Speaks, NEW s \in Subgroups, NEW o, AtomicFence(s, o)
  PROVE  Speaks'
<1>1. UNCHANGED <<epoch, token, record, backing, evid>>
  BY DEF AtomicFence
<1>2. \A x \in Subgroups : knows[x] \subseteq knows'[x]
  BY DEF AtomicFence, DTypeOK
<1>3. OwnKnown'
  BY <1>2 DEF Speaks, OwnKnown
<1>4. CASE Releases(o)
  <2>1. pending' = [pending EXCEPT ![s] = epoch + 1]
        /\ fenced' = [fenced EXCEPT ![s] = Carried(s, knows'[s])]
    BY <1>4 DEF AtomicFence
  <2>2. IdsOf(s) \subseteq Carried(s, knows'[s])
    BY <1>3 DEF Carried, OwnKnown
  <2>3. NotAhead' /\ FencesSpeak'
    BY <1>1, <2>1, <2>2 DEF Speaks, NotAhead, FencesSpeak, DTypeOK
  <2> QED BY <1>1, <1>3, <2>3 DEF Speaks, RecordsSpeak, TokensSpeak
<1>5. CASE ~Releases(o)
  <2>1. UNCHANGED <<pending, fenced>>
    BY <1>5 DEF AtomicFence
  <2> QED BY <1>1, <1>2, <2>1, QuietSpeaks
<1> QED BY <1>4, <1>5

\* After a barrier every record and every token is of an earlier epoch.
LEMMA BarrierSpeaks ==
  ASSUME DTypeOK, Speaks, Barrier
  PROVE  Speaks'
<1>1. epoch' = epoch + 1 /\ UNCHANGED <<token, record, pending>>
  BY DEF Barrier
<1>2. epoch \in Nat
  BY DetectorAssumption DEF DTypeOK
<1>3. /\ \A a \in Addresses, p \in Subgroups :
           record'[a][p] \in Nat /\ record'[a][p] <= epoch'
      /\ \A p \in Subgroups : pending'[p] \in Nat /\ pending'[p] <= epoch'
      /\ \A x, p \in Subgroups : token'[x][p] \in Nat /\ token'[x][p] <= epoch'
  BY <1>1 DEF DTypeOK, Speaks, NotAhead
<1>4. epoch' \in Nat
  BY <1>1, <1>2
<1>5. NotAhead'
  BY <1>3, <1>4 DEF NotAhead
<1>6. RecordsSpeak' /\ FencesSpeak' /\ TokensSpeak'
  BY <1>3, <1>4 DEF RecordsSpeak, FencesSpeak, TokensSpeak
<1>7. OwnKnown'
  BY DEF Barrier, OwnKnown, IdsOf
<1> QED BY <1>5, <1>6, <1>7 DEF Speaks

LEMMA SpeaksStep ==
  ASSUME ReleaseLast
  PROVE  DTypeOK /\ Speaks /\ [Next]_vars => Speaks'
<1> SUFFICES ASSUME DTypeOK, Speaks, [Next]_vars PROVE Speaks'
  OBVIOUS
<1>1. ASSUME NEW s \in Subgroups, NEW a \in Addresses, NEW o, AtomicStore(s, a, o)
      PROVE  Speaks'
  <2>1. Releases(o) \in BOOLEAN
    BY OrdersAreBoolean
  <2>2. PutRelease(s, a, Releases(o)) /\ epoch' = epoch
        /\ UNCHANGED <<token, knows, fenced, evid>>
    BY <1>1 DEF AtomicStore
  <2> QED BY <2>1, <2>2, PutReleaseSpeaks
<1>2. ASSUME NEW s \in Subgroups, RecordRmw(s)
      PROVE  Speaks'
  <2>1. call[s].addr \in Addresses /\ call[s].rel \in BOOLEAN
    BY <1>2, StageFields DEF RecordRmw
  <2>2. PutRelease(s, call[s].addr, call[s].rel) /\ epoch' = epoch
        /\ UNCHANGED <<token, knows, fenced, evid>>
    BY <1>2 DEF RecordRmw
  <2> QED BY <2>1, <2>2, PutReleaseSpeaks
<1>3. ASSUME NEW s \in Subgroups, NEW a, NEW acq, NEW n, ReadValue(s, a, acq, n)
      PROVE  Speaks'
  <2>1. \A x \in Subgroups : knows[x] \subseteq knows'[x]
    BY <1>3, LearnGrows DEF ReadValue
  <2>2. UNCHANGED <<epoch, token, record, pending, fenced, backing, evid>>
    BY <1>3 DEF ReadValue
  <2> QED BY <2>1, <2>2, QuietSpeaks
<1>4. ASSUME NEW s \in Subgroups, NEW a, NEW o, AtomicRmw(s, a, o)
      PROVE  Speaks'
  <2>1. \A x \in Subgroups : knows[x] \subseteq knows'[x]
    BY <1>4, LearnGrows DEF AtomicRmw
  <2>2. UNCHANGED <<epoch, token, record, pending, fenced, backing, evid>>
    BY <1>4 DEF AtomicRmw, meta
  <2> QED BY <2>1, <2>2, QuietSpeaks
<1>5. ASSUME NEW s \in Subgroups, StoreValue(s) \/ EndAttempt(s)
      PROVE  Speaks'
  <2>1. UNCHANGED <<epoch, token, record, pending, knows, fenced, backing, evid>>
    BY <1>5 DEF StoreValue, EndAttempt, meta, truth
  <2> QED BY <2>1, QuietSpeaks
<1>6. CASE UNCHANGED vars
  <2>1. UNCHANGED <<epoch, token, record, pending, knows, fenced, backing, evid>>
    BY <1>6 DEF vars, meta, truth
  <2> QED BY <2>1, QuietSpeaks
<1> QED BY <1>1, <1>2, <1>3, <1>4, <1>5, <1>6, AccessSpeaks, ImportFromSpeaks,
           AtomicFenceSpeaks, BarrierSpeaks
        DEF Next, AtomicLoad, CompareExchange

\* Where the epochs fit, a suppressed conflict is of the present epoch and its
\* token is evidence for all accesses of the owner.
LEMMA SpeaksIsEvidence ==
  ASSUME DTypeOK, Speaks, MaxEpoch < EpochModulus
  PROVE  SuppressedWithEvidence
<1> SUFFICES ASSUME NEW s \in Subgroups, NEW c \in Cells, NEW k \in Kinds,
                    Suppresses(s, c, k)
             PROVE  IdIn(c) \in evid[s]
  BY DEF SuppressedWithEvidence
<1>1. shadow[c] \in Entries
  BY DEF Suppresses, Conflicts, DTypeOK, Empty
<1>2. shadow[c].owner \in Subgroups /\ shadow[c].kind \in Kinds
  BY <1>1 DEF Entries
<1>3. Stored(epoch) = epoch
  BY StoredIsEpoch
<1>4. token[s][shadow[c].owner] > epoch
  BY <1>2, <1>3, DetectorAssumption
     DEF Suppresses, Conflicts, AcquiredPrior, DTypeOK
<1>5. IdIn(c) \in IdsOf(shadow[c].owner)
  BY <1>2 DEF IdIn, IdsOf, Ids
<1> QED BY <1>2, <1>4, <1>5 DEF Speaks, TokensSpeak

\* The detector suppresses a conflict only if a record its subgroup imported
\* speaks for the access it displaced (context.hpp 1034-1053, 1155-1156), as
\* long as kernels release last and no more barriers pass than the shadow
\* word's epoch can count (shadow.hpp 75).
THEOREM SuppressionIsBacked ==
  ASSUME ReleaseLast, MaxEpoch < EpochModulus
  PROVE  Spec => []SuppressedWithEvidence
<1>1. Init => DTypeOK /\ Speaks
  BY InitType, InitSpeaks
<1>2. DTypeOK /\ Speaks /\ [Next]_vars => (DTypeOK /\ Speaks)'
  BY TypeStep, SpeaksStep
<1>3. DTypeOK /\ Speaks => SuppressedWithEvidence
  BY SpeaksIsEvidence
<1> QED BY <1>1, <1>2, <1>3, PTL DEF Spec

(***************************************************************************)
(* Reports.  Whatever a subgroup knows of another's present epoch came     *)
(* with a record that it has imported or is about to import: because the   *)
(* record was there before the value, or because the search is repeated    *)
(* until it is.                                                            *)
(***************************************************************************)
\* No third subgroup takes part in a handoff.
TwoSubgroups == \E x, y \in Subgroups : Subgroups = {x, y}
Direct == ~Transitive \/ TwoSubgroups

\* A fence has one address to look at: the only one there is, or the one of
\* the atomic it goes with.
FencesSeeAll == FenceOrders = {} \/ FencesPaired \/ \A a, b \in Addresses : a = b

NoReleaseFences == \A o \in FenceOrders : ~Releases(o)

\* Stores release and read-modify-writes at most acquire, so that no value is
\* out before its record.
RecordsFirst ==
    \/ RmwOrders = {} /\ CasOrders = {}
    \/ /\ NoReleaseFences
       /\ \A o \in RmwOrders : ~Releases(o)
       /\ \A o \in CasOrders : ~Releases(o[1])

\* Two subgroups, between barriers, whose searches are all repeated.
Pairs ==
    /\ TwoSubgroups
    /\ MaxEpoch = 0
    /\ Attempts # 1
    /\ \A o \in LoadOrders : ~Acquires(o)

HandoffAssumption == Direct /\ FencesSeeAll /\ MaxEpoch < EpochModulus /\ (RecordsFirst \/ Pairs)

\* The cell's last access is p's, in this epoch.
FreshBy(c, p) == shadow[c].kind # "empty" /\ shadow[c].epoch = epoch /\ shadow[c].owner = p

\* Everybody knows of the cell's last access.
Shared(c) == \A s \in Subgroups : IdIn(c) \in knows[s]

\* The record of p's present epoch is out, or p is about to put it out.
Backed(a, p) ==
    \/ record[a][p] > epoch
    \/ /\ ~RecordsFirst
       /\ Publishing(p, a)
       /\ call[p].rel \/ pending[p] > epoch

\* s still has to look for p's record, or found it missing in an attempt that
\* will be repeated or excused.
Awaited(s, p) ==
    \/ call[s].stage = "record" /\ call[s].acq
    \/ /\ call[s].stage = "acquire"
       /\ \/ p \in call[s].todo /\ RecordsFirst
          \/ /\ p \in call[s].todo \/ call[s].late
             /\ ~RecordsFirst /\ ~call[s].found

Covered(s, p) ==
    \/ token[s][p] > epoch
    \/ s \in gaveUp
    \/ Awaited(s, p) /\ Backed(call[s].addr, p)

DatedShadow == \A c \in Cells : shadow[c].kind # "empty" => shadow[c].epoch <= epoch

SyncBacked ==
    \A a \in Addresses, c \in Cells, p \in Subgroups :
        FreshBy(c, p) /\ IdIn(c) \in sync[a] => Backed(a, p) \/ Shared(c)

KnowsOwn(s) == IdsOf(s) \subseteq knows[s]

Unfenced(s) == NoReleaseFences => pending[s] = 0 /\ fenced[s] = {}

Staged(s) ==
    /\ call[s].stage = "record" /\ RecordsFirst => ~call[s].rel /\ NoReleaseFences
    /\ call[s].stage = "acquire" => s \notin call[s].todo
    /\ call[s].stage = "acquire" /\ ~RecordsFirst => call[s].retries

\* What s put out of this epoch under its last release fence, some record has.
FencePaid(s) == pending[s] = 0 /\ \E a \in Addresses : record[a][s] > epoch

\* What a release fence covers has its record when the next value goes out.
FencesBacked(s) ==
    \A c \in Cells, p \in Subgroups : FreshBy(c, p) /\ IdIn(c) \in fenced[s] =>
        Shared(c) \/ (p = s /\ (pending[s] > epoch \/ FencePaid(s)))

StoresBacked(s) ==
    \A c \in Cells :
        /\ FreshBy(c, s)
        /\ call[s].stage = "store"
        /\ call[s].rel \/ IdIn(c) \in fenced[s]
        => Shared(c) \/ record[call[s].addr][s] > epoch

\* The address an acquire fence of s will look at, None if there is none yet.
LooksAt(s) == IF call[s].stage \in {"record", "acquire"} THEN call[s].addr ELSE observed[s]

\* What relaxed reads have brought, an acquire fence will look for.
SeenBacked(s) ==
    FenceOrders # {} =>
        \A c \in Cells, p \in Subgroups :
            p # s /\ FreshBy(c, p) /\ IdIn(c) \in seen[s] =>
                IdIn(c) \in knows[s] \/ (LooksAt(s) # None /\ Backed(LooksAt(s), p))

KnownCovered(s) ==
    \A c \in Cells, p \in Subgroups :
        p # s /\ FreshBy(c, p) /\ IdIn(c) \in knows[s] => Covered(s, p)

Facts(s) == /\ KnowsOwn(s) /\ Unfenced(s) /\ Staged(s)
            /\ FencesBacked(s) /\ StoresBacked(s) /\ SeenBacked(s) /\ KnownCovered(s)

Handoff == DatedShadow /\ SyncBacked /\ \A s \in Subgroups : Facts(s)

LEMMA InitHandoff == Init => Handoff
BY DEF Init, Handoff, DatedShadow, SyncBacked, Facts, KnowsOwn, Unfenced, Staged, FencesBacked,
       StoresBacked, SeenBacked, KnownCovered, FreshBy, Empty, Idle, IdsOf

\* A cell that was accessed names a subgroup and one of its ids.
LEMMA FreshEntry ==
  ASSUME DTypeOK, NEW c \in Cells, shadow[c].kind # "empty"
  PROVE  /\ shadow[c].owner \in Subgroups
         /\ shadow[c].kind \in Kinds
         /\ shadow[c].epoch \in Nat
         /\ IdIn(c) \in IdsOf(shadow[c].owner)
<1>1. shadow[c] \in Entries
  BY DEF DTypeOK, Empty
<1>2. shadow[c].owner \in Subgroups /\ shadow[c].kind \in Kinds /\ shadow[c].epoch \in Nat
  BY <1>1, DetectorAssumption DEF Entries
<1> QED BY <1>2 DEF IdIn, IdsOf, Ids

(***************************************************************************)
(* What a step of s leaves alone, and that records only come and rise.     *)
(***************************************************************************)
Quiet(s) ==
  /\ UNCHANGED <<epoch, shadow>>
  /\ knows[s] \subseteq knows'[s] /\ gaveUp \subseteq gaveUp'
  /\ \A t \in Subgroups : t # s =>
       /\ call'[t] = call[t] /\ token'[t] = token[t]
       /\ pending'[t] = pending[t] /\ observed'[t] = observed[t]
       /\ knows'[t] = knows[t] /\ fenced'[t] = fenced[t] /\ seen'[t] = seen[t]

RecordsCome(s) ==
  /\ \A a \in Addresses, p \in Subgroups : record[a][p] > epoch => record'[a][p] > epoch
  /\ call[s].stage = "record" /\ (call[s].rel \/ pending[s] > epoch)
       => record'[call[s].addr][s] > epoch

LEMMA BackedStays ==
  ASSUME NEW s \in Subgroups, Quiet(s), RecordsCome(s), NEW a \in Addresses,
         NEW p \in Subgroups, Backed(a, p)
  PROVE  Backed(a, p)'
<1>1. CASE record[a][p] > epoch
  BY <1>1 DEF Backed, Quiet, RecordsCome
<1>2. CASE ~(record[a][p] > epoch)
  <2>1. ~RecordsFirst /\ Publishing(p, a) /\ (call[p].rel \/ pending[p] > epoch)
    BY <1>2 DEF Backed
  <2>2. CASE p = s
    BY <2>1, <2>2 DEF Backed, Publishing, Quiet, RecordsCome
  <2>3. CASE p # s
    BY <2>1, <2>3 DEF Backed, Publishing, Quiet
  <2> QED BY <2>2, <2>3
<1> QED BY <1>1, <1>2

LEMMA SharedStays ==
  ASSUME NEW s \in Subgroups, Quiet(s), NEW c \in Cells
  PROVE  /\ IdIn(c)' = IdIn(c)
         /\ \A p : FreshBy(c, p)' <=> FreshBy(c, p)
         /\ Shared(c) => Shared(c)'
<1>1. IdIn(c)' = IdIn(c) /\ \A p : FreshBy(c, p)' <=> FreshBy(c, p)
  BY DEF Quiet, IdIn, FreshBy
<1>2. ASSUME Shared(c) PROVE Shared(c)'
  BY <1>1, <1>2 DEF Shared, Quiet
<1> QED BY <1>1, <1>2

\* An awaited record is at the address of an operation.
LEMMA AwaitedAddress ==
  ASSUME DTypeOK, NEW s \in Subgroups, NEW p, Awaited(s, p)
  PROVE  call[s].addr \in Addresses
<1>1. call[s].stage = "record" \/ call[s].stage = "acquire"
  BY DEF Awaited
<1> QED BY <1>1, StageFields

\* So is the one a fence will look at.
LEMMA LooksAtAddress ==
  ASSUME DTypeOK, NEW s \in Subgroups
  PROVE  LooksAt(s) \in {None} \cup Addresses
<1>1. call[s].stage \in {"record", "acquire"} => call[s].addr \in Addresses
  BY StageFields
<1> QED BY <1>1 DEF LooksAt, DTypeOK

\* What waits for an acquire fence goes on waiting for it.
LEMMA SeenWaits ==
  ASSUME DTypeOK, NEW s \in Subgroups, Quiet(s), RecordsCome(s), SeenBacked(s),
         seen'[s] = seen[s],
         LooksAt(s)' = LooksAt(s) \/ LooksAt(s) = None
  PROVE  SeenBacked(s)'
<1> SUFFICES ASSUME FenceOrders # {}, NEW c \in Cells, NEW p \in Subgroups, p # s,
                    FreshBy(c, p), IdIn(c) \in seen[s], IdIn(c) \notin knows[s]
             PROVE  (LooksAt(s) # None /\ Backed(LooksAt(s), p))'
  BY SharedStays DEF SeenBacked, Quiet
<1>1. LooksAt(s) # None /\ Backed(LooksAt(s), p)
  BY DEF SeenBacked
<1>2. PICK a \in Addresses : a = LooksAt(s)
  BY <1>1, LooksAtAddress
<1>3. Backed(a, p)'
  BY <1>1, <1>2, BackedStays
<1>4. LooksAt(s)' = a
  BY <1>1, <1>2
<1>5. Backed(LooksAt(s), p)'
  BY <1>3, <1>4 DEF Backed, Publishing
<1> QED BY <1>1, <1>2, <1>4, <1>5

\* What a relaxed read of a left for a fence before, is backed at a too.
LEMMA SeenHere ==
  ASSUME DTypeOK, FencesSeeAll, NEW s \in Subgroups, NEW a \in Addresses,
         SeenBacked(s), ReadsPaired(s, a), call[s].stage = "idle", FenceOrders # {},
         NEW c \in Cells, NEW p \in Subgroups, p # s, FreshBy(c, p),
         IdIn(c) \in seen[s], IdIn(c) \notin knows[s]
  PROVE  Backed(a, p)
<1>1. observed[s] # None /\ Backed(observed[s], p)
  BY DEF SeenBacked, LooksAt
<1>2. observed[s] \in Addresses
  BY <1>1 DEF DTypeOK
<1>3. observed[s] = a
  BY <1>1, <1>2 DEF FencesSeeAll, ReadsPaired
<1> QED BY <1>1, <1>3

\* What a release fence covers is out, or goes out, with the next write to a.
LEMMA FencedHere ==
  ASSUME DTypeOK, FencesSeeAll, NEW s \in Subgroups, NEW a \in Addresses, NEW rel \in BOOLEAN,
         FencesBacked(s), Unfenced(s), WritesPaired(s, a, rel),
         NEW c \in Cells, NEW p \in Subgroups, FreshBy(c, p), IdIn(c) \in fenced[s], ~Shared(c)
  PROVE  p = s /\ (rel \/ pending[s] > epoch \/ record[a][s] > epoch)
<1>1. p = s /\ (pending[s] > epoch \/ FencePaid(s))
  BY DEF FencesBacked
<1>2. CASE pending[s] > epoch
  BY <1>1, <1>2
<1>3. CASE FencePaid(s)
  <2>1. PICK b \in Addresses : pending[s] = 0 /\ record[b][s] > epoch
    BY <1>3 DEF FencePaid
  <2>2. FenceOrders # {} /\ fenced[s] # {}
    BY DEF Unfenced, NoReleaseFences
  <2>3. ~NotReleased(s)
    <3>1. record[b][s] \in Nat /\ epoch \in Nat
      BY DetectorAssumption DEF DTypeOK
    <3> QED BY <2>1, <3>1 DEF NotReleased
  <2>4. rel \/ record[a][s] > epoch
    BY <2>1, <2>2, <2>3 DEF FencesSeeAll, WritesPaired
  <2> QED BY <1>1, <2>4
<1> QED BY <1>1, <1>2, <1>3

LEMMA OthersKeep ==
  ASSUME DTypeOK, NEW s \in Subgroups, Quiet(s), RecordsCome(s),
         NEW t \in Subgroups, t # s, Facts(t)
  PROVE  Facts(t)'
<1>1. /\ epoch' = epoch
      /\ call'[t] = call[t] /\ token'[t] = token[t]
      /\ pending'[t] = pending[t] /\ observed'[t] = observed[t]
      /\ knows'[t] = knows[t] /\ fenced'[t] = fenced[t] /\ seen'[t] = seen[t]
  BY DEF Quiet
<1>2. \A c \in Cells : /\ IdIn(c)' = IdIn(c)
                       /\ \A p : FreshBy(c, p)' <=> FreshBy(c, p)
                       /\ Shared(c) => Shared(c)'
  BY SharedStays
<1>3. \A a \in Addresses, p \in Subgroups :
        /\ Backed(a, p) => Backed(a, p)'
        /\ record[a][p] > epoch => record'[a][p] > epoch
  BY BackedStays DEF RecordsCome
<1>4. KnowsOwn(t)' /\ Unfenced(t)' /\ Staged(t)'
  BY <1>1 DEF Facts, KnowsOwn, Unfenced, Staged
<1>5. FencesBacked(t)'
  <2>1. FencesBacked(t)
    BY DEF Facts
  <2>2. FencePaid(t) => FencePaid(t)'
    BY <1>1, <1>3 DEF FencePaid
  <2> QED BY <1>1, <1>2, <2>1, <2>2 DEF FencesBacked
<1>6. StoresBacked(t)'
  <2>1. StoresBacked(t)
    BY DEF Facts
  <2> SUFFICES ASSUME NEW c \in Cells, FreshBy(c, t), call[t].stage = "store",
                      call[t].rel \/ IdIn(c) \in fenced[t]
               PROVE  Shared(c)' \/ record'[call[t].addr][t] > epoch
    BY <1>1, <1>2 DEF StoresBacked
  <2>2. call[t].addr \in Addresses
    BY StageFields
  <2>3. Shared(c) \/ record[call[t].addr][t] > epoch
    BY <2>1 DEF StoresBacked
  <2> QED BY <1>2, <1>3, <2>2, <2>3
<1>7. SeenBacked(t)'
  <2>1. SeenBacked(t)
    BY DEF Facts
  <2>2. LooksAt(t)' = LooksAt(t)
    BY <1>1 DEF LooksAt
  <2> SUFFICES ASSUME FenceOrders # {}, NEW c \in Cells, NEW p \in Subgroups, p # t,
                      FreshBy(c, p), IdIn(c) \in seen[t], IdIn(c) \notin knows[t]
               PROVE  (LooksAt(t) # None /\ Backed(LooksAt(t), p))'
    BY <1>1, <1>2 DEF SeenBacked
  <2>3. LooksAt(t) # None /\ Backed(LooksAt(t), p)
    BY <2>1 DEF SeenBacked
  <2>4. PICK a \in Addresses : a = LooksAt(t)
    BY <2>3, LooksAtAddress
  <2>5. Backed(a, p)'
    BY <1>3, <2>3, <2>4
  <2>6. Backed(LooksAt(t), p)'
    BY <2>2, <2>4, <2>5 DEF Backed, Publishing
  <2> QED BY <2>2, <2>3, <2>6
<1>8. KnownCovered(t)'
  <2>1. KnownCovered(t)
    BY DEF Facts
  <2> SUFFICES ASSUME NEW c \in Cells, NEW p \in Subgroups, p # t, FreshBy(c, p),
                      IdIn(c) \in knows[t]
               PROVE  Covered(t, p)'
    BY <1>1, <1>2 DEF KnownCovered
  <2>2. Covered(t, p)
    BY <2>1 DEF KnownCovered
  <2>3. CASE token[t][p] > epoch \/ t \in gaveUp
    BY <1>1, <2>3 DEF Covered, Quiet
  <2>4. CASE Awaited(t, p) /\ Backed(call[t].addr, p)
    <3>1. PICK a \in Addresses : a = call[t].addr
      BY <2>4, AwaitedAddress
    <3>2. Backed(a, p)'
      BY <1>3, <2>4, <3>1
    <3>3. Awaited(t, p)'
      BY <1>1, <2>4 DEF Awaited
    <3>4. call'[t].addr = a
      BY <1>1, <3>1
    <3> QED BY <3>2, <3>3, <3>4 DEF Covered
  <2> QED BY <2>2, <2>3, <2>4 DEF Covered
<1> QED BY <1>4, <1>5, <1>6, <1>7, <1>8 DEF Facts

LEMMA StepHandoff ==
  ASSUME DTypeOK, Handoff, NEW s \in Subgroups, Quiet(s), RecordsCome(s), Facts(s)',
         \A a \in Addresses, c \in Cells, p \in Subgroups :
             FreshBy(c, p) /\ IdIn(c) \in sync'[a] => Backed(a, p)' \/ Shared(c)'
  PROVE  Handoff'
<1>1. DatedShadow'
  BY DEF Handoff, DatedShadow, Quiet
<1>2. SyncBacked'
  BY SharedStays DEF SyncBacked
<1>3. \A t \in Subgroups : Facts(t)'
  BY OthersKeep DEF Handoff
<1> QED BY <1>1, <1>2, <1>3 DEF Handoff

\* What was there of values stays backed.
LEMMA SyncStays ==
  ASSUME Handoff, NEW s \in Subgroups, Quiet(s), RecordsCome(s), NEW a \in Addresses,
         NEW c \in Cells, NEW p \in Subgroups, FreshBy(c, p), IdIn(c) \in sync[a]
  PROVE  Backed(a, p)' \/ Shared(c)'
BY BackedStays, SharedStays DEF Handoff, SyncBacked

(***************************************************************************)
(* The steps.                                                              *)
(***************************************************************************)
LEMMA AccessHandoff ==
  ASSUME DTypeOK, Handoff, MaxEpoch < EpochModulus, NEW s \in Subgroups,
         NEW c \in Cells, NEW k \in Kinds, Access(s, c, k)
  PROVE  Handoff'
<1> DEFINE id == <<s, c, k>>
<1>1. UNCHANGED <<epoch, token, record, pending, observed, call, gaveUp>>
  BY DEF Access
<1>2. /\ \A t \in Subgroups : t # s => knows'[t] = knows[t] \ {id}
      /\ knows'[s] = knows[s]
      /\ \A t \in Subgroups : fenced'[t] = fenced[t] \ {id} /\ seen'[t] = seen[t] \ {id}
      /\ \A a \in Addresses : sync'[a] = sync[a] \ {id}
  BY DEF Access, Forget, ForgetBut, DTypeOK
<1>3. /\ shadow'[c] = [kind |-> k, owner |-> s, epoch |-> epoch]
      /\ \A d \in Cells : d # c => shadow'[d] = shadow[d]
  BY StoredIsEpoch DEF Access, Packed, DTypeOK
<1>4. IdIn(c)' = id /\ \A d \in Cells : d # c => IdIn(d)' = IdIn(d) /\ IdIn(d) # id
  BY <1>3 DEF IdIn
<1>5. epoch \in Nat
  BY StoredIsEpoch
<1>6. call[s].stage = "idle"
  BY DEF Access, CanAccess, IsIdle
<1> HIDE DEF id
<1>7. DatedShadow'
  BY <1>1, <1>3, <1>5 DEF Handoff, DatedShadow
<1>8. \A p : \A d \in Cells : FreshBy(d, p)' => (d = c /\ p = s) \/ (d # c /\ FreshBy(d, p))
  BY <1>1, <1>3 DEF FreshBy
<1>9. \A d \in Cells : d # c /\ Shared(d) => Shared(d)'
  BY <1>2, <1>4 DEF Shared
<1>10. \A a, p : Backed(a, p)' <=> Backed(a, p)
  BY <1>1 DEF Backed, Publishing
<1>11. SyncBacked'
  <2> SUFFICES ASSUME NEW a \in Addresses, NEW d \in Cells, NEW p \in Subgroups,
                      FreshBy(d, p)', IdIn(d)' \in sync'[a]
               PROVE  Backed(a, p)' \/ Shared(d)'
    BY DEF SyncBacked
  <2>1. d # c
    BY <1>2, <1>4
  <2>2. FreshBy(d, p) /\ IdIn(d) \in sync[a]
    BY <1>2, <1>4, <1>8, <2>1
  <2> QED BY <1>9, <1>10, <2>1, <2>2 DEF Handoff, SyncBacked
<1>12. ASSUME NEW t \in Subgroups PROVE Facts(t)'
  <2>1. KnowsOwn(t) /\ Unfenced(t) /\ Staged(t) /\ FencesBacked(t) /\ StoresBacked(t)
        /\ SeenBacked(t) /\ KnownCovered(t)
    BY DEF Handoff, Facts
  <2>2. KnowsOwn(t)'
    <3>1. CASE t = s
      BY <1>2, <2>1, <3>1 DEF KnowsOwn
    <3>2. CASE t # s
      <4>1. IdsOf(t) \subseteq knows[t] \ {<<s, c, k>>}
        BY <2>1, <3>2, IdsApart DEF KnowsOwn
      <4> QED BY <1>2, <3>2, <4>1 DEF KnowsOwn, id
    <3> QED BY <3>1, <3>2
  <2>3. Unfenced(t)' /\ Staged(t)'
    BY <1>1, <1>2, <2>1 DEF Unfenced, Staged
  <2>4. FencesBacked(t)'
    <3> SUFFICES ASSUME NEW d \in Cells, NEW p \in Subgroups, FreshBy(d, p)',
                        IdIn(d)' \in fenced'[t]
                 PROVE  Shared(d)' \/ (p = t /\ (pending[t] > epoch \/ FencePaid(t)))
      BY <1>1 DEF FencesBacked, FencePaid
    <3>1. d # c /\ FreshBy(d, p) /\ IdIn(d) \in fenced[t]
      BY <1>2, <1>4, <1>8
    <3> QED BY <1>9, <2>1, <3>1 DEF FencesBacked
  <2>5. StoresBacked(t)'
    <3> SUFFICES ASSUME NEW d \in Cells, FreshBy(d, t)', call[t].stage = "store",
                        call[t].rel \/ IdIn(d)' \in fenced'[t]
                 PROVE  Shared(d)' \/ record[call[t].addr][t] > epoch
      BY <1>1 DEF StoresBacked
    <3>1. d # c
      BY <1>6, <1>8
    <3>2. FreshBy(d, t) /\ (call[t].rel \/ IdIn(d) \in fenced[t])
      BY <1>2, <1>4, <1>8, <3>1
    <3> QED BY <1>9, <2>1, <3>1, <3>2 DEF StoresBacked
  <2>6. SeenBacked(t)'
    <3> SUFFICES ASSUME FenceOrders # {}, NEW d \in Cells, NEW p \in Subgroups, p # t,
                        FreshBy(d, p)', IdIn(d)' \in seen'[t]
                 PROVE  IdIn(d)' \in knows'[t] \/ (LooksAt(t) # None /\ Backed(LooksAt(t), p))'
      BY DEF SeenBacked
    <3> LooksAt(t)' = LooksAt(t)
      BY <1>1 DEF LooksAt
    <3> Backed(LooksAt(t), p)' <=> Backed(LooksAt(t), p)
      BY <1>1 DEF LooksAt, Backed, Publishing
    <3>1. d # c /\ FreshBy(d, p) /\ IdIn(d) \in seen[t]
      BY <1>2, <1>4, <1>8
    <3>2. IdIn(d) \in knows[t] => IdIn(d)' \in knows'[t]
      BY <1>2, <1>4, <3>1
    <3> QED BY <2>1, <3>1, <3>2 DEF SeenBacked
  <2>7. KnownCovered(t)'
    <3> SUFFICES ASSUME NEW d \in Cells, NEW p \in Subgroups, p # t,
                        FreshBy(d, p)', IdIn(d)' \in knows'[t]
                 PROVE  Covered(t, p)'
      BY DEF KnownCovered
    <3>1. d # c
      BY <1>2, <1>4, <1>8
    <3>2. FreshBy(d, p) /\ IdIn(d) \in knows[t]
      BY <1>2, <1>4, <1>8, <3>1
    <3>3. Covered(t, p)
      BY <2>1, <3>2 DEF KnownCovered
    <3>4. \A a : Backed(a, p)' <=> Backed(a, p)
      BY <1>10
    <3>5. Covered(t, p)' <=> Covered(t, p)
      BY <1>1 DEF Covered, Awaited, Backed, Publishing
    <3> QED BY <3>3, <3>5
  <2> QED BY <2>2, <2>3, <2>4, <2>5, <2>6, <2>7 DEF Facts
<1> QED BY <1>7, <1>11, <1>12 DEF Handoff

\* After a barrier no cell has been accessed in the new epoch.
LEMMA BarrierHandoff ==
  ASSUME DTypeOK, Handoff, Barrier
  PROVE  Handoff'
<1>1. epoch \in Nat /\ epoch' = epoch + 1
  BY DetectorAssumption DEF Barrier, DTypeOK
<1>2. UNCHANGED <<shadow, pending, call, sync, fenced>> /\ knows' = [s \in Subgroups |-> Ids]
  BY DEF Barrier
<1>3. \A c \in Cells : shadow[c].kind # "empty" =>
                         shadow[c].epoch \in Nat /\ shadow[c].epoch <= epoch
  BY FreshEntry DEF Handoff, DatedShadow
<1>4. DatedShadow' /\ \A p : \A c \in Cells : ~FreshBy(c, p)'
  BY <1>1, <1>2, <1>3 DEF DatedShadow, FreshBy
<1>5. SyncBacked'
  BY <1>4 DEF SyncBacked
<1>6. ASSUME NEW s \in Subgroups PROVE Facts(s)'
  <2>1. KnowsOwn(s)' /\ Unfenced(s)' /\ Staged(s)'
    BY <1>2 DEF Handoff, Facts, KnowsOwn, Unfenced, Staged, IdsOf
  <2>2. FencesBacked(s)' /\ StoresBacked(s)' /\ SeenBacked(s)' /\ KnownCovered(s)'
    BY <1>4 DEF FencesBacked, StoresBacked, SeenBacked, KnownCovered
  <2> QED BY <2>1, <2>2 DEF Facts
<1> QED BY <1>4, <1>5, <1>6 DEF Handoff

\* What a release leaves in the records, and of the pending fence.
LEMMA PutReleaseLeaves ==
  ASSUME DTypeOK, NEW s \in Subgroups, NEW a \in Addresses, NEW rel \in BOOLEAN,
         PutRelease(s, a, rel)
  PROVE  /\ \A b \in Addresses, p \in Subgroups :
              record[b][p] > epoch => record'[b][p] > epoch
         /\ rel \/ pending[s] > epoch => record'[a][s] > epoch
         /\ pending'[s] = pending[s] \/ pending'[s] = 0
         /\ \A t \in Subgroups : t # s => pending'[t] = pending[t]
<1>1. epoch \in Nat
  BY DetectorAssumption DEF DTypeOK
<1>2. CASE rel
  <2>1. record' = Published(s, a, epoch + 1) /\ pending' = pending
    BY <1>2 DEF PutRelease
  <2> QED BY <1>1, <1>2, <2>1 DEF Published, Joined, DTypeOK
<1>3. CASE ~rel /\ pending[s] # 0
  <2>1. record' = Published(s, a, pending[s]) /\ pending' = [pending EXCEPT ![s] = 0]
    BY <1>3 DEF PutRelease
  <2>2. pending'[s] = 0 /\ \A t \in Subgroups : t # s => pending'[t] = pending[t]
    BY <2>1 DEF DTypeOK
  <2>3. pending[s] \in Nat
    BY DetectorAssumption DEF DTypeOK
  <2>4. \A b \in Addresses, p \in Subgroups :
          record'[b][p] = IF b = a /\ p = s THEN Joined(record[a][s], pending[s])
                                            ELSE record[b][p]
    BY <2>1 DEF Published, DTypeOK
  <2>5. record[a][s] \in Nat
    BY DetectorAssumption DEF DTypeOK
  <2>6. pending[s] > epoch => Joined(record[a][s], pending[s]) > epoch
    BY <1>1, <2>3, <2>5 DEF Joined
  <2>7. record[a][s] > epoch => Joined(record[a][s], pending[s]) > epoch
    BY <1>1, <2>3, <2>5 DEF Joined
  <2> QED BY <1>3, <2>2, <2>4, <2>6, <2>7
<1>4. CASE ~rel /\ pending[s] = 0
  <2>1. UNCHANGED <<record, pending>>
    BY <1>4 DEF PutRelease
  <2> QED BY <1>1, <1>4, <2>1
<1> QED BY <1>2, <1>3, <1>4

\* The fence that s has put out is paid by a record.
LEMMA FencesConsumed ==
  ASSUME DTypeOK, NEW s \in Subgroups, Facts(s), Quiet(s), RecordsCome(s),
         fenced'[s] = fenced[s], NEW a \in Addresses, NEW rel \in BOOLEAN, PutRelease(s, a, rel)
  PROVE  FencesBacked(s)' /\ Unfenced(s)'
<1>1. /\ rel \/ pending[s] > epoch => record'[a][s] > epoch
      /\ pending'[s] = pending[s] \/ pending'[s] = 0
  BY PutReleaseLeaves
<1>2. FencesBacked(s) /\ Unfenced(s)
  BY DEF Facts
<1>3. Unfenced(s)'
  BY <1>1, <1>2 DEF Unfenced
<1>4. FencesBacked(s)'
  <2> SUFFICES ASSUME NEW c \in Cells, NEW p \in Subgroups, FreshBy(c, p), IdIn(c) \in fenced[s],
                      ~Shared(c)'
               PROVE  p = s /\ (pending'[s] > epoch \/ FencePaid(s)')
    BY SharedStays DEF FencesBacked, Quiet
  <2>1. p = s /\ (pending[s] > epoch \/ FencePaid(s))
    BY <1>2, SharedStays DEF FencesBacked
  <2>2. CASE FencePaid(s)
    BY <1>1, <2>1, <2>2 DEF FencePaid, RecordsCome, Quiet
  <2>3. CASE pending[s] > epoch
    BY <1>1, <2>1, <2>3 DEF FencePaid, Quiet
  <2> QED BY <2>1, <2>2, <2>3
<1> QED BY <1>3, <1>4

\* Outside of an operation only a token or the excuse covers.
LEMMA IdleCovered ==
  ASSUME NEW s \in Subgroups, NEW p, Covered(s, p), call[s].stage \notin {"record", "acquire"}
  PROVE  token[s][p] > epoch \/ s \in gaveUp
BY DEF Covered, Awaited

LEMMA AtomicStoreHandoff ==
  ASSUME DTypeOK, Handoff, FencesSeeAll, NEW s \in Subgroups, NEW a \in Addresses, NEW o,
         AtomicStore(s, a, o)
  PROVE  Handoff'
<1> DEFINE rel == Releases(o)
<1>1. UNCHANGED <<epoch, shadow, token, observed, gaveUp, knows, sync, fenced, seen>>
  BY DEF AtomicStore
<1>2. rel \in BOOLEAN /\ PutRelease(s, a, rel)
  BY OrdersAreBoolean DEF AtomicStore
<1>3. /\ call'[s] = [stage |-> "store", addr |-> a, rel |-> rel]
      /\ \A t \in Subgroups : t # s => call'[t] = call[t]
      /\ call[s].stage = "idle"
  BY DEF AtomicStore, IsIdle, DTypeOK
<1> HIDE DEF rel
<1>4. /\ \A b \in Addresses, p \in Subgroups : record[b][p] > epoch => record'[b][p] > epoch
      /\ rel \/ pending[s] > epoch => record'[a][s] > epoch
      /\ \A t \in Subgroups : t # s => pending'[t] = pending[t]
  BY <1>2, PutReleaseLeaves
<1>5. Quiet(s) /\ RecordsCome(s)
  BY <1>1, <1>3, <1>4 DEF Quiet, RecordsCome
<1>6. Facts(s)
  BY DEF Handoff
<1>7. FencesBacked(s)' /\ Unfenced(s)'
  BY <1>1, <1>2, <1>5, <1>6, FencesConsumed
<1>8. /\ call'[s].stage = "store" /\ call'[s].addr = a /\ call'[s].rel = rel
  BY <1>3
<1>9. KnowsOwn(s)' /\ Staged(s)'
  BY <1>1, <1>6, <1>8 DEF Facts, KnowsOwn, Staged
<1>10. StoresBacked(s)'
  <2> SUFFICES ASSUME NEW c \in Cells, FreshBy(c, s), rel \/ IdIn(c) \in fenced[s], ~Shared(c)'
               PROVE  record'[a][s] > epoch
    BY <1>1, <1>5, <1>8, SharedStays DEF StoresBacked
  <2>1. CASE rel
    BY <1>4, <2>1
  <2>2. CASE IdIn(c) \in fenced[s]
    <3>1. FencesBacked(s) /\ Unfenced(s) /\ ~Shared(c) /\ WritesPaired(s, a, rel)
      BY <1>5, <1>6, SharedStays DEF Facts, AtomicStore, rel
    <3>2. rel \/ pending[s] > epoch \/ record[a][s] > epoch
      BY <1>2, <2>2, <3>1, FencedHere
    <3> QED BY <1>4, <3>2
  <2> QED BY <2>1, <2>2
<1>11. SeenBacked(s)'
  <2>1. LooksAt(s)' = LooksAt(s)
    BY <1>1, <1>3, <1>8 DEF LooksAt
  <2> QED BY <1>1, <1>5, <1>6, <2>1, SeenWaits DEF Facts
<1>12. KnownCovered(s)'
  <2> SUFFICES ASSUME NEW c \in Cells, NEW p \in Subgroups, p # s, FreshBy(c, p),
                      IdIn(c) \in knows[s]
               PROVE  Covered(s, p)'
    BY <1>1, <1>5, SharedStays DEF KnownCovered
  <2>1. Covered(s, p)
    BY <1>6 DEF Facts, KnownCovered
  <2>2. token[s][p] > epoch \/ s \in gaveUp
    BY <1>3, <2>1, IdleCovered
  <2> QED BY <1>1, <2>2 DEF Covered
<1>13. \A b \in Addresses, c \in Cells, p \in Subgroups :
         FreshBy(c, p) /\ IdIn(c) \in sync'[b] => Backed(b, p)' \/ Shared(c)'
  BY <1>1, <1>5, SyncStays
<1>14. Facts(s)'
  BY <1>7, <1>9, <1>10, <1>11, <1>12 DEF Facts
<1> QED BY <1>5, <1>13, <1>14, StepHandoff

\* What s hands on of this epoch is its own, or known to the only other
\* subgroup.
LEMMA CarriedIds ==
  ASSUME Direct, NEW s \in Subgroups, NEW K, NEW c \in Cells, NEW p \in Subgroups,
         FreshBy(c, p), IdIn(c) \in Carried(s, K), \A t \in Subgroups : KnowsOwn(t),
         IdIn(c) \in IdsOf(p)
  PROVE  p = s \/ (IdIn(c) \in K /\ IdIn(c) \in knows[p] /\ \A t \in Subgroups : t = s \/ t = p)
<1>1. CASE ~Transitive
  <2>1. IdIn(c) \in IdsOf(s)
    BY <1>1 DEF Carried
  <2> QED BY <2>1 DEF IdsOf
<1>2. CASE Transitive
  <2>1. IdIn(c) \in K /\ IdIn(c) \in knows[p]
    BY <1>2 DEF Carried, KnowsOwn
  <2>2. p # s => \A t \in Subgroups : t = s \/ t = p
    BY <1>2 DEF Direct, TwoSubgroups
  <2> QED BY <2>1, <2>2
<1> QED BY <1>1, <1>2

LEMMA StoreValueHandoff ==
  ASSUME DTypeOK, Handoff, Direct, NEW s \in Subgroups, StoreValue(s)
  PROVE  Handoff'
<1>1. PICK a \in Addresses : a = call[s].addr
  BY StageFields DEF StoreValue
<1>2. PICK rel \in BOOLEAN : rel = call[s].rel
  BY StageFields DEF StoreValue
<1>3. /\ UNCHANGED <<epoch, shadow, token, record, pending, observed, gaveUp, knows, fenced, seen>>
      /\ call[s].stage = "store"
  BY DEF StoreValue, meta
<1>4. call'[s].stage = "idle" /\ \A t \in Subgroups : t # s => call'[t] = call[t]
  BY DEF StoreValue, Idle, DTypeOK
<1>5. /\ sync'[a] = Handed(s, rel, knows[s])
      /\ \A b \in Addresses : b # a => sync'[b] = sync[b]
  BY <1>1, <1>2 DEF StoreValue, DTypeOK
<1>6. Quiet(s) /\ RecordsCome(s)
  BY <1>3, <1>4 DEF Quiet, RecordsCome
<1>7. Facts(s) /\ \A t \in Subgroups : KnowsOwn(t)
  BY DEF Handoff, Facts
<1>8. ASSUME NEW b \in Addresses, NEW c \in Cells, NEW p \in Subgroups, FreshBy(c, p),
             IdIn(c) \in sync'[b]
      PROVE  Backed(b, p)' \/ Shared(c)'
  <2>1. CASE b # a
    BY <1>5, <1>6, <1>8, <2>1, SyncStays
  <2>2. CASE b = a
    <3> SUFFICES ASSUME ~Shared(c) PROVE record[a][p] > epoch
      BY <1>3, <1>6, <2>2, SharedStays DEF Backed
    <3>1. IdIn(c) \in fenced[s] \/ (rel /\ IdIn(c) \in Carried(s, knows[s]))
      BY <1>5, <1>8, <2>2 DEF Handed
    <3>2. IdIn(c) \in IdsOf(p)
      BY <1>8, FreshEntry DEF FreshBy
    <3>3. p = s
      <4>1. CASE IdIn(c) \in fenced[s]
        BY <1>7, <1>8, <4>1 DEF Facts, FencesBacked
      <4>2. CASE IdIn(c) \in Carried(s, knows[s])
        BY <1>7, <1>8, <3>2, <4>2, CarriedIds DEF Shared
      <4> QED BY <3>1, <4>1, <4>2
    <3> QED BY <1>1, <1>2, <1>3, <1>7, <1>8, <3>1, <3>3 DEF Facts, StoresBacked
  <2> QED BY <2>1, <2>2
<1>9. KnowsOwn(s)' /\ Unfenced(s)' /\ Staged(s)' /\ StoresBacked(s)'
  BY <1>3, <1>4, <1>7 DEF Facts, KnowsOwn, Unfenced, Staged, StoresBacked
<1>10. FencesBacked(s)'
  BY <1>3, <1>6, <1>7, SharedStays DEF Facts, FencesBacked, FencePaid
<1>11. SeenBacked(s)'
  <2>1. LooksAt(s)' = LooksAt(s)
    BY <1>3, <1>4 DEF LooksAt
  <2> QED BY <1>3, <1>6, <1>7, <2>1, SeenWaits DEF Facts
<1>12. KnownCovered(s)'
  <2> SUFFICES ASSUME NEW c \in Cells, NEW p \in Subgroups, p # s, FreshBy(c, p),
                      IdIn(c) \in knows[s]
               PROVE  Covered(s, p)'
    BY <1>3, <1>6, SharedStays DEF KnownCovered
  <2>1. Covered(s, p)
    BY <1>7 DEF Facts, KnownCovered
  <2>2. token[s][p] > epoch \/ s \in gaveUp
    BY <1>3, <2>1, IdleCovered
  <2> QED BY <1>3, <2>2 DEF Covered
<1>13. Facts(s)'
  BY <1>9, <1>10, <1>11, <1>12 DEF Facts
<1> QED BY <1>6, <1>8, <1>13, StepHandoff

\* A search that begins awaits every other producer's record, and will repeat
\* its attempts unless records come first.
LEMMA SearchBegins ==
  ASSUME NEW s \in Subgroups, NEW a \in Addresses, NEW tries, RecordsFirst \/ tries # 1
  PROVE  LET c == Acquiring(s, a, tries) IN
         /\ c.stage = "acquire" /\ c.addr = a /\ ~c.found
         /\ c.todo = Subgroups \ {s} /\ s \notin c.todo
         /\ RecordsFirst \/ c.retries
BY DEF Acquiring

LEMMA SearchAwaits ==
  ASSUME DTypeOK, NEW s \in Subgroups, NEW a \in Addresses, NEW tries, RecordsFirst \/ tries # 1,
         call' = [call EXCEPT ![s] = Acquiring(s, a, tries)]
  PROVE  /\ call'[s].stage = "acquire" /\ call'[s].addr = a
         /\ \A t \in Subgroups : t # s => call'[t] = call[t]
         /\ Staged(s)'
         /\ \A p \in Subgroups : p # s /\ Backed(a, p)' => Covered(s, p)'
<1>1. /\ call'[s] = Acquiring(s, a, tries)
      /\ \A t \in Subgroups : t # s => call'[t] = call[t]
  BY DEF DTypeOK
<1>2. /\ call'[s].stage = "acquire" /\ call'[s].addr = a /\ ~call'[s].found
      /\ call'[s].todo = Subgroups \ {s} /\ s \notin call'[s].todo
      /\ RecordsFirst \/ call'[s].retries
  BY <1>1, SearchBegins
<1>3. Staged(s)'
  BY <1>2 DEF Staged
<1>4. ASSUME NEW p \in Subgroups, p # s, Backed(a, p)' PROVE Covered(s, p)'
  <2>1. Awaited(s, p)'
    BY <1>2, <1>4 DEF Awaited
  <2>2. Backed(call[s].addr, p)'
    BY <1>2, <1>4 DEF Backed, Publishing
  <2> QED BY <2>1, <2>2 DEF Covered
<1> QED BY <1>1, <1>2, <1>3, <1>4

\* What a read of a brings is backed there.
LEMMA LearnIds ==
  ASSUME DTypeOK, NEW s \in Subgroups, NEW a \in Addresses, NEW acq \in BOOLEAN,
         Learn(s, sync[a], acq)
  PROVE  /\ knows'[s] = IF acq THEN knows[s] \cup sync[a] ELSE knows[s]
         /\ seen'[s] = IF acq THEN seen[s] ELSE seen[s] \cup sync[a]
         /\ \A t \in Subgroups : t # s => knows'[t] = knows[t] /\ seen'[t] = seen[t]
BY DEF Learn, DTypeOK

\* What s knows after it read a: covered before, or backed at a.
LEMMA LearntIsCovered ==
  ASSUME Handoff, NEW s \in Subgroups, NEW a \in Addresses, NEW c \in Cells, NEW p \in Subgroups,
         p # s, FreshBy(c, p), IdIn(c) \in knows[s] \cup sync[a],
         call[s].stage \notin {"record", "acquire"}
  PROVE  token[s][p] > epoch \/ s \in gaveUp \/ (IdIn(c) \in sync[a] /\ Backed(a, p))
<1>1. CASE IdIn(c) \in knows[s]
  <2>1. Covered(s, p)
    BY <1>1 DEF Handoff, Facts, KnownCovered
  <2> QED BY <2>1, IdleCovered
<1>2. CASE IdIn(c) \notin knows[s]
  BY <1>2 DEF Handoff, SyncBacked, Shared
<1> QED BY <1>1, <1>2

LEMMA ReadValueHandoff ==
  ASSUME DTypeOK, Handoff, FencesSeeAll, NEW s \in Subgroups, NEW a \in Addresses,
         NEW acq \in BOOLEAN, NEW tries, acq => RecordsFirst \/ tries # 1,
         ReadValue(s, a, acq, tries)
  PROVE  Handoff'
<1>1. UNCHANGED <<epoch, shadow, token, record, pending, gaveUp, sync, fenced>>
  BY DEF ReadValue
<1>2. /\ Learn(s, sync[a], acq) /\ ThenAcquire(s, a, acq, tries)
      /\ call[s].stage = "idle"
  BY DEF ReadValue, IsIdle
<1>3. /\ knows'[s] = IF acq THEN knows[s] \cup sync[a] ELSE knows[s]
      /\ seen'[s] = IF acq THEN seen[s] ELSE seen[s] \cup sync[a]
      /\ \A t \in Subgroups : t # s => knows'[t] = knows[t] /\ seen'[t] = seen[t]
  BY <1>2, LearnIds
<1>4. /\ \A t \in Subgroups : t # s => call'[t] = call[t] /\ observed'[t] = observed[t]
      /\ Staged(s)' /\ call'[s].stage \notin {"store", "record"}
      /\ acq => call'[s].stage = "acquire"
                /\ \A p \in Subgroups : p # s /\ Backed(a, p)' => Covered(s, p)'
      /\ LooksAt(s)' = a
  <2>1. CASE acq
    <3>1. call' = [call EXCEPT ![s] = Acquiring(s, a, tries)] /\ observed' = observed
      BY <1>2, <2>1 DEF ThenAcquire
    <3>2. LooksAt(s)' = a
      BY <2>1, <3>1, SearchAwaits DEF LooksAt
    <3> QED BY <2>1, <3>1, <3>2, SearchAwaits
  <2>2. CASE ~acq
    <3>1. call' = [call EXCEPT ![s] = Idle] /\ observed' = [observed EXCEPT ![s] = a]
      BY <1>2, <2>2 DEF ThenAcquire, Return
    <3>2. /\ call'[s].stage = "idle" /\ observed'[s] = a
          /\ \A t \in Subgroups : t # s => call'[t] = call[t] /\ observed'[t] = observed[t]
      BY <3>1 DEF DTypeOK, Idle
    <3> QED BY <2>2, <3>2 DEF Staged, LooksAt
  <2> QED BY <2>1, <2>2
<1>5. \A t \in Subgroups : t # s => token'[t] = token[t] /\ pending'[t] = pending[t]
                                    /\ fenced'[t] = fenced[t]
  BY <1>1
<1>6. Quiet(s) /\ RecordsCome(s)
  <2>1. knows[s] \subseteq knows'[s]
    BY <1>3
  <2> QED BY <1>1, <1>2, <1>3, <1>4, <1>5, <2>1 DEF Quiet, RecordsCome
<1>7. Facts(s)
  BY DEF Handoff
<1>8. KnowsOwn(s)' /\ Unfenced(s)' /\ FencesBacked(s)' /\ StoresBacked(s)'
  <2>1. KnowsOwn(s)' /\ Unfenced(s)' /\ StoresBacked(s)'
    BY <1>1, <1>3, <1>4, <1>7 DEF Facts, KnowsOwn, Unfenced, StoresBacked
  <2>2. FencesBacked(s)'
    BY <1>1, <1>6, <1>7, SharedStays DEF Facts, FencesBacked, FencePaid
  <2> QED BY <2>1, <2>2
<1>9. SeenBacked(s)'
  <2> SUFFICES ASSUME FenceOrders # {}, NEW c \in Cells, NEW p \in Subgroups, p # s,
                      FreshBy(c, p), IdIn(c) \in seen'[s], IdIn(c) \notin knows'[s]
               PROVE  Backed(a, p)
    <3>1. a # None /\ \A p \in Subgroups : Backed(a, p) => Backed(LooksAt(s), p)'
      BY <1>4, <1>6, BackedStays, DetectorAssumption DEF Backed, Publishing
    <3> QED BY <1>4, <1>6, <3>1, SharedStays DEF SeenBacked
  <2>1. IdIn(c) \notin knows[s]
    BY <1>3
  <2>2. CASE IdIn(c) \in seen[s]
    BY <1>2, <1>7, <2>1, <2>2, SeenHere DEF Facts, ReadValue
  <2>3. CASE IdIn(c) \in sync[a]
    BY <2>1, <2>3 DEF Handoff, SyncBacked, Shared
  <2> QED BY <1>3, <2>2, <2>3
<1>10. KnownCovered(s)'
  <2> SUFFICES ASSUME NEW c \in Cells, NEW p \in Subgroups, p # s, FreshBy(c, p),
                      IdIn(c) \in knows'[s]
               PROVE  Covered(s, p)'
    BY <1>6, SharedStays DEF KnownCovered
  <2>1. CASE acq
    <3>1. token[s][p] > epoch \/ s \in gaveUp \/ Backed(a, p)
      BY <1>2, <1>3, <2>1, LearntIsCovered
    <3>2. CASE Backed(a, p)
      BY <1>4, <1>6, <2>1, <3>2, BackedStays
    <3>3. CASE token[s][p] > epoch \/ s \in gaveUp
      BY <1>1, <3>3 DEF Covered
    <3> QED BY <3>1, <3>2, <3>3
  <2>2. CASE ~acq
    <3>1. Covered(s, p)
      BY <1>3, <1>7, <2>2 DEF Facts, KnownCovered
    <3>2. token[s][p] > epoch \/ s \in gaveUp
      BY <1>2, <3>1, IdleCovered
    <3> QED BY <1>1, <3>2 DEF Covered
  <2> QED BY <2>1, <2>2
<1>11. \A b \in Addresses, c \in Cells, p \in Subgroups :
         FreshBy(c, p) /\ IdIn(c) \in sync'[b] => Backed(b, p)' \/ Shared(c)'
  BY <1>1, <1>6, SyncStays
<1>12. Facts(s)'
  BY <1>4, <1>8, <1>9, <1>10 DEF Facts
<1> QED BY <1>6, <1>11, <1>12, StepHandoff

LEMMA AtomicRmwHandoff ==
  ASSUME DTypeOK, Handoff, Direct, FencesSeeAll, NEW s \in Subgroups, NEW a \in Addresses,
         NEW o, RecordsFirst => NoReleaseFences /\ ~Releases(o), AtomicRmw(s, a, o)
  PROVE  Handoff'
<1>1. PICK rel \in BOOLEAN, acq \in BOOLEAN : rel = Releases(o) /\ acq = Acquires(o)
  BY OrdersAreBoolean
<1>2. UNCHANGED <<epoch, shadow, token, record, pending, observed, gaveUp, fenced>>
  BY DEF AtomicRmw, meta
<1>3. /\ Learn(s, sync[a], acq) /\ call[s].stage = "idle"
      /\ sync' = [sync EXCEPT ![a] = @ \cup Handed(s, rel, knows'[s])]
      /\ call' = [call EXCEPT ![s] = [stage |-> "record", addr |-> a, rel |-> rel, acq |-> acq]]
  BY <1>1 DEF AtomicRmw, IsIdle
<1>4. /\ knows'[s] = IF acq THEN knows[s] \cup sync[a] ELSE knows[s]
      /\ seen'[s] = IF acq THEN seen[s] ELSE seen[s] \cup sync[a]
      /\ \A t \in Subgroups : t # s => knows'[t] = knows[t] /\ seen'[t] = seen[t]
  BY <1>3, LearnIds
<1>5. /\ call'[s] = [stage |-> "record", addr |-> a, rel |-> rel, acq |-> acq]
      /\ \A t \in Subgroups : t # s => call'[t] = call[t]
  BY <1>3 DEF DTypeOK
<1>6. /\ call'[s].stage = "record" /\ call'[s].addr = a
      /\ call'[s].rel = rel /\ call'[s].acq = acq
  BY <1>5
<1>7. /\ sync'[a] = sync[a] \cup Handed(s, rel, knows'[s])
      /\ \A b \in Addresses : b # a => sync'[b] = sync[b]
  BY <1>3 DEF DTypeOK
<1>8. Quiet(s) /\ RecordsCome(s)
  <2>1. knows[s] \subseteq knows'[s]
    BY <1>4
  <2> QED BY <1>2, <1>3, <1>4, <1>5, <2>1 DEF Quiet, RecordsCome
<1>9. Facts(s) /\ \A t \in Subgroups : KnowsOwn(t)
  BY DEF Handoff, Facts
<1>10. RecordsFirst => ~rel /\ fenced[s] = {} /\ NoReleaseFences
  BY <1>1, <1>9 DEF Facts, Unfenced
<1>11. ~RecordsFirst /\ (rel \/ pending[s] > epoch) => Backed(a, s)'
  BY <1>2, <1>6 DEF Backed, Publishing
<1>12. ASSUME NEW b \in Addresses, NEW c \in Cells, NEW p \in Subgroups, FreshBy(c, p),
              IdIn(c) \in sync'[b], ~Shared(c)'
       PROVE  Backed(b, p)'
  <2>1. CASE IdIn(c) \in sync[b]
    BY <1>8, <1>12, <2>1, SyncStays
  <2>2. CASE IdIn(c) \notin sync[b]
    <3>1. b = a /\ IdIn(c) \in Handed(s, rel, knows'[s])
      BY <1>7, <1>12, <2>2
    <3>2. IdIn(c) \in IdsOf(p)
      BY <1>12, FreshEntry DEF FreshBy
    <3>3. CASE IdIn(c) \in fenced[s]
      <4>1. FencesBacked(s) /\ Unfenced(s) /\ ~Shared(c) /\ WritesPaired(s, a, rel)
        BY <1>1, <1>8, <1>9, <1>12, SharedStays DEF Facts, AtomicRmw
      <4>2. p = s /\ (rel \/ pending[s] > epoch \/ record[a][s] > epoch)
        BY <1>12, <3>3, <4>1, FencedHere
      <4>3. ~RecordsFirst
        BY <1>10, <3>3
      <4>4. CASE rel \/ pending[s] > epoch
        BY <1>11, <3>1, <4>2, <4>3, <4>4
      <4>5. CASE record[a][s] > epoch
        BY <1>2, <3>1, <4>2, <4>5 DEF Backed
      <4> QED BY <4>2, <4>4, <4>5
    <3>4. CASE IdIn(c) \notin fenced[s]
      <4>1. rel /\ IdIn(c) \in Carried(s, knows'[s])
        BY <3>1, <3>4 DEF Handed
      <4>2. p = s
        <5>1. p = s \/ (IdIn(c) \in knows'[s] /\ IdIn(c) \in knows[p]
                        /\ \A t \in Subgroups : t = s \/ t = p)
          BY <1>9, <1>12, <3>2, <4>1, CarriedIds
        <5>2. p # s => (IdIn(c) \in knows[p] => IdIn(c) \in knows'[p])
          BY <1>4
        <5>3. IdIn(c)' = IdIn(c)
          BY <1>8, SharedStays
        <5> QED BY <1>12, <5>1, <5>2, <5>3 DEF Shared
      <4>3. ~RecordsFirst
        BY <1>10, <4>1
      <4> QED BY <1>11, <3>1, <4>1, <4>2, <4>3
    <3> QED BY <3>3, <3>4
  <2> QED BY <2>1, <2>2
<1>13. KnowsOwn(s)' /\ Unfenced(s)' /\ StoresBacked(s)' /\ Staged(s)'
  BY <1>2, <1>4, <1>6, <1>9, <1>10 DEF Facts, KnowsOwn, Unfenced, StoresBacked, Staged
<1>14. FencesBacked(s)'
  BY <1>2, <1>8, <1>9, SharedStays DEF Facts, FencesBacked, FencePaid
<1>15. SeenBacked(s)'
  <2> SUFFICES ASSUME FenceOrders # {}, NEW c \in Cells, NEW p \in Subgroups, p # s,
                      FreshBy(c, p), IdIn(c) \in seen'[s], IdIn(c) \notin knows'[s]
               PROVE  Backed(a, p)
    <3>1. LooksAt(s)' = a /\ a # None
      BY <1>6, DetectorAssumption DEF LooksAt
    <3>2. \A p \in Subgroups : Backed(a, p) => Backed(LooksAt(s), p)'
      BY <1>8, <3>1, BackedStays DEF Backed, Publishing
    <3> QED BY <1>8, <3>1, <3>2, SharedStays DEF SeenBacked
  <2>1. IdIn(c) \notin knows[s]
    BY <1>4
  <2>2. CASE IdIn(c) \in seen[s]
    BY <1>3, <1>9, <2>1, <2>2, SeenHere DEF Facts, AtomicRmw
  <2>3. CASE IdIn(c) \in sync[a]
    BY <2>1, <2>3 DEF Handoff, SyncBacked, Shared
  <2> QED BY <1>4, <2>2, <2>3
<1>16. KnownCovered(s)'
  <2> SUFFICES ASSUME NEW c \in Cells, NEW p \in Subgroups, p # s, FreshBy(c, p),
                      IdIn(c) \in knows'[s]
               PROVE  Covered(s, p)'
    BY <1>8, SharedStays DEF KnownCovered
  <2>1. \/ token[s][p] > epoch \/ s \in gaveUp
        \/ acq /\ Backed(a, p)
    <3>1. CASE acq
      BY <1>3, <1>4, <3>1, LearntIsCovered
    <3>2. CASE ~acq
      <4>1. Covered(s, p)
        BY <1>4, <1>9, <3>2 DEF Facts, KnownCovered
      <4> QED BY <1>3, <4>1, IdleCovered
    <3> QED BY <3>1, <3>2
  <2>2. CASE token[s][p] > epoch \/ s \in gaveUp
    BY <1>2, <2>2 DEF Covered
  <2>3. CASE acq /\ Backed(a, p)
    <3>1. Backed(a, p)'
      BY <1>8, <2>3, BackedStays
    <3>2. Awaited(s, p)'
      BY <1>6, <2>3 DEF Awaited
    <3> QED BY <1>6, <3>1, <3>2 DEF Covered
  <2> QED BY <2>1, <2>2, <2>3
<1>17. Facts(s)'
  BY <1>13, <1>14, <1>15, <1>16 DEF Facts
<1> QED BY <1>8, <1>12, <1>17, StepHandoff

LEMMA RecordRmwHandoff ==
  ASSUME DTypeOK, Handoff, RecordsFirst \/ Attempts # 1, NEW s \in Subgroups,
         RecordRmw(s)
  PROVE  Handoff'
<1>1. call[s].stage = "record"
  BY DEF RecordRmw
<1>2. PICK a \in Addresses, rel \in BOOLEAN, acq \in BOOLEAN :
        a = call[s].addr /\ rel = call[s].rel /\ acq = call[s].acq
  BY <1>1, StageFields
<1>3. UNCHANGED <<epoch, shadow, token, gaveUp, knows, sync, fenced, seen>>
  BY DEF RecordRmw
<1>4. PutRelease(s, a, rel) /\ ThenAcquire(s, a, acq, Attempts)
  BY <1>2 DEF RecordRmw
<1>5. /\ \A b \in Addresses, p \in Subgroups : record[b][p] > epoch => record'[b][p] > epoch
      /\ rel \/ pending[s] > epoch => record'[a][s] > epoch
      /\ \A t \in Subgroups : t # s => pending'[t] = pending[t]
  BY <1>4, PutReleaseLeaves
<1>6. /\ \A t \in Subgroups : t # s => call'[t] = call[t] /\ observed'[t] = observed[t]
      /\ Staged(s)' /\ call'[s].stage \notin {"store", "record"}
      /\ acq => call'[s].stage = "acquire"
                /\ \A p \in Subgroups : p # s /\ Backed(a, p)' => Covered(s, p)'
      /\ LooksAt(s)' = a
  <2>1. CASE acq
    <3>1. call' = [call EXCEPT ![s] = Acquiring(s, a, Attempts)] /\ observed' = observed
      BY <1>4, <2>1 DEF ThenAcquire
    <3>2. LooksAt(s)' = a
      BY <2>1, <3>1, SearchAwaits DEF LooksAt
    <3> QED BY <2>1, <3>1, <3>2, SearchAwaits
  <2>2. CASE ~acq
    <3>1. call' = [call EXCEPT ![s] = Idle] /\ observed' = [observed EXCEPT ![s] = a]
      BY <1>4, <2>2 DEF ThenAcquire, Return
    <3>2. /\ call'[s].stage = "idle" /\ observed'[s] = a
          /\ \A t \in Subgroups : t # s => call'[t] = call[t] /\ observed'[t] = observed[t]
      BY <3>1 DEF DTypeOK, Idle
    <3> QED BY <2>2, <3>2 DEF Staged, LooksAt
  <2> QED BY <2>1, <2>2
<1>7. Quiet(s) /\ RecordsCome(s)
  BY <1>2, <1>3, <1>5, <1>6 DEF Quiet, RecordsCome
<1>8. Facts(s)
  BY DEF Handoff
<1>9. FencesBacked(s)' /\ Unfenced(s)'
  BY <1>3, <1>4, <1>7, <1>8, FencesConsumed
<1>10. KnowsOwn(s)' /\ StoresBacked(s)'
  BY <1>3, <1>6, <1>8 DEF Facts, KnowsOwn, StoresBacked
<1>11. SeenBacked(s)'
  <2>1. LooksAt(s)' = LooksAt(s)
    BY <1>1, <1>2, <1>6 DEF LooksAt
  <2> QED BY <1>3, <1>7, <1>8, <2>1, SeenWaits DEF Facts
<1>12. KnownCovered(s)'
  <2> SUFFICES ASSUME NEW c \in Cells, NEW p \in Subgroups, p # s, FreshBy(c, p),
                      IdIn(c) \in knows[s]
               PROVE  Covered(s, p)'
    BY <1>3, <1>7, SharedStays DEF KnownCovered
  <2>1. Covered(s, p)
    BY <1>8 DEF Facts, KnownCovered
  <2>2. CASE token[s][p] > epoch \/ s \in gaveUp
    BY <1>3, <2>2 DEF Covered
  <2>3. CASE Awaited(s, p) /\ Backed(call[s].addr, p)
    <3>1. acq
      BY <1>1, <1>2, <2>3 DEF Awaited
    <3>2. Backed(a, p)
      BY <1>2, <2>3
    <3> QED BY <1>6, <1>7, <3>1, <3>2, BackedStays
  <2> QED BY <2>1, <2>2, <2>3 DEF Covered
<1>13. \A b \in Addresses, c \in Cells, p \in Subgroups :
         FreshBy(c, p) /\ IdIn(c) \in sync'[b] => Backed(b, p)' \/ Shared(c)'
  BY <1>3, <1>7, SyncStays
<1>14. Facts(s)'
  BY <1>6, <1>9, <1>10, <1>11, <1>12 DEF Facts
<1> QED BY <1>7, <1>13, <1>14, StepHandoff

LEMMA AtomicFenceHandoff ==
  ASSUME DTypeOK, Handoff, Direct, RecordsFirst \/ Attempts # 1, NEW s \in Subgroups,
         NEW o \in FenceOrders, AtomicFence(s, o)
  PROVE  Handoff'
<1>1. /\ UNCHANGED <<epoch, shadow, token, record, observed, gaveUp, sync, seen>>
      /\ call[s].stage = "idle"
  BY DEF AtomicFence, IsIdle
<1>2. PICK rel \in BOOLEAN, acq \in BOOLEAN : rel = Releases(o) /\ acq = Acquires(o)
  BY OrdersAreBoolean
<1>3. /\ knows'[s] = IF acq THEN knows[s] \cup seen[s] ELSE knows[s]
      /\ fenced'[s] = IF rel THEN Carried(s, knows'[s]) ELSE fenced[s]
      /\ pending'[s] = IF rel THEN epoch + 1 ELSE pending[s]
      /\ \A t \in Subgroups : t # s => /\ knows'[t] = knows[t] /\ fenced'[t] = fenced[t]
                                       /\ pending'[t] = pending[t]
  BY <1>2 DEF AtomicFence, DTypeOK
<1>4. epoch \in Nat
  BY DetectorAssumption DEF DTypeOK
<1>5. /\ \A t \in Subgroups : t # s => call'[t] = call[t]
      /\ Staged(s)' /\ call'[s].stage \notin {"store", "record"}
      /\ LooksAt(s)' = LooksAt(s)
      /\ acq => \A a \in Addresses : observed[s] = a =>
           \A p \in Subgroups : p # s /\ Backed(a, p)' => Covered(s, p)'
  <2>1. CASE acq /\ observed[s] # None
    <3>1. PICK a \in Addresses : a = observed[s]
      BY <2>1 DEF DTypeOK
    <3>2. call' = [call EXCEPT ![s] = Acquiring(s, a, Attempts)]
      BY <1>2, <2>1, <3>1 DEF AtomicFence
    <3>3. /\ call'[s].stage = "acquire" /\ call'[s].addr = a /\ Staged(s)'
          /\ \A t \in Subgroups : t # s => call'[t] = call[t]
          /\ \A p \in Subgroups : p # s /\ Backed(a, p)' => Covered(s, p)'
      BY <3>2, SearchAwaits
    <3>4. LooksAt(s)' = LooksAt(s)
      BY <1>1, <3>1, <3>3 DEF LooksAt
    <3> QED BY <3>1, <3>3, <3>4
  <2>2. CASE ~(acq /\ observed[s] # None)
    <3>1. call' = call
      BY <1>2, <2>2 DEF AtomicFence
    <3>2. \A a \in Addresses : observed[s] = a => ~acq
      BY <2>2, DetectorAssumption
    <3> QED BY <1>1, <3>1, <3>2 DEF Staged, LooksAt
  <2> QED BY <2>1, <2>2
<1>6. Quiet(s) /\ RecordsCome(s)
  <2>1. knows[s] \subseteq knows'[s]
    BY <1>3
  <2> QED BY <1>1, <1>3, <1>5, <2>1 DEF Quiet, RecordsCome
<1>7. Facts(s) /\ \A t \in Subgroups : KnowsOwn(t)
  BY DEF Handoff, Facts
<1>8. NoReleaseFences => ~rel
  BY <1>2 DEF NoReleaseFences
<1>9. KnowsOwn(s)' /\ Unfenced(s)' /\ StoresBacked(s)'
  BY <1>3, <1>5, <1>7, <1>8 DEF Facts, KnowsOwn, Unfenced, StoresBacked
<1>10. FencesBacked(s)'
  <2> SUFFICES ASSUME NEW c \in Cells, NEW p \in Subgroups, FreshBy(c, p), IdIn(c) \in fenced'[s],
                      ~Shared(c)'
               PROVE  p = s /\ (pending'[s] > epoch \/ FencePaid(s)')
    BY <1>1, <1>6, SharedStays DEF FencesBacked
  <2>1. CASE rel
    <3>1. IdIn(c) \in Carried(s, knows'[s]) /\ pending'[s] > epoch
      BY <1>3, <1>4, <2>1
    <3>2. IdIn(c) \in IdsOf(p)
      BY FreshEntry DEF FreshBy
    <3>3. p = s \/ (IdIn(c) \in knows'[s] /\ IdIn(c) \in knows[p]
                    /\ \A t \in Subgroups : t = s \/ t = p)
      BY <1>7, <3>1, <3>2, CarriedIds
    <3>4. IdIn(c)' = IdIn(c)
      BY <1>6, SharedStays
    <3>5. p = s
      BY <1>3, <3>3, <3>4 DEF Shared
    <3> QED BY <3>1, <3>5
  <2>2. CASE ~rel
    <3>1. IdIn(c) \in fenced[s] /\ pending'[s] = pending[s]
      BY <1>3, <2>2
    <3> QED BY <1>1, <1>6, <1>7, <3>1, SharedStays DEF Facts, FencesBacked, FencePaid
  <2> QED BY <2>1, <2>2
<1>11. SeenBacked(s)'
  BY <1>1, <1>5, <1>6, <1>7, SeenWaits DEF Facts
<1>12. KnownCovered(s)'
  <2> SUFFICES ASSUME NEW c \in Cells, NEW p \in Subgroups, p # s, FreshBy(c, p),
                      IdIn(c) \in knows'[s]
               PROVE  Covered(s, p)'
    BY <1>6, SharedStays DEF KnownCovered
  <2>1. CASE IdIn(c) \in knows[s]
    <3>1. Covered(s, p)
      BY <1>7, <2>1 DEF Facts, KnownCovered
    <3>2. token[s][p] > epoch \/ s \in gaveUp
      BY <1>1, <3>1, IdleCovered
    <3> QED BY <1>1, <3>2 DEF Covered
  <2>2. CASE IdIn(c) \notin knows[s]
    <3>1. acq /\ IdIn(c) \in seen[s]
      BY <1>3, <2>2
    <3>2. observed[s] # None /\ Backed(observed[s], p)
      BY <1>1, <1>7, <2>2, <3>1 DEF Facts, SeenBacked, LooksAt
    <3>3. PICK a \in Addresses : observed[s] = a
      BY <3>2 DEF DTypeOK
    <3>4. Backed(a, p)
      BY <3>2, <3>3
    <3>5. Backed(a, p)'
      BY <1>6, <3>4, BackedStays
    <3> QED BY <1>5, <3>1, <3>3, <3>5
  <2> QED BY <2>1, <2>2
<1>13. \A b \in Addresses, c \in Cells, p \in Subgroups :
         FreshBy(c, p) /\ IdIn(c) \in sync'[b] => Backed(b, p)' \/ Shared(c)'
  BY <1>1, <1>6, SyncStays
<1>14. Facts(s)'
  BY <1>5, <1>9, <1>10, <1>11, <1>12 DEF Facts
<1> QED BY <1>6, <1>13, <1>14, StepHandoff

\* With two subgroups there is one producer to search for, and in the first
\* epoch every record is of the present one.
LEMMA PairSearch ==
  ASSUME DTypeOK, Pairs, NEW s \in Subgroups
  PROVE  /\ \A p, q \in Subgroups : p # s /\ q # s => p = q
         /\ \A a \in Addresses, p \in Subgroups : HasRecord(a, p) => record[a][p] > epoch
<1>1. epoch = 0
  BY DEF DTypeOK, Pairs
<1>2. \A a \in Addresses, p \in Subgroups : record[a][p] \in Nat
  BY DetectorAssumption DEF DTypeOK
<1> QED BY <1>1, <1>2 DEF Pairs, TwoSubgroups, HasRecord

LEMMA ImportFromHandoff ==
  ASSUME DTypeOK, Handoff, RecordsFirst \/ Pairs, NEW s \in Subgroups, NEW p \in Subgroups,
         ImportFrom(s, p)
  PROVE  Handoff'
<1>1. /\ call[s].stage = "acquire" /\ p \in call[s].todo
      /\ UNCHANGED <<epoch, shadow, record, pending, observed, gaveUp, knows, sync, fenced, seen>>
  BY DEF ImportFrom
<1>2. PICK a \in Addresses : a = call[s].addr
  BY <1>1, StageFields
<1>3. call[s] \in [stage : {"acquire"}, addr : Addresses, left : 1 .. Attempts,
                   todo : SUBSET Subgroups, found : BOOLEAN, late : BOOLEAN, retries : BOOLEAN]
  BY <1>1, StageFields
<1>4. /\ call'[s].stage = "acquire" /\ call'[s].addr = a
      /\ call'[s].todo = call[s].todo \ {p}
      /\ call'[s].found = (call[s].found \/ HasRecord(a, p))
      /\ call'[s].late = (call[s].late \/ Publishing(p, a))
      /\ call'[s].retries = call[s].retries
      /\ \A t \in Subgroups : t # s => call'[t] = call[t]
  BY <1>2, <1>3 DEF ImportFrom, DTypeOK
<1>5. token' = IF HasRecord(a, p) THEN ImportedToken(s, a, p) ELSE token
  BY <1>2 DEF ImportFrom
<1>6. \A x, q \in Subgroups : token[x][q] \in Nat /\ record[a][q] \in Nat
  BY <1>2, DetectorAssumption DEF DTypeOK
<1>7. /\ \A t \in Subgroups : t # s => token'[t] = token[t]
      /\ \A q \in Subgroups : token[s][q] > epoch => token'[s][q] > epoch
      /\ record[a][p] > epoch => token'[s][p] > epoch
  BY <1>1, <1>5, <1>6, DetectorAssumption DEF ImportedToken, HasRecord, DTypeOK
<1>8. Quiet(s) /\ RecordsCome(s)
  BY <1>1, <1>4, <1>7 DEF Quiet, RecordsCome
<1>9. Facts(s)
  BY DEF Handoff
<1>10. KnowsOwn(s)' /\ Unfenced(s)' /\ Staged(s)' /\ StoresBacked(s)'
  BY <1>1, <1>4, <1>9 DEF Facts, KnowsOwn, Unfenced, Staged, StoresBacked
<1>11. FencesBacked(s)'
  BY <1>1, <1>8, <1>9, SharedStays DEF Facts, FencesBacked, FencePaid
<1>12. SeenBacked(s)'
  <2>1. LooksAt(s)' = LooksAt(s)
    BY <1>1, <1>2, <1>4 DEF LooksAt
  <2> QED BY <1>1, <1>8, <1>9, <2>1, SeenWaits DEF Facts
<1>13. KnownCovered(s)'
  <2> SUFFICES ASSUME NEW c \in Cells, NEW q \in Subgroups, q # s, FreshBy(c, q),
                      IdIn(c) \in knows[s]
               PROVE  Covered(s, q)'
    BY <1>1, <1>8, SharedStays DEF KnownCovered
  <2>1. Covered(s, q)
    BY <1>9 DEF Facts, KnownCovered
  <2>2. CASE token[s][q] > epoch \/ s \in gaveUp
    BY <1>1, <1>7, <2>2 DEF Covered
  <2>3. CASE Awaited(s, q) /\ Backed(a, q)
    <3>1. Backed(a, q)'
      BY <1>8, <2>3, BackedStays
    <3>2. CASE q # p /\ RecordsFirst
      <4>1. Awaited(s, q)'
        BY <1>1, <1>4, <2>3, <3>2 DEF Awaited
      <4> QED BY <1>4, <3>1, <4>1 DEF Covered
    <3>3. CASE ~RecordsFirst
      <4>1. p # s
        BY <1>1, <1>9 DEF Facts, Staged
      <4>2. Pairs /\ q = p
        BY <3>3, <4>1, PairSearch
      <4>3. CASE HasRecord(a, p)
        BY <1>1, <1>7, <4>2, <4>3, PairSearch DEF Covered
      <4>4. CASE ~HasRecord(a, p)
        <5>1. ~(record[a][p] > epoch)
          <6>1. record[a][p] = 0 /\ epoch \in Nat
            BY <4>4, DetectorAssumption DEF HasRecord, DTypeOK
          <6> QED BY <6>1
        <5>2. Publishing(p, a)
          BY <2>3, <4>2, <5>1 DEF Backed
        <5>3. ~call[s].found
          BY <1>1, <2>3, <3>3 DEF Awaited
        <5>4. call'[s].late /\ ~call'[s].found
          BY <1>4, <4>4, <5>2, <5>3
        <5>5. Awaited(s, q)'
          BY <1>4, <3>3, <5>4 DEF Awaited
        <5> QED BY <1>4, <3>1, <5>5 DEF Covered
      <4> QED BY <4>3, <4>4
    <3>4. CASE q = p /\ RecordsFirst
      <4>1. record[a][p] > epoch
        BY <2>3, <3>4 DEF Backed
      <4> QED BY <1>1, <1>7, <3>4, <4>1 DEF Covered
    <3> QED BY <3>2, <3>3, <3>4
  <2> QED BY <1>2, <2>1, <2>2, <2>3 DEF Covered
<1>14. \A b \in Addresses, c \in Cells, q \in Subgroups :
         FreshBy(c, q) /\ IdIn(c) \in sync'[b] => Backed(b, q)' \/ Shared(c)'
  BY <1>1, <1>8, SyncStays
<1>15. Facts(s)'
  BY <1>10, <1>11, <1>12, <1>13 DEF Facts
<1> QED BY <1>8, <1>14, <1>15, StepHandoff

LEMMA EndAttemptHandoff ==
  ASSUME DTypeOK, Handoff, NEW s \in Subgroups, EndAttempt(s)
  PROVE  Handoff'
<1>1. /\ call[s].stage = "acquire" /\ call[s].todo = {}
      /\ UNCHANGED <<epoch, shadow, token, record, pending, knows, sync, fenced, seen>>
  BY DEF EndAttempt, truth
<1>2. PICK a \in Addresses : a = call[s].addr
  BY <1>1, StageFields
<1>3. call[s] \in [stage : {"acquire"}, addr : Addresses, left : 1 .. Attempts,
                   todo : SUBSET Subgroups, found : BOOLEAN, late : BOOLEAN, retries : BOOLEAN]
  BY <1>1, StageFields
<1>4. \/ /\ call'[s].stage = "idle" /\ observed'[s] = a
         /\ call[s].found \/ call[s].left = 1
         /\ gaveUp' = IF call[s].retries /\ call[s].late /\ ~call[s].found
                      THEN gaveUp \cup {s} ELSE gaveUp
      \/ /\ call'[s].stage = "acquire" /\ call'[s].addr = a /\ call'[s].todo = Subgroups \ {s}
         /\ ~call'[s].found /\ call'[s].retries = call[s].retries
         /\ UNCHANGED <<observed, gaveUp>>
  <2>1. CASE AttemptSucceeds(s) \/ call[s].left = 1
    <3>1. /\ call' = [call EXCEPT ![s] = Idle] /\ observed' = [observed EXCEPT ![s] = a]
          /\ gaveUp' = IF call[s].retries /\ call[s].late /\ ~call[s].found
                       THEN gaveUp \cup {s} ELSE gaveUp
      BY <1>2, <2>1, Zenon DEF EndAttempt, Return
    <3>2. call'[s].stage = "idle" /\ observed'[s] = a
      BY <3>1 DEF DTypeOK, Idle
    <3> QED BY <2>1, <3>1, <3>2 DEF AttemptSucceeds
  <2>2. CASE ~(AttemptSucceeds(s) \/ call[s].left = 1)
    <3>1. /\ call' = [call EXCEPT ![s].left = @ - 1, ![s].late = FALSE,
                                  ![s].todo = Subgroups \ {s}]
          /\ UNCHANGED <<observed, gaveUp>>
      BY <2>2, Zenon DEF EndAttempt
    <3>2. /\ call'[s].stage = "acquire" /\ call'[s].addr = a /\ call'[s].todo = Subgroups \ {s}
          /\ call'[s].found = call[s].found /\ call'[s].retries = call[s].retries
      BY <1>2, <1>3, <3>1 DEF DTypeOK
    <3> QED BY <2>2, <3>1, <3>2 DEF AttemptSucceeds
  <2> QED BY <2>1, <2>2
<1>5. \A t \in Subgroups : t # s => call'[t] = call[t] /\ observed'[t] = observed[t]
  <2>1. CASE AttemptSucceeds(s) \/ call[s].left = 1
    <3>1. call' = [call EXCEPT ![s] = Idle] /\ observed' = [observed EXCEPT ![s] = a]
      BY <1>2, <2>1, Zenon DEF EndAttempt, Return
    <3> QED BY <3>1 DEF DTypeOK
  <2>2. CASE ~(AttemptSucceeds(s) \/ call[s].left = 1)
    <3>1. /\ call' = [call EXCEPT ![s].left = @ - 1, ![s].late = FALSE,
                                  ![s].todo = Subgroups \ {s}]
          /\ UNCHANGED <<observed, gaveUp>>
      BY <2>2, Zenon DEF EndAttempt
    <3> QED BY <3>1 DEF DTypeOK
  <2> QED BY <2>1, <2>2
<1>6. gaveUp \subseteq gaveUp' /\ call'[s].stage \notin {"store", "record"}
  BY <1>4
<1>7. Quiet(s) /\ RecordsCome(s)
  BY <1>1, <1>5, <1>6 DEF Quiet, RecordsCome
<1>8. Facts(s)
  BY DEF Handoff
<1>9. KnowsOwn(s)' /\ Unfenced(s)' /\ StoresBacked(s)'
  BY <1>1, <1>6, <1>8 DEF Facts, KnowsOwn, Unfenced, StoresBacked
<1>10. Staged(s)'
  BY <1>1, <1>4, <1>8 DEF Facts, Staged
<1>11. FencesBacked(s)'
  BY <1>1, <1>7, <1>8, SharedStays DEF Facts, FencesBacked, FencePaid
<1>12. SeenBacked(s)'
  <2>1. LooksAt(s)' = LooksAt(s)
    BY <1>1, <1>2, <1>4 DEF LooksAt
  <2> QED BY <1>1, <1>7, <1>8, <2>1, SeenWaits DEF Facts
<1>13. KnownCovered(s)'
  <2> SUFFICES ASSUME NEW c \in Cells, NEW p \in Subgroups, p # s, FreshBy(c, p),
                      IdIn(c) \in knows[s]
               PROVE  Covered(s, p)'
    BY <1>1, <1>7, SharedStays DEF KnownCovered
  <2>1. Covered(s, p)
    BY <1>8 DEF Facts, KnownCovered
  <2>2. CASE token[s][p] > epoch \/ s \in gaveUp
    BY <1>1, <1>6, <2>2 DEF Covered
  <2>3. CASE Awaited(s, p) /\ Backed(a, p)
    <3>1. ~RecordsFirst /\ ~call[s].found /\ call[s].late /\ call[s].retries
      BY <1>1, <1>8, <2>3 DEF Awaited, Facts, Staged
    <3>2. CASE call'[s].stage = "idle"
      BY <1>4, <3>1, <3>2 DEF Covered
    <3>3. CASE call'[s].stage # "idle"
      <4>1. /\ call'[s].stage = "acquire" /\ call'[s].addr = a /\ p \in call'[s].todo
            /\ ~call'[s].found
        BY <1>4, <3>3
      <4>2. Awaited(s, p)'
        BY <3>1, <4>1 DEF Awaited
      <4>3. Backed(a, p)'
        BY <1>7, <2>3, BackedStays
      <4> QED BY <4>1, <4>2, <4>3 DEF Covered
    <3> QED BY <3>2, <3>3
  <2> QED BY <1>2, <2>1, <2>2, <2>3 DEF Covered
<1>14. \A b \in Addresses, c \in Cells, p \in Subgroups :
         FreshBy(c, p) /\ IdIn(c) \in sync'[b] => Backed(b, p)' \/ Shared(c)'
  BY <1>1, <1>7, SyncStays
<1>15. Facts(s)'
  BY <1>9, <1>10, <1>11, <1>12, <1>13 DEF Facts
<1> QED BY <1>7, <1>14, <1>15, StepHandoff

LEMMA HandoffStep ==
  ASSUME HandoffAssumption
  PROVE  DTypeOK /\ Handoff /\ [Next]_vars => Handoff'
<1> SUFFICES ASSUME DTypeOK, Handoff, [Next]_vars PROVE Handoff'
  OBVIOUS
<1>1. /\ Direct /\ FencesSeeAll /\ MaxEpoch < EpochModulus
      /\ RecordsFirst \/ Pairs
      /\ RecordsFirst \/ Attempts # 1
  BY DEF HandoffAssumption, Pairs
<1>2. ASSUME NEW s \in Subgroups, NEW c \in Cells, NEW k \in Kinds, Access(s, c, k)
      PROVE  Handoff'
  BY <1>1, <1>2, AccessHandoff
<1>3. ASSUME NEW s \in Subgroups, NEW a \in Addresses, NEW o \in StoreOrders, AtomicStore(s, a, o)
      PROVE  Handoff'
  BY <1>1, <1>3, AtomicStoreHandoff
<1>4. ASSUME NEW s \in Subgroups, NEW a \in Addresses, NEW o \in LoadOrders, AtomicLoad(s, a, o)
      PROVE  Handoff'
  <2>1. Acquires(o) => RecordsFirst
    BY <1>1 DEF Pairs
  <2>2. Acquires(o) \in BOOLEAN /\ ReadValue(s, a, Acquires(o), 1)
    BY <1>4, OrdersAreBoolean DEF AtomicLoad
  <2> QED BY <1>1, <2>1, <2>2, ReadValueHandoff
<1>5. ASSUME NEW s \in Subgroups, NEW a \in Addresses, NEW o \in RmwOrders, AtomicRmw(s, a, o)
      PROVE  Handoff'
  <2>1. RecordsFirst => NoReleaseFences /\ ~Releases(o)
    BY DEF RecordsFirst
  <2> QED BY <1>1, <1>5, <2>1, AtomicRmwHandoff
<1>6. ASSUME NEW s \in Subgroups, NEW a \in Addresses, NEW o \in CasOrders,
             CompareExchange(s, a, o)
      PROVE  Handoff'
  <2>1. CASE AtomicRmw(s, a, o[1])
    <3>1. RecordsFirst => NoReleaseFences /\ ~Releases(o[1])
      BY DEF RecordsFirst
    <3> QED BY <1>1, <2>1, <3>1, AtomicRmwHandoff
  <2>2. CASE ReadValue(s, a, Acquires(o[2]), Attempts)
    <3>1. Acquires(o[2]) \in BOOLEAN
      BY OrdersAreBoolean
    <3> QED BY <1>1, <2>2, <3>1, ReadValueHandoff
  <2> QED BY <1>6, <2>1, <2>2 DEF CompareExchange
<1>7. ASSUME NEW s \in Subgroups, StoreValue(s) PROVE Handoff'
  BY <1>1, <1>7, StoreValueHandoff
<1>8. ASSUME NEW s \in Subgroups, RecordRmw(s) PROVE Handoff'
  BY <1>1, <1>8, RecordRmwHandoff
<1>9. ASSUME NEW s \in Subgroups, NEW o \in FenceOrders, AtomicFence(s, o) PROVE Handoff'
  BY <1>1, <1>9, AtomicFenceHandoff
<1>10. ASSUME NEW s \in Subgroups, NEW p \in Subgroups, ImportFrom(s, p) PROVE Handoff'
  BY <1>1, <1>10, ImportFromHandoff
<1>11. ASSUME NEW s \in Subgroups, EndAttempt(s) PROVE Handoff'
  BY <1>11, EndAttemptHandoff
<1>12. CASE Barrier
  BY <1>12, BarrierHandoff
<1>13. CASE UNCHANGED vars
  <2>1. UNCHANGED <<epoch, shadow, token, record, pending, observed, call, gaveUp,
                    knows, sync, fenced, seen>>
    BY <1>13 DEF vars, meta, truth
  <2>2. /\ \A c, p : FreshBy(c, p)' <=> FreshBy(c, p)
        /\ \A c : IdIn(c)' = IdIn(c) /\ (Shared(c)' <=> Shared(c))
        /\ \A a, p : Backed(a, p)' <=> Backed(a, p)
        /\ \A s, p : Backed(LooksAt(s), p)' <=> Backed(LooksAt(s), p)
    BY <2>1 DEF FreshBy, IdIn, Shared, Backed, Publishing, LooksAt
  <2>3. \A s, p : Covered(s, p)' <=> Covered(s, p)
    BY <2>1 DEF Covered, Awaited, Backed, Publishing
  <2>4. DatedShadow' /\ SyncBacked'
    BY <2>1, <2>2 DEF Handoff, DatedShadow, SyncBacked
  <2>5. ASSUME NEW s \in Subgroups PROVE Facts(s)'
    <3>1. KnowsOwn(s)' /\ Unfenced(s)' /\ Staged(s)'
      BY <2>1 DEF Handoff, Facts, KnowsOwn, Unfenced, Staged
    <3>2. FencesBacked(s)' /\ StoresBacked(s)'
      BY <2>1, <2>2 DEF Handoff, Facts, FencesBacked, FencePaid, StoresBacked
    <3>3. SeenBacked(s)' /\ KnownCovered(s)'
      BY <2>1, <2>2, <2>3 DEF Handoff, Facts, SeenBacked, KnownCovered, LooksAt
    <3> QED BY <3>1, <3>2, <3>3 DEF Facts
  <2> QED BY <2>4, <2>5 DEF Handoff
<1> QED BY <1>2, <1>3, <1>4, <1>5, <1>6, <1>7, <1>8, <1>9, <1>10, <1>11, <1>12, <1>13 DEF Next

LEMMA HandoffReports ==
  ASSUME DTypeOK, Handoff, MaxEpoch < EpochModulus
  PROVE  ReportsAreRaces
<1> SUFFICES ASSUME NEW s \in Subgroups, NEW c \in Cells, NEW k \in Kinds,
                    CanAccess(s), Reports(s, c, k), s \notin gaveUp, IdIn(c) \in knows[s]
             PROVE  FALSE
  BY DEF ReportsAreRaces
<1>1. PICK p \in Subgroups : p = shadow[c].owner
  BY FreshEntry DEF Reports, Conflicts
<1>2. FreshBy(c, p) /\ p # s
  BY <1>1, StoredIsEpoch DEF Reports, Conflicts, FreshBy
<1>3. Covered(s, p)
  BY <1>2 DEF Handoff, Facts, KnownCovered
<1>4. token[s][p] > epoch
  BY <1>3, IdleCovered DEF CanAccess, IsIdle
<1>5. shadow[c].epoch = epoch /\ epoch \in Nat /\ token[s][p] \in Nat
  BY <1>2, StoredIsEpoch, DetectorAssumption DEF FreshBy, DTypeOK
<1>6. AcquiredPrior(s, c)
  BY <1>1, <1>4, <1>5 DEF AcquiredPrior
<1> QED BY <1>6 DEF Reports

LEMMA HandoffsReportRaces ==
  ASSUME HandoffAssumption
  PROVE  Spec => []ReportsAreRaces
<1>1. Init => DTypeOK /\ Handoff
  BY InitType, InitHandoff
<1>2. DTypeOK /\ Handoff /\ [Next]_vars => (DTypeOK /\ Handoff)'
  BY TypeStep, HandoffStep
<1>3. DTypeOK /\ Handoff => ReportsAreRaces
  BY HandoffReports DEF HandoffAssumption
<1> QED BY <1>1, <1>2, <1>3, PTL DEF Spec

\* Kernels whose stores release and whose loads, fences and read-modify-writes
\* acquire get no false report (context.hpp 228-269, 1155-1158): flags and spin
\* locks among any number of subgroups, and relaxed accesses between fences:
\* of one flag, or of several if each fence goes with the atomic next to it
\* (docs/atomics.md 219-235).  The record is out before the value.
THEOREM HandoffsAreQuiet ==
  ASSUME Direct, FencesSeeAll, MaxEpoch < EpochModulus, RecordsFirst
  PROVE  Spec => []ReportsAreRaces
BY HandoffsReportRaces DEF HandoffAssumption

\* Two subgroups that also release by read-modify-writes, whose value is out
\* before the record, get no false report between barriers, unless retries run
\* out (context.hpp 281-469, 1003-1016): a search goes on until the record is
\* there, for every number of attempts but one.
THEOREM PairsAreQuiet ==
  ASSUME FencesSeeAll, Pairs
  PROVE  Spec => []ReportsAreRaces
<1>1. MaxEpoch < EpochModulus /\ Direct
  BY DetectorAssumption DEF Pairs, Direct
<1> QED BY <1>1, HandoffsReportRaces DEF HandoffAssumption

(***************************************************************************)
(* The detector implements the promise of the atomic-object table, for     *)
(* every mix of operations and orders: a step of it is a release of an     *)
(* epoch that has been reached, an import of a record that is out, a       *)
(* barrier, or nothing to the promise.                                     *)
(***************************************************************************)
\* Records and pending fences name epochs that have been reached.
Reached ==
    /\ \A a \in Addresses, p \in Subgroups : record[a][p] <= epoch + 1
    /\ \A p \in Subgroups : pending[p] <= epoch + 1

\* A search is for the records of other subgroups.
SearchesOthers ==
    \A s \in Subgroups : call[s].stage = "acquire" => s \notin call[s].todo

PromiseInv == DTypeOK /\ Reached /\ SearchesOthers

LEMMA InitPromiseInv == Init => PromiseInv
<1> SUFFICES ASSUME Init PROVE PromiseInv
  OBVIOUS
<1>1. DTypeOK
  BY InitType
<1> QED BY <1>1 DEF Init, Idle, PromiseInv, Reached, SearchesOthers

\* A call that begins to acquire leaves its own subgroup out.
LEMMA SearchesOthersKept ==
  ASSUME DTypeOK, SearchesOthers, NEW s \in Subgroups,
         \A x \in Subgroups \ {s} : call'[x] = call[x],
         call'[s].stage = "acquire" => s \notin call'[s].todo
  PROVE  SearchesOthers'
BY DEF SearchesOthers

LEMMA ThenAcquireOthers ==
  ASSUME DTypeOK, SearchesOthers, NEW s \in Subgroups, NEW a, NEW acq, NEW n,
         ThenAcquire(s, a, acq, n)
  PROVE  SearchesOthers'
<1>1. call' = [call EXCEPT ![s] = Acquiring(s, a, n)] \/ call' = [call EXCEPT ![s] = Idle]
  BY DEF ThenAcquire, Return
<1>2. call'[s] \in {Acquiring(s, a, n), Idle}
      /\ \A x \in Subgroups \ {s} : call'[x] = call[x]
  BY <1>1 DEF DTypeOK
<1>3. call'[s].stage = "acquire" => s \notin call'[s].todo
  BY <1>2 DEF Acquiring, Idle
<1> QED BY <1>2, <1>3, SearchesOthersKept

\* What is published, one record at a time.
LEMMA ReleasedMember ==
  ASSUME NEW a \in Addresses, NEW p \in Subgroups, NEW e \in 0 .. MaxEpoch
  PROVE  /\ <<a, p, e>> \in Released <=> record[a][p] > e
         /\ <<a, p, e>> \in Released' <=> record'[a][p] > e
BY DEF Released

\* A release puts out the epoch it was given, or that of a pending fence, with
\* all epochs before it.
LEMMA PutReleaseRefines ==
  ASSUME DTypeOK, Reached, NEW s \in Subgroups, NEW a \in Addresses,
         NEW rel \in BOOLEAN, PutRelease(s, a, rel), UNCHANGED <<epoch, token>>
  PROVE  Reached' /\ [Promise!RNext]_(Promise!rvars)
<1> DEFINE t == IF rel THEN epoch + 1 ELSE pending[s]
<1>1. t \in 0 .. MaxEpoch + 1 /\ t <= epoch + 1 /\ epoch \in Nat /\ MaxEpoch \in Nat
  BY DetectorAssumption DEF DTypeOK, Reached
<1>2. \A b \in Addresses, p \in Subgroups :
        record'[b][p] = IF b = a /\ p = s THEN Joined(record[b][p], t) ELSE record[b][p]
  <2>1. CASE rel
    <3>1. record' = Published(s, a, epoch + 1)
      BY <2>1 DEF PutRelease
    <3> QED BY <2>1, <3>1 DEF Published, DTypeOK
  <2>2. CASE ~rel /\ pending[s] # 0
    <3>1. record' = Published(s, a, pending[s])
      BY <2>2 DEF PutRelease
    <3> QED BY <2>2, <3>1 DEF Published, DTypeOK
  <2>3. CASE ~rel /\ pending[s] = 0
    <3>1. record' = record /\ t = 0
      BY <2>3 DEF PutRelease
    <3>2. record[a][s] \in Nat
      BY DEF DTypeOK
    <3> QED BY <3>1, <3>2 DEF Joined
  <2> QED BY <2>1, <2>2, <2>3
<1>3. pending' = pending \/ pending' = [pending EXCEPT ![s] = 0]
  BY DEF PutRelease
<1> HIDE DEF t
<1>4. \A b \in Addresses, p \in Subgroups :
        record[b][p] \in 0 .. MaxEpoch + 1 /\ record[b][p] <= epoch + 1
  BY DEF DTypeOK, Reached
<1>5. Reached'
  <2>1. \A p \in Subgroups : pending'[p] <= epoch + 1
    <3>1. \A p \in Subgroups : pending'[p] = pending[p] \/ pending'[p] = 0
      BY <1>3 DEF DTypeOK
    <3> QED BY <1>1, <3>1 DEF Reached
  <2>2. \A b \in Addresses, p \in Subgroups : record'[b][p] <= epoch + 1
    BY <1>1, <1>2, <1>4 DEF Joined
  <2> QED BY <2>1, <2>2 DEF Reached
<1>6. CASE t = 0
  <2>1. \A b \in Addresses, p \in Subgroups : record'[b][p] = record[b][p]
    BY <1>2, <1>4, <1>6 DEF Joined
  <2>2. Released' = Released
    BY <2>1 DEF Released
  <2> QED BY <1>5, <2>2 DEF Promise!rvars
<1>7. CASE t # 0
  <2> DEFINE e == t - 1
             Out == {a} \X {s} \X (0 .. e)
  <2>1. e \in 0 .. MaxEpoch /\ e <= epoch /\ t = e + 1
    BY <1>1, <1>7
  <2> HIDE DEF e
  <2>2. ASSUME NEW b \in Addresses, NEW p \in Subgroups, NEW f \in 0 .. MaxEpoch
        PROVE  <<b, p, f>> \in Released' <=> <<b, p, f>> \in Released \cup Out
    <3>1. <<b, p, f>> \in Out <=> b = a /\ p = s /\ f <= e
      BY <2>1
    <3>2. record'[b][p] > f <=> record[b][p] > f \/ (b = a /\ p = s /\ f <= e)
      BY <1>2, <1>4, <2>1 DEF Joined
    <3> QED BY <3>1, <3>2, ReleasedMember
  <2>3. ASSUME NEW r
        PROVE  r \in Released' <=> r \in Released \cup Out
    <3>1. r \in Released' \/ r \in Released \/ r \in Out
            => r \in Addresses \X Subgroups \X (0 .. MaxEpoch)
      BY <2>1, <1>1 DEF Released
    <3>2. ASSUME NEW b \in Addresses, NEW p \in Subgroups, NEW f \in 0 .. MaxEpoch,
                 r = <<b, p, f>>
          PROVE  r \in Released' <=> r \in Released \cup Out
      BY <2>2, <3>2
    <3> QED BY <3>1, <3>2
  <2>4. Released' = Released \cup Out
    BY <2>3
  <2>5. Promise!Release(a, s, e)
    BY <2>1, <2>4 DEF Promise!Release
  <2>6. Promise!RNext
    BY <2>1, <2>5 DEF Promise!RNext, Promise!Epoch
  <2> QED BY <1>5, <2>6
<1> QED BY <1>6, <1>7

\* A step that leaves epoch, records and tokens alone is nothing to the promise.
LEMMA PromiseUntouched ==
  ASSUME Reached, UNCHANGED <<epoch, token, record>>,
         \A p \in Subgroups : pending'[p] <= epoch + 1
  PROVE  Reached' /\ UNCHANGED Promise!rvars
<1>1. Released' = Released
  BY DEF Released
<1> QED BY <1>1 DEF Reached, Promise!rvars

\* A token is raised to a record that is out, or stays.
LEMMA ImportFromRefines ==
  ASSUME PromiseInv, NEW s \in Subgroups, NEW p \in Subgroups, ImportFrom(s, p)
  PROVE  Reached' /\ [Promise!RNext]_(Promise!rvars)
<1> DEFINE a == call[s].addr
<1>1. DTypeOK /\ Reached /\ a \in Addresses /\ p # s
  BY StageFields DEF PromiseInv, SearchesOthers, ImportFrom
<1>2. UNCHANGED <<epoch, record, pending>> /\ Released' = Released
  BY DEF ImportFrom, Released
<1>3. Reached'
  BY <1>1, <1>2 DEF Reached
<1>4. CASE ~HasRecord(a, p)
  BY <1>2, <1>3, <1>4 DEF ImportFrom, Promise!rvars
<1>5. CASE HasRecord(a, p)
  <2>1. token' = ImportedToken(s, a, p)
    BY <1>5 DEF ImportFrom
  <2> DEFINE e == record[a][p] - 1
  <2>2. record[a][p] \in 0 .. MaxEpoch + 1
    BY <1>1 DEF DTypeOK
  <2> HIDE DEF a
  <2>3. e \in 0 .. MaxEpoch /\ record[a][p] = e + 1
    BY <1>5, <2>2, DetectorAssumption DEF HasRecord
  <2> HIDE DEF e
  <2>4. <<a, p, e>> \in Released
    BY <1>1, <2>3, ReleasedMember
  <2>5. token' = [token EXCEPT ![s][p] = Promise!RaiseTo(@, e + 1)]
    BY <2>1, <2>3 DEF ImportedToken, Promise!RaiseTo
  <2>6. Promise!Import(s, p, a)
    BY <1>1, <1>2, <2>3, <2>4, <2>5 DEF Promise!Import, Promise!Epoch
  <2> QED BY <1>1, <1>3, <2>6 DEF Promise!RNext
<1> QED BY <1>4, <1>5

LEMMA BarrierRefines ==
  ASSUME DTypeOK, Reached, Barrier
  PROVE  Reached' /\ Promise!RNext
<1>1. epoch \in Nat /\ epoch < MaxEpoch /\ epoch' = epoch + 1
      /\ UNCHANGED <<token, record, pending>>
  BY DetectorAssumption DEF DTypeOK, Barrier
<1>2. Released' = Released
  BY <1>1 DEF Released
<1>3. Promise!Barrier
  BY <1>1, <1>2 DEF Promise!Barrier
<1>4. Reached'
  BY <1>1 DEF Reached, DTypeOK
<1> QED BY <1>3, <1>4 DEF Promise!RNext

LEMMA PromiseStep ==
  ASSUME PromiseInv, [Next]_vars
  PROVE  Reached' /\ [Promise!RNext]_(Promise!rvars)
<1> USE DEF PromiseInv
<1>1. ASSUME NEW s \in Subgroups, NEW a \in Addresses, NEW o, AtomicStore(s, a, o)
      PROVE  Reached' /\ [Promise!RNext]_(Promise!rvars)
  <2>1. PutRelease(s, a, Releases(o)) /\ UNCHANGED <<epoch, token>>
        /\ Releases(o) \in BOOLEAN
    BY <1>1, OrdersAreBoolean DEF AtomicStore
  <2> QED BY <2>1, PutReleaseRefines
<1>2. ASSUME NEW s \in Subgroups, RecordRmw(s)
      PROVE  Reached' /\ [Promise!RNext]_(Promise!rvars)
  <2>1. PutRelease(s, call[s].addr, call[s].rel) /\ UNCHANGED <<epoch, token>>
        /\ call[s].addr \in Addresses /\ call[s].rel \in BOOLEAN
    BY <1>2, StageFields DEF RecordRmw
  <2> QED BY <2>1, PutReleaseRefines
<1>3. ASSUME NEW s \in Subgroups, NEW o, AtomicFence(s, o)
      PROVE  Reached' /\ [Promise!RNext]_(Promise!rvars)
  <2>1. UNCHANGED <<epoch, token, record>>
        /\ \/ pending' = pending
           \/ pending' = [pending EXCEPT ![s] = epoch + 1]
    BY <1>3 DEF AtomicFence
  <2>2. epoch \in Nat
    BY DetectorAssumption DEF DTypeOK
  <2>3. \A p \in Subgroups : pending'[p] <= epoch + 1
    <3>1. \A p \in Subgroups : pending'[p] = pending[p] \/ pending'[p] = epoch + 1
      BY <2>1 DEF DTypeOK
    <3> QED BY <2>2, <3>1 DEF Reached
  <2> QED BY <2>1, <2>3, PromiseUntouched
<1>4. ASSUME UNCHANGED <<epoch, token, record, pending>>
      PROVE  Reached' /\ UNCHANGED Promise!rvars
  BY <1>4, PromiseUntouched DEF Reached
<1>5. ASSUME NEW s \in Subgroups,
             \/ \E c \in Cells, k \in Kinds : Access(s, c, k)
             \/ \E a \in Addresses : \E acq, n : ReadValue(s, a, acq, n)
             \/ \E a \in Addresses : \E o : AtomicRmw(s, a, o)
             \/ StoreValue(s) \/ EndAttempt(s)
      PROVE  UNCHANGED <<epoch, token, record, pending>>
  BY <1>5 DEF Access, ReadValue, AtomicRmw, StoreValue, EndAttempt, meta
<1>6. CASE UNCHANGED vars
  BY <1>4, <1>6 DEF vars, meta
<1> QED BY <1>1, <1>2, <1>3, <1>4, <1>5, <1>6, ImportFromRefines, BarrierRefines
        DEF Next, AtomicLoad, CompareExchange

LEMMA SearchesOthersStep ==
  ASSUME DTypeOK, SearchesOthers, [Next]_vars
  PROVE  SearchesOthers'
<1>1. ASSUME NEW s \in Subgroups, NEW a, NEW acq, NEW n, ReadValue(s, a, acq, n)
      PROVE  SearchesOthers'
  BY <1>1, ThenAcquireOthers DEF ReadValue
<1>2. ASSUME NEW s \in Subgroups, RecordRmw(s)
      PROVE  SearchesOthers'
  BY <1>2, ThenAcquireOthers DEF RecordRmw
<1>3. ASSUME NEW s \in Subgroups, NEW a, NEW o, AtomicStore(s, a, o) \/ AtomicRmw(s, a, o)
      PROVE  SearchesOthers'
  <2>1. PICK c : c.stage # "acquire" /\ call' = [call EXCEPT ![s] = c]
    BY <1>3 DEF AtomicStore, AtomicRmw
  <2>2. call'[s] = c /\ \A x \in Subgroups \ {s} : call'[x] = call[x]
    BY <2>1 DEF DTypeOK
  <2> QED BY <2>1, <2>2, SearchesOthersKept
<1>4. ASSUME NEW s \in Subgroups, StoreValue(s)
      PROVE  SearchesOthers'
  <2>1. call'[s] = Idle /\ \A x \in Subgroups \ {s} : call'[x] = call[x]
    BY <1>4 DEF StoreValue, DTypeOK
  <2> QED BY <2>1, SearchesOthersKept DEF Idle
<1>5. ASSUME NEW s \in Subgroups, NEW o, AtomicFence(s, o)
      PROVE  SearchesOthers'
  <2>1. CASE call' = call
    BY <2>1 DEF SearchesOthers
  <2>2. CASE call' # call
    <3>1. call' = [call EXCEPT ![s] = Acquiring(s, observed[s], Attempts)]
      BY <1>5, <2>2 DEF AtomicFence
    <3>2. call'[s] = Acquiring(s, observed[s], Attempts)
          /\ \A x \in Subgroups \ {s} : call'[x] = call[x]
      BY <3>1 DEF DTypeOK
    <3> QED BY <3>2, SearchesOthersKept DEF Acquiring
  <2> QED BY <2>1, <2>2
<1>6. ASSUME NEW s \in Subgroups, NEW p \in Subgroups, ImportFrom(s, p)
      PROVE  SearchesOthers'
  <2>1. call[s].stage = "acquire" /\ s \notin call[s].todo
    BY <1>6 DEF ImportFrom, SearchesOthers
  <2>2. call[s] \in [stage : {"acquire"}, addr : Addresses, left : 1 .. Attempts,
                     todo : SUBSET Subgroups, found : BOOLEAN, late : BOOLEAN,
                     retries : BOOLEAN]
    BY <2>1, StageFields
  <2>3. PICK f, m : call' = [call EXCEPT ![s].todo = @ \ {p},
                                         ![s].found = f, ![s].late = m]
    BY <1>6 DEF ImportFrom
  <2>4. call'[s].todo = call[s].todo \ {p}
        /\ \A x \in Subgroups \ {s} : call'[x] = call[x]
    BY <2>2, <2>3 DEF DTypeOK
  <2> QED BY <2>1, <2>4, SearchesOthersKept
<1>7. ASSUME NEW s \in Subgroups, EndAttempt(s)
      PROVE  SearchesOthers'
  <2>1. call[s] \in [stage : {"acquire"}, addr : Addresses, left : 1 .. Attempts,
                     todo : SUBSET Subgroups, found : BOOLEAN, late : BOOLEAN,
                     retries : BOOLEAN]
    BY <1>7, StageFields DEF EndAttempt
  <2>2. CASE call' = [call EXCEPT ![s] = Idle]
    <3>1. call'[s] = Idle /\ \A x \in Subgroups \ {s} : call'[x] = call[x]
      BY <2>2 DEF DTypeOK
    <3> QED BY <3>1, SearchesOthersKept DEF Idle
  <2>3. CASE call' = [call EXCEPT ![s].left = @ - 1, ![s].late = FALSE,
                                  ![s].todo = Subgroups \ {s}]
    <3>1. call'[s].todo = Subgroups \ {s}
          /\ \A x \in Subgroups \ {s} : call'[x] = call[x]
      BY <2>1, <2>3 DEF DTypeOK
    <3> QED BY <3>1, SearchesOthersKept
  <2> QED BY <1>7, <2>2, <2>3 DEF EndAttempt, Return
<1>8. CASE UNCHANGED call
  BY <1>8 DEF SearchesOthers
<1>9. ASSUME \/ \E s \in Subgroups, c \in Cells, k \in Kinds : Access(s, c, k)
             \/ Barrier \/ UNCHANGED vars
      PROVE  UNCHANGED call
  BY <1>9 DEF Access, Barrier, vars
<1> QED BY <1>1, <1>2, <1>3, <1>4, <1>5, <1>6, <1>7, <1>8, <1>9
        DEF Next, AtomicLoad, CompareExchange

\* The detector implements the promise of the table, with as many subgroups,
\* addresses, orders and barriers as a kernel uses: no token is invented, none
\* names an epoch that has not been reached, and none is lowered, also when a
\* release fence is overtaken by a barrier before its atomic (context.hpp
\* 841-880).
THEOREM DetectorKeepsPromise == Spec => KeepsPromise
<1>1. Init => PromiseInv /\ Promise!RInit
  <2> SUFFICES ASSUME Init PROVE PromiseInv /\ Promise!RInit
    OBVIOUS
  <2>1. Released = {}
    BY DEF Init, Released
  <2> QED BY <2>1, InitPromiseInv DEF Init, Promise!RInit, Promise!NoTokens
<1>2. PromiseInv /\ [Next]_vars => PromiseInv'
  BY TypeStep, PromiseStep, SearchesOthersStep DEF PromiseInv
<1>3. PromiseInv /\ [Next]_vars => [Promise!RNext]_(Promise!rvars)
  BY PromiseStep
<1> QED BY <1>1, <1>2, <1>3, PTL DEF Spec, KeepsPromise, Promise!RSpec
==============================================================================
