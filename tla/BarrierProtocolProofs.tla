------------------------- MODULE BarrierProtocolProofs -------------------------
(***************************************************************************)
(* Proofs about BarrierProtocol, for any threads, subgroups, cells,        *)
(* scripts and launches: the barriers keep the epoch words in step with    *)
(* what is really ordered, every barrier somebody sat out is reported,     *)
(* reports are of real races, and each launch implements ExactDetector.    *)
(***************************************************************************)
EXTENDS BarrierProtocol, FiniteSetTheorems, TLAPS

USE BarrierAssumption

OnTheWay == {"out", "exchange", "first"}
AtWork == {"clear", "count", "close", "reset", "second"}

\* Either all threads are on their way to the next barrier, or thread 0 is
\* between the two native barriers and all others wait for it.
Modes ==
  \/ \A t \in Thread : call[t].pc \in OnTheWay
  \/ call[0].pc \in AtWork /\ \A t \in Thread \ {0} : IsAt(t, "second")

\* The barriers of this launch that lie behind the threads.
Level == phase + diverged

Levels == \A t \in Thread : passed[t] = IF IsAt(t, "first") THEN Level + 1 ELSE Level

\* The threads that have been counted for the present barrier.
Arrived == {t \in Thread : IsAt(t, "first")} \ absent

Simulates == Level < MaxBarriers /\ script[Level + 1] = "simulate"

\* What the arrival counter counts, and what thread 0 makes of it.
Counts ==
  /\ \A t \in absent : IsAt(t, "first")
  /\ call[0].pc \in OnTheWay =>
       IF Simulates THEN arrivals = Cardinality(Arrived) ELSE arrivals = 0 /\ absent = {}
  /\ IsAt(0, "count") => Called(0) = "simulate"
  /\ IsAt(0, "close") /\ Called(0) # "simulate" => arrivals = 0
  /\ IsAt(0, "second") => arrivals = 0
  /\ IsAt(0, "count") => diverged = IF arrivals = ThreadCount THEN divergences
                                    ELSE divergences + 1
  /\ call[0].pc \notin {"clear", "count"} => divergences = diverged
  /\ IsAt(0, "clear") => Level = 0

\* The epoch word of a subgroup, while thread 0 raises one after the other.
Epochs ==
  \A s \in Subgroup : s < subgroup_capacity =>
    /\ IsAt(0, "count") =>
         phase = IF arrivals = ThreadCount THEN subgroup_epoch[s] + 1 ELSE subgroup_epoch[s]
    /\ IsAt(0, "close") =>
         phase = IF s < call[0].next THEN subgroup_epoch[s] ELSE subgroup_epoch[s] + 1
    /\ call[0].pc \notin {"clear", "count", "close"} => phase = subgroup_epoch[s]

BInv == BTypeOK /\ Modes /\ Levels /\ Counts /\ Epochs

\* The configured count, if there is one, is that of the threads that run.
Configured == ExpectedCount = ThreadCount

\* A word in the shadow, or on its way there, tells its launch and its phase.
Tells(word, g, p) == word.generation = g /\ word.epoch = p

Past(c) ==
  shadow[c].kind # "empty" =>
    /\ shadow[c].generation <= generation
    /\ shadow[c].generation = generation => shadow[c].epoch <= phase
    /\ Tells(shadow[c], generation, phase) => <<shadow[c].owner, c, shadow[c].kind>> \in fresh

SInv ==
  /\ \A t \in Thread : IsAt(t, "exchange") =>
       Tells(call[t].word, generation, phase) /\ call[t].word.owner = SubgroupOf(t)
  /\ \A c \in Cell : Past(c)

\* The last access of this phase to a cell is in the shadow, and if no race in
\* the cell has been reported, all are of its subgroup.
LastAccess ==
  \A i \in fresh : /\ shadow[i[2]].kind # "empty"
                   /\ Tells(shadow[i[2]], generation, phase)
                   /\ i[2] \in diagnosed \/ i[1] = shadow[i[2]].owner

-------------------------------------------------------------------------------
\* Threads and their calls

Simple == {"out", "first", "second", "clear", "count", "reset"}
SimpleCalls == [pc : Simple]
CloseCalls == [pc : {"close"}, next : 0 .. SubgroupCount]
ExchangeCalls == [pc : {"exchange"}, cell : Cell, last : Cell, word : Words]

LEMMA CallTypes ==
  ASSUME BTypeOK
  PROVE  call \in [Thread -> SimpleCalls \cup CloseCalls \cup ExchangeCalls]
BY DEF BTypeOK, SimpleCalls, Simple, CloseCalls, ExchangeCalls

LEMMA ZeroThread == 0 \in Thread
BY DEF Thread

LEMMA ThreadsFinite ==
  /\ IsFiniteSet(Thread) /\ Cardinality(Thread) = ThreadCount
  /\ \A T \in SUBSET Thread :
       /\ IsFiniteSet(T)
       /\ Cardinality(T) \in 0 .. ThreadCount
       /\ Cardinality(T) = ThreadCount => T = Thread
<1>1. IsFiniteSet(Thread) /\ Cardinality(Thread) = ThreadCount
  <2>1. 0 \in Int /\ ThreadCount - 1 \in Int /\ 0 <= ThreadCount - 1
    OBVIOUS
  <2>2. IsFiniteSet(0 .. ThreadCount - 1)
        /\ Cardinality(0 .. ThreadCount - 1) = (ThreadCount - 1) - 0 + 1
    BY <2>1, FS_Interval
  <2> QED BY <2>2 DEF Thread
<1>2. ASSUME NEW T \in SUBSET Thread
      PROVE  /\ IsFiniteSet(T)
             /\ Cardinality(T) \in 0 .. ThreadCount
             /\ Cardinality(T) = ThreadCount => T = Thread
  <2>1. IsFiniteSet(T) /\ Cardinality(T) <= Cardinality(Thread)
        /\ (Cardinality(T) = Cardinality(Thread) => T = Thread)
    BY <1>1, FS_Subset
  <2>2. Cardinality(T) \in Nat
    BY <2>1, FS_CardinalityType
  <2> QED BY <1>1, <2>1, <2>2
<1> QED BY <1>1, <1>2

LEMMA SubgroupOfIs == ASSUME NEW t \in Thread PROVE SubgroupOf(t) \in Subgroup
<1>1. t \div ThreadsPerSubgroup \in Nat
  BY DEF Thread
<1> QED BY <1>1 DEF SubgroupOf, Subgroup

LEMMA ModIs ==
  ASSUME NEW n \in Nat, NEW m \in Nat \ {0}
  PROVE  /\ n % m \in 0 .. m - 1
         /\ n < m => n % m = n
OBVIOUS

LEMMA PackedIs ==
  ASSUME BTypeOK, NEW t \in Thread, NEW k \in Kinds
  PROVE  Packed(t, k) \in Words
<1>1. SubgroupOf(t) \in Subgroup
  BY SubgroupOfIs
<1>2. CurrentEpoch(SubgroupOf(t)) \in Nat /\ generation \in Nat
  BY <1>1 DEF CurrentEpoch, BTypeOK
<1>3. /\ CurrentEpoch(SubgroupOf(t)) % EpochModulus \in 0 .. EpochModulus - 1
      /\ generation % GenerationModulus \in 0 .. GenerationModulus - 1
  BY <1>2, ModIs
<1>4. SubgroupOf(t) % OwnerModulus \in Subgroup
  <2> DEFINE s == SubgroupOf(t)
  <2>1. s \in Nat /\ s <= SubgroupCount - 1
    BY <1>1 DEF Subgroup
  <2> HIDE DEF s
  <2>2. /\ s % OwnerModulus \in 0 .. OwnerModulus - 1
        /\ s < OwnerModulus => s % OwnerModulus = s
    BY <2>1, ModIs
  <2>3. s % OwnerModulus \in Nat /\ s % OwnerModulus <= s
    BY <2>1, <2>2
  <2> QED BY <2>1, <2>3 DEF s, Subgroup
<1> QED BY <1>3, <1>4 DEF Packed, Words

AllCalls == SimpleCalls \cup CloseCalls \cup ExchangeCalls

LEMMA CallSet ==
  ASSUME BTypeOK, NEW t \in Thread, NEW v \in AllCalls, call' = [call EXCEPT ![t] = v]
  PROVE  /\ call' \in [Thread -> AllCalls]
         /\ call'[t] = v
         /\ \A m \in Thread : m # t => call'[m] = call[m]
<1>1. call \in [Thread -> AllCalls]
  BY CallTypes DEF AllCalls
<1> QED BY <1>1

\* Who is on the way shows that all are.
LEMMA OnWay ==
  ASSUME BInv, NEW t \in Thread, call[t].pc \in OnTheWay
  PROVE  \A m \in Thread : call[m].pc \in OnTheWay
BY ZeroThread DEF BInv, Modes, OnTheWay, AtWork, IsAt

\* Where thread 0 is shows that the others wait.
LEMMA Waiting ==
  ASSUME BInv, call[0].pc \in AtWork
  PROVE  \A t \in Thread \ {0} : IsAt(t, "second")
BY ZeroThread DEF BInv, Modes, OnTheWay, AtWork, IsAt

\* Accesses disturb nothing that the barriers rest on.
LEMMA TravelInv ==
  ASSUME BInv, NEW t \in Thread, NEW v \in AllCalls, call' = [call EXCEPT ![t] = v],
         call[t].pc \in {"out", "exchange"}, v.pc \in {"out", "exchange"},
         UNCHANGED <<host, subgroup_epoch, arrivals, divergences, passed,
                     phase, absent, diverged>>,
         short' \in BOOLEAN, beyond' \in BOOLEAN,
         missed' \subseteq Subgroup \X Nat \X Kinds, shadow' \in [Cell -> {Empty} \cup Words],
         diagnosed' \subseteq Cell, fresh' \subseteq Subgroup \X Cell \X Kinds
  PROVE  BInv'
<1>1. /\ call' \in [Thread -> AllCalls]
      /\ call'[t] = v
      /\ \A m \in Thread : m # t => call'[m] = call[m]
  BY CallSet DEF BInv
<1>2. /\ subgroup_capacity' = subgroup_capacity /\ generation' = generation
      /\ script' = script /\ subgroup_epoch' = subgroup_epoch /\ arrivals' = arrivals
      /\ divergences' = divergences /\ passed' = passed
      /\ phase' = phase /\ absent' = absent /\ diverged' = diverged
  BY DEF host
<1>3. \A m \in Thread : call[m].pc \in OnTheWay /\ call'[m].pc \in OnTheWay
                       /\ (IsAt(m, "first")' <=> IsAt(m, "first"))
  BY <1>1, OnWay DEF OnTheWay, IsAt
<1>4. BTypeOK'
  BY <1>1, <1>2 DEF BInv, BTypeOK, AllCalls, SimpleCalls, Simple, CloseCalls, ExchangeCalls
<1>5. Modes'
  BY <1>3 DEF Modes
<1>6. Levels' /\ Level' = Level
  BY <1>2, <1>3 DEF BInv, Levels, Level
<1>7. Counts'
  <2>1. Arrived' = Arrived
    BY <1>2, <1>3 DEF Arrived
  <2>2. Simulates' = Simulates
    BY <1>2, <1>6 DEF Simulates
  <2>3. \A m \in absent : m \in Thread
    BY DEF BInv, BTypeOK
  <2> QED BY <1>2, <1>3, <1>6, <2>1, <2>2, <2>3, ZeroThread
          DEF BInv, Counts, OnTheWay, IsAt
<1>8. Epochs'
  BY <1>2, <1>3, ZeroThread DEF BInv, Epochs, OnTheWay, IsAt
<1> QED BY <1>4, <1>5, <1>6, <1>7, <1>8 DEF BInv

LEMMA BeginAccessInv ==
  ASSUME BInv, NEW t \in Thread, NEW r \in Ranges, NEW k \in Kinds, BeginAccess(t, r, k)
  PROVE  BInv'
<1>1. /\ call[t].pc = "out" /\ BTypeOK
      /\ UNCHANGED <<host, subgroup_epoch, arrivals, short, divergences, shadow, diagnosed,
                     passed, phase, fresh, absent, diverged>>
  BY DEF BeginAccess, BInv, IsAt
<1>2. /\ shadow' \in [Cell -> {Empty} \cup Words] /\ diagnosed' \subseteq Cell
      /\ fresh' \subseteq Subgroup \X Cell \X Kinds
      /\ UNCHANGED <<host, subgroup_epoch, arrivals, divergences, passed,
                     phase, absent, diverged>>
      /\ short' \in BOOLEAN
  BY <1>1 DEF BTypeOK
<1>3. PICK v \in AllCalls : call' = [call EXCEPT ![t] = v] /\ v.pc \in {"out", "exchange"}
                           /\ beyond' \in BOOLEAN
                           /\ missed' \subseteq Subgroup \X Nat \X Kinds
  <2>1. CASE FitsShadow(r)
    <3> DEFINE v == [pc |-> "exchange", cell |-> r[1], last |-> r[2], word |-> Packed(t, k)]
    <3>1. r[1] \in Cell /\ r[2] \in Cell
      BY <2>1 DEF FitsShadow, Cell
    <3>2. v \in ExchangeCalls
      BY <1>1, <3>1, PackedIs DEF ExchangeCalls
    <3>3. v \in AllCalls
      BY <3>2 DEF AllCalls
    <3> QED BY <1>1, <2>1, <3>3 DEF BeginAccess, BTypeOK
  <2>2. CASE ~FitsShadow(r)
    <3>1. call \in [Thread -> AllCalls]
      BY <1>1, CallTypes DEF AllCalls
    <3>2. call' = [call EXCEPT ![t] = call[t]] /\ beyond' = TRUE
          /\ missed' = missed \cup {<<SubgroupOf(t), c, k>> : c \in r[1] .. r[2]}
      BY <2>2, <3>1 DEF BeginAccess
    <3>3. missed' \subseteq Subgroup \X Nat \X Kinds
      <4>1. r[1] .. r[2] \subseteq Nat
        OBVIOUS
      <4>2. missed \subseteq Subgroup \X Nat \X Kinds
        BY <1>1 DEF BTypeOK
      <4> QED BY <3>2, <4>1, <4>2, SubgroupOfIs
    <3> QED BY <1>1, <3>1, <3>2, <3>3
  <2> QED BY <2>1, <2>2
<1> QED BY <1>1, <1>2, <1>3, TravelInv

LEMMA ExchangeInv ==
  ASSUME BInv, NEW t \in Thread, Exchange(t)
  PROVE  BInv'
<1>1. /\ call[t].pc = "exchange" /\ BTypeOK /\ SubgroupOf(t) \in Subgroup
      /\ UNCHANGED <<host, words, passed, phase, missed, absent, diverged>>
  BY SubgroupOfIs DEF Exchange, BInv, IsAt
<1>2. call[t] \in ExchangeCalls
  BY <1>1, CallTypes DEF SimpleCalls, Simple, CloseCalls, ExchangeCalls
<1>3. call[t].cell \in Cell /\ call[t].last \in Cell /\ call[t].word \in Words
  BY <1>2 DEF ExchangeCalls
<1>4. /\ shadow' = [shadow EXCEPT ![call[t].cell] = call[t].word]
      /\ diagnosed' \subseteq diagnosed \cup {call[t].cell}
      /\ fresh' = fresh \cup {<<SubgroupOf(t), call[t].cell, call[t].word.kind>>}
  BY DEF Exchange
<1>5. /\ shadow' \in [Cell -> {Empty} \cup Words] /\ diagnosed' \subseteq Cell
      /\ fresh' \subseteq Subgroup \X Cell \X Kinds
      /\ UNCHANGED <<host, subgroup_epoch, arrivals, divergences, passed,
                     phase, absent, diverged>>
      /\ short' \in BOOLEAN /\ beyond' \in BOOLEAN
      /\ missed' \subseteq Subgroup \X Nat \X Kinds
  BY <1>1, <1>3, <1>4 DEF BTypeOK, words, Words
<1>6. PICK v \in AllCalls : call' = [call EXCEPT ![t] = v] /\ v.pc \in {"out", "exchange"}
  <2>1. CASE call[t].cell < call[t].last
    <3> DEFINE v == [call[t] EXCEPT !.cell = call[t].cell + 1]
    <3>1. call[t].cell + 1 \in Cell
      BY <1>3, <2>1 DEF Cell
    <3>2. v \in ExchangeCalls
      BY <1>2, <3>1 DEF ExchangeCalls
    <3>3. v \in AllCalls /\ v.pc = "exchange"
      BY <3>2 DEF AllCalls, ExchangeCalls
    <3>4. call' = [call EXCEPT ![t] = v]
      BY <2>1 DEF Exchange
    <3> QED BY <3>3, <3>4
  <2>2. CASE ~(call[t].cell < call[t].last)
    <3>1. Out \in AllCalls /\ Out.pc = "out"
      BY DEF Out, AllCalls, SimpleCalls, Simple
    <3>2. call' = [call EXCEPT ![t] = Out]
      BY <2>2 DEF Exchange
    <3> QED BY <3>1, <3>2
  <2> QED BY <2>1, <2>2
<1> QED BY <1>1, <1>5, <1>6, TravelInv

LEMMA SimpleAt == ASSUME NEW pc \in Simple PROVE At(pc) \in AllCalls /\ At(pc).pc = pc
BY DEF At, AllCalls, SimpleCalls

\* A thread reaches the next barrier of the script, and is counted there or
\* sits it out.
LEMMA ReachInv ==
  ASSUME BInv, NEW t \in Thread, IsAt(t, "out"), passed[t] < MaxBarriers,
         passed' = [passed EXCEPT ![t] = @ + 1], call' = [call EXCEPT ![t] = At("first")],
         UNCHANGED <<host, subgroup_epoch, short, beyond, divergences, shadow, diagnosed,
                     phase, fresh, missed, diverged>>,
         \/ script[passed[t] + 1] = "barrier" /\ UNCHANGED <<arrivals, absent>>
         \/ /\ script[passed[t] + 1] = "simulate"
            /\ \/ arrivals' = arrivals + 1 /\ absent' = absent
               \/ arrivals' = arrivals /\ absent' = absent \cup {t}
  PROVE  BInv'
<1>1. /\ call' \in [Thread -> AllCalls]
      /\ call'[t].pc = "first"
      /\ \A m \in Thread : m # t => call'[m] = call[m]
  BY CallSet, SimpleAt DEF BInv, Simple
<1>2. /\ subgroup_capacity' = subgroup_capacity /\ generation' = generation
      /\ script' = script /\ subgroup_epoch' = subgroup_epoch
      /\ divergences' = divergences /\ phase' = phase /\ diverged' = diverged
      /\ short' = short /\ beyond' = beyond /\ missed' = missed
      /\ shadow' = shadow /\ diagnosed' = diagnosed /\ fresh' = fresh
  BY DEF host
<1>3. BTypeOK /\ passed \in [Thread -> 0 .. MaxBarriers] /\ Level \in Nat /\ passed[t] = Level
  BY DEF BInv, BTypeOK, Levels, Level, IsAt
<1>4. \A m \in Thread : call[m].pc \in OnTheWay /\ call'[m].pc \in OnTheWay
                       /\ (IsAt(m, "first")' <=> m = t \/ IsAt(m, "first"))
  BY <1>1, OnWay DEF OnTheWay, IsAt
<1>5. passed' \in [Thread -> 0 .. MaxBarriers]
      /\ \A m \in Thread : passed'[m] = IF m = t THEN Level + 1 ELSE passed[m]
  BY <1>3
<1>6. Level' = Level /\ Simulates' = Simulates /\ absent \subseteq Thread
      /\ (Simulates <=> script[passed[t] + 1] = "simulate")
  BY <1>2, <1>3 DEF Level, Simulates, BTypeOK
<1>7. t \notin absent /\ ~IsAt(t, "first")
  BY DEF BInv, Counts, IsAt
<1>8. /\ absent' \subseteq Thread /\ \A m \in absent' : IsAt(m, "first")'
      /\ IF Simulates THEN arrivals' = Cardinality(Arrived') ELSE arrivals' = 0 /\ absent' = {}
  <2>1. IF Simulates THEN arrivals = Cardinality(Arrived) ELSE arrivals = 0 /\ absent = {}
    BY <1>4, ZeroThread DEF BInv, Counts
  <2>2. \A m \in absent : IsAt(m, "first")
    BY DEF BInv, Counts
  <2>3. absent' \subseteq Thread /\ \A m \in absent' : IsAt(m, "first")'
    BY <1>4, <1>6, <2>2
  <2>4. CASE script[passed[t] + 1] = "barrier" /\ UNCHANGED <<arrivals, absent>>
    BY <1>6, <2>1, <2>3, <2>4
  <2>5. CASE /\ script[passed[t] + 1] = "simulate"
             /\ arrivals' = arrivals + 1 /\ absent' = absent
    <3>1. Arrived' = Arrived \cup {t} /\ t \notin Arrived /\ Arrived \in SUBSET Thread
      BY <1>4, <1>7, <2>5 DEF Arrived
    <3>2. IsFiniteSet(Arrived)
      BY <3>1, ThreadsFinite
    <3>3. Cardinality(Arrived \cup {t}) = Cardinality(Arrived) + 1
      BY <3>1, <3>2, FS_AddElement
    <3> QED BY <1>6, <2>1, <2>3, <2>5, <3>1, <3>3
  <2>6. CASE /\ script[passed[t] + 1] = "simulate"
             /\ arrivals' = arrivals /\ absent' = absent \cup {t}
    <3>1. Arrived' = Arrived
      BY <1>4, <1>7, <2>6 DEF Arrived
    <3> QED BY <1>6, <2>1, <2>3, <2>6, <3>1
  <2> QED BY <2>4, <2>5, <2>6
<1>9. arrivals' \in 0 .. ThreadCount
  <2>1. Arrived' \in SUBSET Thread
    BY DEF Arrived
  <2>2. Cardinality(Arrived') \in 0 .. ThreadCount
    BY <2>1, ThreadsFinite
  <2>3. arrivals' = Cardinality(Arrived') \/ arrivals' = 0
    BY <1>8
  <2> QED BY <2>2, <2>3
<1>10. BTypeOK'
  BY <1>1, <1>2, <1>3, <1>5, <1>8, <1>9
     DEF BTypeOK, AllCalls, SimpleCalls, Simple, CloseCalls, ExchangeCalls
<1>11. Modes'
  BY <1>4 DEF Modes
<1>12. Levels'
  BY <1>4, <1>5, <1>6, <1>7 DEF BInv, Levels
<1>13. Counts'
  BY <1>2, <1>4, <1>6, <1>8, ZeroThread DEF BInv, Counts, OnTheWay, IsAt
<1>14. Epochs'
  BY <1>2, <1>4, ZeroThread DEF BInv, Epochs, OnTheWay, IsAt
<1> QED BY <1>10, <1>11, <1>12, <1>13, <1>14 DEF BInv

LEMMA CallOfInv ==
  ASSUME BInv, NEW t \in Thread, CallOf(t)
  PROVE  BInv'
<1>1. CASE CallBarrier(t)
  BY <1>1, ReachInv DEF CallBarrier, words, truth
<1>2. CASE \E participates \in BOOLEAN : CallSimulate(t, participates)
  BY <1>2, ReachInv DEF CallSimulate, AbsenteeGoes
<1> QED BY <1>1, <1>2 DEF CallOf

\* Thread 0 works while the others wait.
LEMMA WorkInv ==
  ASSUME BInv, call[0].pc \in AtWork, NEW v \in AllCalls, v.pc \in AtWork,
         call' = [call EXCEPT ![0] = v],
         UNCHANGED <<host, shadow, diagnosed, passed, truth>>,
         subgroup_epoch' \in [Subgroup -> 0 .. MaxBarriers], arrivals' \in 0 .. ThreadCount,
         short' \in BOOLEAN, beyond' \in BOOLEAN, divergences' \in 0 .. MaxBarriers
  PROVE  /\ BTypeOK' /\ Modes' /\ Levels' /\ call'[0] = v
         /\ subgroup_capacity' = subgroup_capacity /\ script' = script /\ passed' = passed
         /\ phase' = phase /\ diverged' = diverged /\ Level' = Level
         /\ absent = {} /\ absent' = {}
<1>1. /\ call' \in [Thread -> AllCalls] /\ call'[0] = v
      /\ \A m \in Thread : m # 0 => call'[m] = call[m]
  BY CallSet, ZeroThread DEF BInv
<1>2. \A t \in Thread \ {0} : IsAt(t, "second")
  BY Waiting
<1>3. /\ subgroup_capacity' = subgroup_capacity /\ generation' = generation
      /\ script' = script /\ passed' = passed /\ shadow' = shadow
      /\ diagnosed' = diagnosed /\ phase' = phase /\ fresh' = fresh /\ missed' = missed
      /\ diverged' = diverged /\ absent' = absent
  BY DEF host, truth
<1>4. BTypeOK'
  BY <1>1, <1>3
     DEF BInv, BTypeOK, AllCalls, SimpleCalls, Simple, CloseCalls, ExchangeCalls
<1>5. Modes'
  BY <1>1, <1>2 DEF Modes, IsAt
<1>6. \A t \in Thread : call[t].pc # "first" /\ call'[t].pc # "first"
  BY <1>1, <1>2 DEF IsAt, AtWork
<1>7. Levels' /\ Level' = Level
  BY <1>3, <1>6 DEF BInv, Levels, Level, IsAt
<1>8. absent = {}
  BY <1>6 DEF BInv, BTypeOK, Counts, IsAt
<1> QED BY <1>1, <1>3, <1>4, <1>5, <1>7, <1>8

LEMMA ClearMetadataInv ==
  ASSUME BInv, ClearMetadata
  PROVE  BInv'
<1>1. /\ call[0].pc = "clear" /\ call' = [call EXCEPT ![0] = At("second")]
      /\ UNCHANGED <<host, shadow, diagnosed, passed, truth>>
      /\ arrivals' = 0 /\ divergences' = 0
      /\ short' \in BOOLEAN /\ beyond' \in BOOLEAN
      /\ subgroup_epoch' = EpochsAtStart /\ BTypeOK
  BY DEF ClearMetadata, IsAt, Fits, BInv
<1>2. phase = 0 /\ diverged = 0
  BY <1>1 DEF BInv, BTypeOK, Counts, Level, IsAt
<1>3. /\ subgroup_epoch' \in [Subgroup -> 0 .. MaxBarriers]
      /\ \A s \in Subgroup : s < subgroup_capacity => subgroup_epoch'[s] = 0
  BY <1>1 DEF EpochsAtStart, BTypeOK
<1>4. /\ BTypeOK' /\ Modes' /\ Levels' /\ call'[0] = At("second")
      /\ subgroup_capacity' = subgroup_capacity
      /\ phase' = phase /\ diverged' = diverged /\ absent' = {}
  <2>1. At("second") \in AllCalls /\ At("second").pc = "second"
    BY SimpleAt DEF Simple
  <2>2. arrivals' \in 0 .. ThreadCount /\ divergences' \in 0 .. MaxBarriers
    BY <1>1
  <2> QED BY <1>1, <1>3, <2>1, <2>2, WorkInv DEF AtWork
<1>5. call'[0].pc = "second"
  BY <1>4 DEF At
<1>6. Counts'
  BY <1>1, <1>2, <1>4, <1>5 DEF Counts, OnTheWay, IsAt
<1>7. Epochs'
  BY <1>2, <1>3, <1>4, <1>5 DEF Epochs, IsAt
<1> QED BY <1>4, <1>6, <1>7 DEF BInv

LEMMA CountArrivalsInv ==
  ASSUME Configured, BInv, CountArrivals
  PROVE  BInv'
<1>1. /\ call[0].pc = "count" /\ BTypeOK /\ Counts /\ Epochs
      /\ UNCHANGED <<host, shadow, diagnosed, passed, truth>>
      /\ subgroup_epoch' = subgroup_epoch /\ arrivals' = arrivals
      /\ short' = short /\ beyond' = beyond
  BY DEF CountArrivals, IsAt, BInv
<1>2. /\ diverged = IF arrivals = ThreadCount THEN divergences ELSE divergences + 1
      /\ \A s \in Subgroup : s < subgroup_capacity =>
           phase = IF arrivals = ThreadCount THEN subgroup_epoch[s] + 1 ELSE subgroup_epoch[s]
  BY <1>1 DEF Counts, Epochs, IsAt
<1>3. CASE arrivals = ThreadCount
  <2>1. call' = [call EXCEPT ![0] = Close] /\ divergences' = divergences
    BY <1>3 DEF CountArrivals, Configured
  <2>2. Close \in AllCalls /\ Close.pc = "close" /\ Close.next = 0
    BY DEF Close, AllCalls, CloseCalls
  <2>3. /\ BTypeOK' /\ Modes' /\ Levels' /\ call'[0] = Close
        /\ subgroup_capacity' = subgroup_capacity
        /\ phase' = phase /\ diverged' = diverged /\ absent' = {}
    BY <1>1, <2>1, <2>2, WorkInv DEF AtWork, BTypeOK
  <2>4. Called(0)' = "simulate"
    <3>1. Called(0)' = Called(0)
      BY <1>1 DEF Called, host
    <3> QED BY <1>1, <3>1 DEF Counts, IsAt
  <2>5. Counts'
    BY <1>2, <1>3, <2>1, <2>2, <2>3, <2>4 DEF Counts, OnTheWay, IsAt
  <2>6. Epochs'
    BY <1>1, <1>2, <1>3, <2>2, <2>3 DEF Epochs, IsAt, Subgroup
  <2> QED BY <2>3, <2>5, <2>6 DEF BInv
<1>4. CASE arrivals # ThreadCount
  <2>1. call' = [call EXCEPT ![0] = At("reset")] /\ divergences' = divergences + 1
    BY <1>4 DEF CountArrivals, Configured
  <2>2. At("reset") \in AllCalls /\ At("reset").pc = "reset"
    BY SimpleAt DEF Simple
  <2>3. divergences' = diverged /\ divergences' \in 0 .. MaxBarriers
    BY <1>1, <1>2, <1>4, <2>1 DEF BTypeOK
  <2>4. /\ BTypeOK' /\ Modes' /\ Levels' /\ call'[0] = At("reset")
        /\ subgroup_capacity' = subgroup_capacity
        /\ phase' = phase /\ diverged' = diverged /\ absent' = {}
    BY <1>1, <2>1, <2>2, <2>3, WorkInv DEF AtWork, BTypeOK
  <2>5. Counts'
    BY <2>2, <2>3, <2>4 DEF Counts, OnTheWay, IsAt
  <2>6. Epochs'
    BY <1>1, <1>2, <1>4, <2>2, <2>4 DEF Epochs, IsAt
  <2> QED BY <2>4, <2>5, <2>6 DEF BInv
<1> QED BY <1>3, <1>4

LEMMA CloseEpochInv ==
  ASSUME BInv, CloseEpoch
  PROVE  BInv'
<1> DEFINE next == call[0].next
<1>1. /\ call[0].pc = "close" /\ BTypeOK /\ Counts /\ Epochs
      /\ UNCHANGED <<host, shadow, diagnosed, passed, truth>>
      /\ arrivals' = arrivals /\ short' = short /\ beyond' = beyond
      /\ divergences' = divergences /\ divergences = diverged /\ next \in 0 .. SubgroupCount
  <2>1. call[0].pc = "close" /\ BTypeOK /\ Counts /\ Epochs
    BY DEF CloseEpoch, IsAt, BInv
  <2>2. call[0] \in CloseCalls
    BY <2>1, ZeroThread, CallTypes DEF SimpleCalls, Simple, CloseCalls, ExchangeCalls
  <2>3. next \in 0 .. SubgroupCount
    BY <2>2 DEF CloseCalls
  <2> QED BY <2>1, <2>3 DEF CloseEpoch, Counts
<1>2. \A s \in Subgroup : s < subgroup_capacity =>
        phase = IF s < next THEN subgroup_epoch[s] ELSE subgroup_epoch[s] + 1
  BY <1>1 DEF Epochs, IsAt
<1>3. /\ subgroup_capacity \in Nat /\ phase \in 0 .. MaxBarriers
      /\ subgroup_epoch \in [Subgroup -> 0 .. MaxBarriers]
  BY <1>1 DEF BTypeOK
<1>4. Called(0)' = Called(0)
  BY <1>1 DEF Called, host
<1>5. CASE next < StoredCount
  <2> DEFINE v == [call[0] EXCEPT !.next = next + 1]
  <2>1. next \in Subgroup /\ next < subgroup_capacity /\ next + 1 \in 0 .. SubgroupCount
    <3>1. next \in Nat /\ StoredCount \in Nat
      BY <1>1, <1>3 DEF StoredCount, BarrierAssumption
    <3>2. StoredCount <= SubgroupCount /\ StoredCount <= subgroup_capacity
      BY <1>3 DEF StoredCount, BarrierAssumption
    <3> QED BY <1>3, <1>5, <3>1, <3>2 DEF Subgroup, BarrierAssumption
  <2>2. v \in AllCalls /\ v.pc = "close" /\ v.next = next + 1
    <3>1. call[0] \in CloseCalls
      BY <1>1, ZeroThread, CallTypes DEF SimpleCalls, Simple, CloseCalls, ExchangeCalls
    <3> QED BY <2>1, <3>1 DEF AllCalls, CloseCalls
  <2>3. /\ subgroup_epoch' = [subgroup_epoch EXCEPT ![next] = @ + 1]
        /\ call' = [call EXCEPT ![0] = v]
    BY <1>5 DEF CloseEpoch, LastToClose
  <2>4. phase = subgroup_epoch[next] + 1
    BY <1>1, <1>2, <2>1
  <2>5. subgroup_epoch' \in [Subgroup -> 0 .. MaxBarriers]
    BY <1>3, <2>1, <2>3, <2>4
  <2> HIDE DEF v
  <2>6. /\ BTypeOK' /\ Modes' /\ Levels' /\ call'[0] = v
        /\ subgroup_capacity' = subgroup_capacity
        /\ phase' = phase /\ diverged' = diverged /\ absent' = {}
    BY <1>1, <2>2, <2>3, <2>5, WorkInv DEF AtWork, BTypeOK
  <2>7. Counts'
    BY <1>1, <1>4, <2>2, <2>6 DEF Counts, OnTheWay, IsAt
  <2>8. Epochs'
    <3> SUFFICES ASSUME NEW s \in Subgroup, s < subgroup_capacity
                 PROVE  phase = IF s < next + 1 THEN subgroup_epoch'[s]
                                ELSE subgroup_epoch'[s] + 1
      BY <2>2, <2>6 DEF Epochs, IsAt
    <3>1. CASE s = next
      BY <1>1, <1>3, <2>1, <2>3, <2>4, <3>1
    <3>2. CASE s # next
      <4>1. subgroup_epoch'[s] = subgroup_epoch[s] /\ s \in Int
        BY <1>3, <2>3, <3>2 DEF Subgroup
      <4>2. s < next + 1 <=> s < next
        BY <1>1, <3>2, <4>1
      <4> QED BY <1>2, <4>1, <4>2
    <3> QED BY <3>1, <3>2
  <2> QED BY <2>6, <2>7, <2>8 DEF BInv
<1>6. CASE ~(next < StoredCount)
  <2> DEFINE v == At(IF Called(0) = "simulate" THEN "reset" ELSE "second")
  <2>1. v \in AllCalls /\ v.pc = IF Called(0) = "simulate" THEN "reset" ELSE "second"
    BY SimpleAt DEF Simple
  <2>2. /\ subgroup_epoch' = subgroup_epoch /\ call' = [call EXCEPT ![0] = v]
    BY <1>6 DEF CloseEpoch, LastToClose
  <2> HIDE DEF v
  <2>3. /\ BTypeOK' /\ Modes' /\ Levels' /\ call'[0] = v
        /\ subgroup_capacity' = subgroup_capacity
        /\ phase' = phase /\ diverged' = diverged /\ absent' = {}
    BY <1>1, <2>1, <2>2, WorkInv DEF AtWork, BTypeOK
  <2>4. Counts'
    BY <1>1, <2>1, <2>3 DEF Counts, OnTheWay, IsAt
  <2>5. \A s \in Subgroup : s < subgroup_capacity => s < next
    BY <1>1, <1>3, <1>6 DEF StoredCount, Subgroup
  <2>6. Epochs'
    BY <1>2, <2>1, <2>2, <2>3, <2>5 DEF Epochs, IsAt
  <2> QED BY <2>3, <2>4, <2>6 DEF BInv
<1> QED BY <1>5, <1>6

LEMMA ResetCountInv ==
  ASSUME BInv, ResetCount
  PROVE  BInv'
<1>1. /\ call[0].pc = "reset" /\ BTypeOK /\ Counts /\ Epochs
      /\ call' = [call EXCEPT ![0] = At("second")]
      /\ UNCHANGED <<host, shadow, diagnosed, passed, truth>>
      /\ arrivals' = 0 /\ short' = short /\ beyond' = beyond /\ divergences' = divergences
      /\ subgroup_epoch' = subgroup_epoch
  BY DEF ResetCount, CountAfter, IsAt, BInv
<1>2. At("second") \in AllCalls /\ At("second").pc = "second"
  BY SimpleAt DEF Simple
<1>3. arrivals' \in 0 .. ThreadCount
  BY <1>1
<1>4. /\ BTypeOK' /\ Modes' /\ Levels' /\ call'[0] = At("second")
      /\ subgroup_capacity' = subgroup_capacity
      /\ phase' = phase /\ diverged' = diverged /\ absent' = {}
  BY <1>1, <1>2, <1>3, WorkInv DEF AtWork, BTypeOK
<1>5. Counts'
  BY <1>1, <1>2, <1>4 DEF Counts, OnTheWay, IsAt
<1>6. Epochs'
  BY <1>1, <1>2, <1>4 DEF Epochs, IsAt
<1> QED BY <1>4, <1>5, <1>6 DEF BInv

-------------------------------------------------------------------------------
\* The native barriers and the launch

LEMMA WorkFromIs ==
  ASSUME NEW v \in AllCalls
  PROVE  /\ WorkFrom(v) \in [Thread -> AllCalls] /\ WorkFrom(v)[0] = v
         /\ \A t \in Thread \ {0} : WorkFrom(v)[t].pc = "second"
BY ZeroThread, SimpleAt DEF WorkFrom, At, Simple

LEMMA FirstSyncInv ==
  ASSUME BInv, FirstSync
  PROVE  BInv'
<1> DEFINE v == IF Called(0) = "simulate" THEN At("count") ELSE Close
<1>1. /\ \A t \in Thread : IsAt(t, "first")
      /\ call' = WorkFrom(v) /\ absent' = {}
      /\ IF absent = {}
         THEN phase' = phase + 1 /\ fresh' = {} /\ missed' = {} /\ diagnosed' = {}
              /\ diverged' = diverged
         ELSE diverged' = diverged + 1 /\ phase' = phase /\ fresh' = fresh /\ missed' = missed
              /\ diagnosed' = diagnosed
      /\ subgroup_capacity' = subgroup_capacity /\ generation' = generation
      /\ script' = script /\ subgroup_epoch' = subgroup_epoch /\ arrivals' = arrivals
      /\ short' = short /\ beyond' = beyond /\ divergences' = divergences
      /\ shadow' = shadow /\ passed' = passed /\ BTypeOK /\ Levels /\ Counts /\ Epochs
  BY DEF FirstSync, AllAt, BehindFirst, host, words, BInv
<1>2. /\ v \in AllCalls /\ v.pc = (IF Called(0) = "simulate" THEN "count" ELSE "close")
      /\ v.pc = "close" => v.next = 0
  BY SimpleAt DEF Simple, Close, AllCalls, CloseCalls
<1> HIDE DEF v
<1>3. /\ call' \in [Thread -> AllCalls] /\ call'[0] = v
      /\ \A t \in Thread \ {0} : call'[t].pc = "second"
  BY <1>1, <1>2, WorkFromIs
<1>4. /\ Level \in Nat /\ Level' = Level + 1 /\ Level' \in 0 .. MaxBarriers
      /\ \A t \in Thread : passed[t] = Level + 1
      /\ phase \in Nat /\ diverged \in Nat
  BY <1>1, ZeroThread DEF Level, Levels, BTypeOK
<1>5. BTypeOK'
  <2>1. phase' \in 0 .. MaxBarriers /\ diverged' \in 0 .. MaxBarriers
    BY <1>1, <1>4 DEF Level
  <2> QED BY <1>1, <1>3, <2>1
          DEF BTypeOK, AllCalls, SimpleCalls, Simple, CloseCalls, ExchangeCalls
<1>6. Modes'
  BY <1>2, <1>3 DEF Modes, AtWork, IsAt
<1>7. Levels'
  BY <1>1, <1>2, <1>3, <1>4 DEF Levels, IsAt
<1>8. /\ Called(0)' = Called(0) /\ (Simulates <=> Called(0) = "simulate")
      /\ divergences = diverged
      /\ \A s \in Subgroup : s < subgroup_capacity => phase = subgroup_epoch[s]
  <2>1. Called(0)' = Called(0) /\ Called(0) = script[Level + 1]
    BY <1>1, <1>4, ZeroThread DEF Called
  <2>2. Level < MaxBarriers
    BY <1>1, <1>4
  <2>3. IsAt(0, "first")
    BY <1>1, ZeroThread
  <2> QED BY <1>1, <2>1, <2>2, <2>3 DEF Simulates, Counts, Epochs, IsAt
<1>9. CASE Called(0) = "simulate"
  <2>1. arrivals = ThreadCount <=> absent = {}
    <3>1. Arrived = Thread \ absent /\ Arrived \in SUBSET Thread /\ absent \subseteq Thread
      BY <1>1 DEF Arrived, BTypeOK
    <3>2. arrivals = Cardinality(Arrived)
      BY <1>1, <1>8, <1>9, ZeroThread DEF Counts, OnTheWay, IsAt
    <3>3. Cardinality(Arrived) = ThreadCount => Arrived = Thread
      BY <3>1, ThreadsFinite
    <3>4. absent = {} => Arrived = Thread
      BY <3>1
    <3> QED BY <3>1, <3>2, <3>3, <3>4, ThreadsFinite
  <2>2. Counts'
    BY <1>1, <1>2, <1>3, <1>4, <1>8, <1>9, <2>1 DEF Counts, OnTheWay, IsAt
  <2>3. Epochs'
    BY <1>1, <1>2, <1>3, <1>8, <1>9, <2>1 DEF Epochs, IsAt
  <2> QED BY <1>5, <1>6, <1>7, <2>2, <2>3 DEF BInv
<1>10. CASE Called(0) # "simulate"
  <2>1. arrivals = 0 /\ absent = {}
    BY <1>1, <1>8, <1>10, ZeroThread DEF Counts, OnTheWay, IsAt
  <2>2. Counts'
    BY <1>1, <1>2, <1>3, <1>8, <1>10, <2>1 DEF Counts, OnTheWay, IsAt
  <2>3. Epochs'
    <3> SUFFICES ASSUME NEW s \in Subgroup, s < subgroup_capacity
                 PROVE  phase + 1 = subgroup_epoch[s] + 1 /\ ~(s < 0)
      BY <1>1, <1>2, <1>3, <1>10, <2>1 DEF Epochs, IsAt
    <3> QED BY <1>8 DEF Subgroup
  <2> QED BY <1>5, <1>6, <1>7, <2>2, <2>3 DEF BInv
<1> QED BY <1>9, <1>10

LEMMA SecondSyncInv ==
  ASSUME BInv, SecondSync
  PROVE  BInv'
<1>1. /\ \A t \in Thread : IsAt(t, "second")
      /\ call' = [t \in Thread |-> Out]
      /\ subgroup_capacity' = subgroup_capacity /\ generation' = generation
      /\ script' = script /\ subgroup_epoch' = subgroup_epoch /\ arrivals' = arrivals
      /\ short' = short /\ beyond' = beyond /\ divergences' = divergences
      /\ shadow' = shadow /\ passed' = passed /\ diagnosed' = diagnosed
      /\ phase' = phase /\ fresh' = fresh /\ missed' = missed
      /\ absent' = absent /\ diverged' = diverged
      /\ BTypeOK /\ Levels /\ Counts /\ Epochs
  BY DEF SecondSync, AllAt, host, words, truth, BInv
<1>2. Out \in AllCalls /\ Out.pc = "out"
  BY DEF Out, AllCalls, SimpleCalls, Simple
<1>3. call' \in [Thread -> AllCalls] /\ \A t \in Thread : call'[t].pc = "out"
  BY <1>1, <1>2
<1>4. BTypeOK'
  BY <1>1, <1>3 DEF BTypeOK, AllCalls, SimpleCalls, Simple, CloseCalls, ExchangeCalls
<1>5. Modes'
  BY <1>3 DEF Modes, OnTheWay
<1>6. Levels'
  BY <1>1, <1>3 DEF Levels, Level, IsAt
<1>7. /\ arrivals = 0 /\ divergences = diverged /\ absent = {}
      /\ \A s \in Subgroup : s < subgroup_capacity => phase = subgroup_epoch[s]
  BY <1>1, ZeroThread DEF BTypeOK, Counts, Epochs, IsAt
<1>8. Cardinality(Arrived') = 0
  <2>1. \A t \in Thread : ~IsAt(t, "first")'
    BY <1>3 DEF IsAt
  <2>2. Arrived' = {}
    BY <2>1 DEF Arrived
  <2> QED BY <2>2, FS_EmptySet
<1>9. Counts'
  BY <1>1, <1>3, <1>7, <1>8, ZeroThread DEF Counts, IsAt
<1>10. Epochs'
  BY <1>1, <1>3, <1>7, ZeroThread DEF Epochs, IsAt
<1> QED BY <1>4, <1>5, <1>6, <1>9, <1>10 DEF BInv

\* Every launch begins with thread 0 at work in init_workgroup.
LEMMA LaunchInv ==
  ASSUME BInv, Launch
  PROVE  BInv'
<1>1. /\ call' = WorkFrom(At("clear")) /\ passed' = [t \in Thread |-> 0]
      /\ generation' = generation + 1 /\ generation < MaxLaunch /\ script' \in Scripts
      /\ diagnosed' = {} /\ phase' = 0 /\ fresh' = {} /\ missed' = {}
      /\ absent' = {} /\ diverged' = 0
      /\ subgroup_capacity' = subgroup_capacity /\ subgroup_epoch' = subgroup_epoch
      /\ arrivals' = arrivals /\ short' = short /\ beyond' = beyond /\ divergences' = divergences
      /\ shadow' = shadow /\ BTypeOK
  BY DEF Launch, words, BInv
<1>2. At("clear") \in AllCalls /\ At("clear").pc = "clear"
  BY SimpleAt DEF Simple
<1>3. /\ call' \in [Thread -> AllCalls] /\ call'[0].pc = "clear"
      /\ \A t \in Thread \ {0} : call'[t].pc = "second"
  BY <1>1, <1>2, WorkFromIs
<1>4. BTypeOK'
  <2>1. generation' \in 1 .. MaxLaunch /\ 0 \in 0 .. MaxBarriers
    BY <1>1 DEF BTypeOK
  <2> QED BY <1>1, <1>3, <2>1
          DEF BTypeOK, AllCalls, SimpleCalls, Simple, CloseCalls, ExchangeCalls
<1>5. Modes'
  BY <1>3 DEF Modes, AtWork, IsAt
<1>6. Levels' /\ Level' = 0
  <2>1. \A t \in Thread : call'[t].pc # "first" /\ passed'[t] = 0
    BY <1>1, <1>3
  <2>2. Level' = 0
    BY <1>1 DEF Level
  <2> QED BY <2>1, <2>2 DEF Levels, IsAt
<1>7. Counts'
  BY <1>1, <1>3, <1>6 DEF Counts, OnTheWay, IsAt
<1>8. Epochs'
  BY <1>3 DEF Epochs, IsAt
<1> QED BY <1>4, <1>5, <1>6, <1>7, <1>8 DEF BInv

LEMMA BInitInv == Init => BInv
<1> SUFFICES ASSUME Init
             PROVE  BInv
  OBVIOUS
<1>1. At("clear") \in AllCalls /\ At("clear").pc = "clear"
  BY SimpleAt DEF Simple
<1>2. /\ call \in [Thread -> AllCalls] /\ call[0].pc = "clear"
      /\ \A t \in Thread \ {0} : call[t].pc = "second"
  BY <1>1, WorkFromIs DEF Init
<1>3. BTypeOK
  <2>1. 0 \in 0 .. MaxBarriers /\ 0 \in 0 .. ThreadCount /\ 1 \in 1 .. MaxLaunch
    OBVIOUS
  <2> QED BY <1>2, <2>1
          DEF Init, BTypeOK, AllCalls, SimpleCalls, Simple, CloseCalls, ExchangeCalls
<1>4. Modes
  BY <1>2 DEF Modes, AtWork, IsAt
<1>5. Levels /\ Level = 0
  <2>1. \A t \in Thread : call[t].pc # "first" /\ passed[t] = 0
    BY <1>2 DEF Init
  <2>2. Level = 0
    BY DEF Init, Level
  <2> QED BY <2>1, <2>2 DEF Levels, IsAt
<1>6. Counts
  BY <1>2, <1>5 DEF Init, Counts, OnTheWay, IsAt
<1>7. Epochs
  BY <1>2 DEF Epochs, IsAt
<1> QED BY <1>3, <1>4, <1>5, <1>6, <1>7 DEF BInv

LEMMA BNextInv ==
  ASSUME Configured, BInv, [Next]_vars
  PROVE  BInv'
<1>1. CASE \E t \in Thread, r \in Ranges, k \in Kinds : BeginAccess(t, r, k)
  BY <1>1, BeginAccessInv
<1>2. CASE \E t \in Thread : Exchange(t) \/ CallOf(t)
  BY <1>2, ExchangeInv, CallOfInv
<1>3. CASE Work
  BY <1>3, ClearMetadataInv, CountArrivalsInv, CloseEpochInv, ResetCountInv DEF Work
<1>4. CASE Sync
  BY <1>4, FirstSyncInv, SecondSyncInv DEF Sync
<1>5. CASE Launch
  BY <1>5, LaunchInv
<1>6. CASE UNCHANGED vars
  <2>1. /\ subgroup_capacity' = subgroup_capacity /\ generation' = generation
        /\ script' = script /\ subgroup_epoch' = subgroup_epoch /\ arrivals' = arrivals
        /\ short' = short /\ beyond' = beyond /\ divergences' = divergences
        /\ shadow' = shadow /\ passed' = passed /\ diagnosed' = diagnosed /\ call' = call
        /\ phase' = phase /\ fresh' = fresh /\ missed' = missed
      /\ absent' = absent /\ diverged' = diverged
    BY <1>6 DEF vars, host, words, truth
  <2>2. BTypeOK'
    BY <2>1 DEF BInv, BTypeOK
  <2>3. Modes' /\ Levels' /\ Epochs'
    BY <2>1 DEF BInv, Modes, Levels, Level, Epochs, IsAt
  <2>4. Counts'
    BY <2>1 DEF BInv, Counts, Arrived, Simulates, Level, Called, IsAt
  <2> QED BY <2>2, <2>3, <2>4 DEF BInv
<1> QED BY <1>1, <1>2, <1>3, <1>4, <1>5, <1>6 DEF Next

\* The inductive invariant of the barriers.
THEOREM BarrierInvariance ==
  ASSUME Configured
  PROVE  Spec => []BInv
<1>1. BInv /\ [Next]_vars => BInv'
  BY BNextInv
<1> QED BY <1>1, BInitInv, PTL DEF Spec

\* Every variable keeps its range.
THEOREM BarriersTypeCorrect ==
  ASSUME Configured
  PROVE  Spec => []BTypeOK
<1>1. BInv => BTypeOK
  BY DEF BInv
<1> QED BY <1>1, BarrierInvariance, PTL

\* Outside of barriers every subgroup's epoch is the number of barriers that
\* all threads took part in (context.hpp:524-545, 1527-1541).
THEOREM EpochsKeepStep ==
  ASSUME Configured
  PROVE  Spec => []EpochsInStep
<1>1. BInv => EpochsInStep
  <2> SUFFICES ASSUME BInv, Fits, NEW t \in Thread, IsAt(t, "out"), NEW s \in Subgroup
               PROVE  CurrentEpoch(s) = phase
    BY DEF EpochsInStep
  <2>1. call[0].pc \in OnTheWay
    BY OnWay, ZeroThread DEF IsAt, OnTheWay
  <2>2. s < subgroup_capacity
    BY DEF BInv, BTypeOK, Fits, Subgroup
  <2> QED BY <2>1, <2>2 DEF BInv, Epochs, OnTheWay, IsAt, CurrentEpoch
<1> QED BY <1>1, BarrierInvariance, PTL

\* Every simulated barrier some thread sat out has been reported when a thread
\* is out of it, and no other (context.hpp:481-506).
THEOREM DivergenceIsTold ==
  ASSUME Configured
  PROVE  Spec => []DivergenceTold
<1>1. BInv => DivergenceTold
  BY OnWay, ZeroThread DEF BInv, Counts, DivergenceTold, OnTheWay, IsAt
<1> QED BY <1>1, BarrierInvariance, PTL

-------------------------------------------------------------------------------
\* What the shadow tells, as long as nothing in a word wraps.

NoWrap ==
  /\ SubgroupCount <= OwnerModulus
  /\ MaxBarriers < EpochModulus
  /\ MaxLaunch < GenerationModulus

\* The word of an access tells the launch and the phase.
LEMMA PackedTells ==
  ASSUME NoWrap, BInv, Fits, NEW t \in Thread, IsAt(t, "out"), NEW k \in Kinds
  PROVE  /\ Tells(Packed(t, k), generation, phase)
         /\ Packed(t, k).owner = SubgroupOf(t) /\ Packed(t, k).kind = k
<1>1. SubgroupOf(t) \in Subgroup
  BY SubgroupOfIs
<1>2. CurrentEpoch(SubgroupOf(t)) = phase
  <2>1. call[0].pc \in OnTheWay
    BY OnWay, ZeroThread DEF IsAt, OnTheWay
  <2>2. SubgroupOf(t) < subgroup_capacity
    BY <1>1 DEF BInv, BTypeOK, Fits, Subgroup
  <2> QED BY <1>1, <2>1, <2>2 DEF BInv, Epochs, OnTheWay, IsAt, CurrentEpoch
<1>3. /\ phase \in Nat /\ phase < EpochModulus
      /\ generation \in Nat /\ generation < GenerationModulus
  BY DEF BInv, BTypeOK, NoWrap
<1>4. phase % EpochModulus = phase /\ generation % GenerationModulus = generation
  BY <1>3, ModIs
<1>5. SubgroupOf(t) % OwnerModulus = SubgroupOf(t)
  <2>1. SubgroupOf(t) \in Nat /\ SubgroupOf(t) < OwnerModulus
    BY <1>1 DEF Subgroup, NoWrap
  <2> QED BY <2>1, ModIs
<1> QED BY <1>2, <1>4, <1>5 DEF Packed, Tells

\* What an exchange does.
LEMMA ExchangeIs ==
  ASSUME BInv, NEW t \in Thread, Exchange(t)
  PROVE  /\ IsAt(t, "exchange") /\ call[t].cell \in Cell /\ call[t].word \in Words
         /\ shadow' = [shadow EXCEPT ![call[t].cell] = call[t].word]
         /\ diagnosed' = IF WordsConflict(call[t].word, shadow[call[t].cell])
                         THEN diagnosed \cup {call[t].cell} ELSE diagnosed
         /\ fresh' = fresh \cup {<<SubgroupOf(t), call[t].cell, call[t].word.kind>>}
         /\ generation' = generation /\ phase' = phase
         /\ \A m \in Thread : IsAt(m, "exchange")' =>
              IsAt(m, "exchange") /\ call'[m].word = call[m].word
<1>1. BTypeOK /\ call[t].pc = "exchange"
  BY DEF BInv, Exchange, IsAt
<1>2. call \in [Thread -> AllCalls] /\ call[t] \in ExchangeCalls
  BY <1>1, CallTypes DEF AllCalls, SimpleCalls, Simple, CloseCalls, ExchangeCalls
<1>3. call' = [call EXCEPT ![t] = IF call[t].cell < call[t].last
                                  THEN [call[t] EXCEPT !.cell = call[t].cell + 1] ELSE Out]
  BY DEF Exchange
<1>4. [call[t] EXCEPT !.cell = call[t].cell + 1].word = call[t].word
  BY <1>2 DEF ExchangeCalls
<1>5. Out.pc = "out"
  BY DEF Out
<1>6. \A m \in Thread : IsAt(m, "exchange")' =>
        IsAt(m, "exchange") /\ call'[m].word = call[m].word
  <2>1. call'[t].pc = "exchange" => call'[t].word = call[t].word
    <3>1. call'[t] = IF call[t].cell < call[t].last
                     THEN [call[t] EXCEPT !.cell = call[t].cell + 1] ELSE Out
      BY <1>2, <1>3
    <3> QED BY <1>4, <1>5, <3>1
  <2>2. \A m \in Thread : m # t => call'[m] = call[m]
    BY <1>2, <1>3
  <2> QED BY <1>1, <2>1, <2>2 DEF IsAt
<1> QED BY <1>1, <1>2, <1>6 DEF Exchange, ExchangeCalls, IsAt, host

\* A step that touches neither the shadow nor the phase.
LEMMA ShadowUntouched ==
  ASSUME SInv, UNCHANGED <<shadow, generation, phase, fresh>>,
         \A m \in Thread : IsAt(m, "exchange")' => call'[m] = call[m]
  PROVE  SInv'
BY DEF SInv, Past, Tells, IsAt

LEMMA ExchangeSInv ==
  ASSUME BInv, SInv, NEW t \in Thread, Exchange(t)
  PROVE  SInv'
<1> DEFINE c == call[t].cell
           word == call[t].word
<1>1. /\ c \in Cell /\ word \in Words /\ Tells(word, generation, phase)
      /\ word.owner = SubgroupOf(t)
      /\ shadow' = [shadow EXCEPT ![c] = word]
      /\ fresh' = fresh \cup {<<SubgroupOf(t), c, word.kind>>}
      /\ generation' = generation /\ phase' = phase
      /\ generation \in Nat /\ phase \in Nat
  BY ExchangeIs DEF SInv, BInv, BTypeOK
<1>2. (\A m \in Thread : IsAt(m, "exchange") =>
         Tells(call[m].word, generation, phase) /\ call[m].word.owner = SubgroupOf(m))'
  BY <1>1, ExchangeIs DEF SInv, Tells
<1>3. \A d \in Cell : Past(d)'
  <2> SUFFICES ASSUME NEW d \in Cell
               PROVE  Past(d)'
    OBVIOUS
  <2> HIDE DEF c, word
  <2>1. shadow \in [Cell -> {Empty} \cup Words]
    BY DEF BInv, BTypeOK
  <2>2. CASE d = c
    <3>1. shadow'[d] = word
      BY <1>1, <2>1, <2>2
    <3> QED BY <1>1, <2>2, <3>1 DEF Past, Tells
  <2>3. CASE d # c
    <3>1. shadow'[d] = shadow[d]
      BY <1>1, <2>1, <2>3
    <3> QED BY <1>1, <3>1 DEF SInv, Past, Tells
  <2> QED BY <2>2, <2>3
<1> QED BY <1>2, <1>3 DEF SInv

LEMMA BeginAccessSInv ==
  ASSUME NoWrap, BInv, Fits, SInv, NEW t \in Thread, NEW r \in Ranges, NEW k \in Kinds,
         BeginAccess(t, r, k)
  PROVE  SInv'
<1>1. /\ IsAt(t, "out") /\ UNCHANGED <<shadow, generation, phase, fresh>>
      /\ call \in [Thread -> AllCalls]
  BY CallTypes DEF BeginAccess, host, BInv, AllCalls
<1>2. CASE FitsShadow(r)
  <2>1. /\ call'[t].word = Packed(t, k)
        /\ \A m \in Thread : m # t => call'[m] = call[m]
    BY <1>1, <1>2 DEF BeginAccess
  <2>2. Tells(Packed(t, k), generation, phase) /\ Packed(t, k).owner = SubgroupOf(t)
    BY <1>1, PackedTells
  <2>3. \A m \in Thread : IsAt(m, "exchange")' =>
          (Tells(call[m].word, generation, phase))' /\ call'[m].word.owner = SubgroupOf(m)
    BY <1>1, <2>1, <2>2 DEF SInv, Tells, IsAt
  <2>4. \A c \in Cell : Past(c)'
    BY <1>1 DEF SInv, Past, Tells
  <2> QED BY <2>3, <2>4 DEF SInv
<1>3. CASE ~FitsShadow(r)
  BY <1>1, <1>3, ShadowUntouched DEF BeginAccess
<1> QED BY <1>2, <1>3

LEMMA CallOfSInv ==
  ASSUME BInv, SInv, NEW t \in Thread, CallOf(t)
  PROVE  SInv' /\ UNCHANGED <<shadow, generation, phase, fresh, diagnosed>>
<1>1. /\ UNCHANGED <<shadow, generation, phase, fresh, diagnosed>>
      /\ call' = [call EXCEPT ![t] = At("first")]
  BY DEF CallOf, CallBarrier, CallSimulate, AbsenteeGoes, host, truth
<1>2. At("first") \in AllCalls /\ At("first").pc = "first"
  BY SimpleAt DEF Simple
<1>3. \A m \in Thread : IsAt(m, "exchange")' => call'[m] = call[m]
  BY <1>1, <1>2, CallSet DEF BInv, IsAt
<1> QED BY <1>1, <1>3, ShadowUntouched

LEMMA WorkSInv ==
  ASSUME BInv, SInv, Work
  PROVE  SInv' /\ UNCHANGED <<shadow, generation, phase, fresh, diagnosed>>
<1>1. UNCHANGED <<shadow, generation, phase, fresh, diagnosed>>
  BY DEF Work, ClearMetadata, CountArrivals, CloseEpoch, ResetCount, host, truth
<1>2. call[0].pc \in AtWork
  BY DEF Work, ClearMetadata, CountArrivals, CloseEpoch, ResetCount, IsAt, AtWork
<1>3. call \in [Thread -> AllCalls]
  BY CallTypes DEF BInv, AllCalls
<1>4. \A m \in Thread : m # 0 => call'[m] = call[m]
  BY <1>3 DEF Work, ClearMetadata, CountArrivals, CloseEpoch, ResetCount
<1>5. call'[0].pc # "exchange"
  <2>1. CASE ClearMetadata \/ CountArrivals \/ ResetCount
    BY <1>3, <2>1, ZeroThread DEF ClearMetadata, CountArrivals, ResetCount, At, Close
  <2>2. CASE CloseEpoch
    <3>1. call[0].pc = "close" /\ call[0] \in CloseCalls
      BY <1>3, <2>2, ZeroThread
         DEF CloseEpoch, IsAt, AllCalls, SimpleCalls, Simple, CloseCalls, ExchangeCalls
    <3>2. CASE call'[0] = [call[0] EXCEPT !.next = call[0].next + 1]
      BY <3>1, <3>2 DEF CloseCalls
    <3>3. CASE call'[0] = At(IF Called(0) = "simulate" THEN "reset" ELSE "second")
      BY <3>3 DEF At
    <3> QED BY <1>3, <2>2, <3>2, <3>3, ZeroThread DEF CloseEpoch
  <2> QED BY <2>1, <2>2 DEF Work
<1>6. \A m \in Thread : IsAt(m, "exchange")' => call'[m] = call[m]
  BY <1>4, <1>5 DEF IsAt
<1> QED BY <1>1, <1>6, ShadowUntouched

LEMMA SyncSInv ==
  ASSUME BInv, SInv, Sync
  PROVE  /\ SInv'
         /\ \/ UNCHANGED <<shadow, generation, phase, fresh, diagnosed>>
            \/ fresh' = {}
<1>1. /\ shadow' = shadow /\ generation' = generation
      /\ \/ phase' = phase /\ fresh' = fresh /\ diagnosed' = diagnosed
         \/ phase' = phase + 1 /\ fresh' = {}
      /\ phase \in Nat /\ shadow \in [Cell -> {Empty} \cup Words]
  BY DEF Sync, FirstSync, SecondSync, host, truth, BInv, BTypeOK
<1>2. \A m \in Thread : ~IsAt(m, "exchange")'
  <2>1. CASE FirstSync
    <3> DEFINE v == IF Called(0) = "simulate" THEN At("count") ELSE Close
    <3>1. call' = WorkFrom(v)
      BY <2>1 DEF FirstSync, BehindFirst
    <3>2. v \in AllCalls /\ v.pc # "exchange"
      BY SimpleAt DEF Simple, Close, AllCalls, CloseCalls
    <3> QED BY <3>1, <3>2, WorkFromIs DEF IsAt
  <2>2. CASE SecondSync
    BY <2>2 DEF SecondSync, Out, IsAt
  <2> QED BY <2>1, <2>2 DEF Sync
<1>3. CASE phase' = phase /\ fresh' = fresh /\ diagnosed' = diagnosed
  BY <1>1, <1>2, <1>3, ShadowUntouched
<1>4. CASE phase' = phase + 1 /\ fresh' = {}
  <2>1. ASSUME NEW c \in Cell, shadow[c].kind # "empty"
        PROVE  /\ shadow[c].epoch \in Nat /\ shadow[c].generation <= generation
               /\ shadow[c].generation = generation => shadow[c].epoch <= phase
    <3>1. shadow[c] \in Words
      BY <1>1, <2>1 DEF Empty
    <3>2. shadow[c].epoch \in Nat
      BY <3>1 DEF Words
    <3> QED BY <2>1, <3>2 DEF SInv, Past
  <2>2. ASSUME NEW c \in Cell
        PROVE  Past(c)'
    <3>1. CASE shadow[c].kind # "empty" /\ shadow[c].generation = generation
      <4>1. shadow[c].epoch < phase + 1
        BY <1>1, <2>1, <3>1
      <4>2. ~Tells(shadow'[c], generation', phase') /\ shadow[c].epoch <= phase + 1
        BY <1>1, <1>4, <2>1, <3>1, <4>1 DEF Tells
      <4> QED BY <1>1, <1>4, <2>1, <3>1, <4>2 DEF Past
    <3>2. CASE shadow[c].kind = "empty" \/ shadow[c].generation # generation
      BY <1>1, <2>1, <3>2 DEF Past, Tells
    <3> QED BY <3>1, <3>2
  <2> QED BY <1>2, <1>4, <2>2 DEF SInv
<1> QED BY <1>1, <1>3, <1>4

LEMMA LaunchSInv ==
  ASSUME BInv, SInv, Launch
  PROVE  SInv' /\ fresh' = {}
<1>1. /\ shadow' = shadow /\ generation' = generation + 1 /\ fresh' = {}
      /\ call' = WorkFrom(At("clear")) /\ generation \in Nat
      /\ shadow \in [Cell -> {Empty} \cup Words]
  BY DEF Launch, BInv, BTypeOK
<1>2. \A m \in Thread : ~IsAt(m, "exchange")'
  <2>1. At("clear") \in AllCalls /\ At("clear").pc = "clear"
    BY SimpleAt DEF Simple
  <2> QED BY <1>1, <2>1, WorkFromIs DEF IsAt
<1>3. ASSUME NEW c \in Cell, shadow[c].kind # "empty"
      PROVE  shadow[c].generation \in Nat /\ shadow[c].generation < generation + 1
  <2>1. shadow[c] \in Words
    BY <1>1, <1>3 DEF Empty
  <2>2. shadow[c].generation \in Nat
    BY <2>1 DEF Words
  <2>3. shadow[c].generation <= generation
    BY <1>3 DEF SInv, Past
  <2> QED BY <1>1, <2>2, <2>3
<1>4. ASSUME NEW c \in Cell
      PROVE  Past(c)'
  <2>1. CASE shadow[c].kind = "empty"
    BY <1>1, <2>1 DEF Past
  <2>2. CASE shadow[c].kind # "empty"
    <3>1. shadow'[c].generation <= generation' /\ shadow'[c].generation # generation'
      BY <1>1, <1>3, <2>2
    <3> QED BY <3>1 DEF Past, Tells
  <2> QED BY <2>1, <2>2
<1> QED BY <1>1, <1>2, <1>4 DEF SInv

LEMMA SInitInv == Init => SInv
<1> SUFFICES ASSUME Init
             PROVE  SInv
  OBVIOUS
<1>1. \A m \in Thread : ~IsAt(m, "exchange")
  <2>1. At("clear") \in AllCalls /\ At("clear").pc = "clear"
    BY SimpleAt DEF Simple
  <2>2. call = WorkFrom(At("clear"))
    BY DEF Init
  <2>3. call[0].pc = "clear" /\ \A m \in Thread \ {0} : call[m].pc = "second"
    BY <2>1, <2>2, WorkFromIs
  <2> QED BY <2>3 DEF IsAt
<1>2. \A c \in Cell : shadow[c].kind = "empty"
  BY DEF Init, Empty
<1> QED BY <1>1, <1>2 DEF SInv, Past

\* Fits is settled when the storage is allocated.
ShadowInv == BInv /\ (Fits => SInv)

LEMMA FitsStays == [Next]_vars => Fits' = Fits
BY DEF Next, BeginAccess, Exchange, CallOf, CallBarrier, CallSimulate, Work, ClearMetadata,
       CountArrivals, CloseEpoch, ResetCount, Sync, FirstSync, SecondSync, Launch,
       Fits, vars, host

LEMMA SNextInv ==
  ASSUME NoWrap, BInv, Fits, SInv, [Next]_vars
  PROVE  SInv'
<1>1. CASE \E t \in Thread, r \in Ranges, k \in Kinds : BeginAccess(t, r, k)
  BY <1>1, BeginAccessSInv
<1>2. CASE \E t \in Thread : Exchange(t) \/ CallOf(t)
  BY <1>2, ExchangeSInv, CallOfSInv
<1>3. CASE Work \/ Sync \/ Launch
  BY <1>3, WorkSInv, SyncSInv, LaunchSInv
<1>4. CASE UNCHANGED vars
  <2>1. UNCHANGED <<shadow, generation, phase, fresh, call>>
    BY <1>4 DEF vars, host, truth
  <2> QED BY <2>1, ShadowUntouched
<1> QED BY <1>1, <1>2, <1>3, <1>4 DEF Next

\* As long as neither epochs nor generations wrap, no word that an earlier phase
\* or launch left in the shadow is taken for one of this phase: without atomics
\* every diagnostic is of a real race (context.hpp:1152-1161).
THEOREM BarrierReportsAreRaces ==
  ASSUME Configured, NoWrap
  PROVE  Spec => []ReportsAreRaces
<1>1. Init => ShadowInv
  BY BInitInv, SInitInv DEF ShadowInv
<1>2. ShadowInv /\ [Next]_vars => ShadowInv'
  BY BNextInv, SNextInv, FitsStays DEF ShadowInv
<1>3. ShadowInv => ReportsAreRaces
  <2> SUFFICES ASSUME BInv, Fits, SInv, NEW t \in Thread, NEW c \in Cell, NEW k \in Kinds,
                      IsAt(t, "out"), Reports(t, c, k)
               PROVE  Races(SubgroupOf(t), c, k)
    BY DEF ShadowInv, ReportsAreRaces
  <2>1. /\ Tells(Packed(t, k), generation, phase)
        /\ Packed(t, k).owner = SubgroupOf(t) /\ Packed(t, k).kind = k
    BY PackedTells
  <2>2. /\ shadow[c].kind # "empty" /\ Tells(shadow[c], generation, phase)
        /\ shadow[c].owner # SubgroupOf(t) /\ "store" \in {k, shadow[c].kind}
    BY <2>1 DEF Reports, WordsConflict, Tells
  <2>3. <<shadow[c].owner, c, shadow[c].kind>> \in fresh
    BY <2>2 DEF SInv, Past
  <2> QED BY <2>2, <2>3 DEF Races, RacesWith
<1> QED BY <1>1, <1>2, <1>3, PTL DEF Spec

-------------------------------------------------------------------------------
\* Nothing is missed, when all accesses are stores.

LEMMA ExchangeLast ==
  ASSUME Kinds = {"store"}, BInv, SInv, LastAccess, NEW t \in Thread, Exchange(t)
  PROVE  LastAccess'
<1> DEFINE c == call[t].cell
           word == call[t].word
<1>1. /\ c \in Cell /\ word \in Words /\ Tells(word, generation, phase)
      /\ word.owner = SubgroupOf(t)
      /\ shadow' = [shadow EXCEPT ![c] = word]
      /\ diagnosed' = IF WordsConflict(word, shadow[c]) THEN diagnosed \cup {c} ELSE diagnosed
      /\ fresh' = fresh \cup {<<SubgroupOf(t), c, word.kind>>}
      /\ generation' = generation /\ phase' = phase
      /\ shadow \in [Cell -> {Empty} \cup Words]
  BY ExchangeIs DEF SInv, BInv, BTypeOK
<1> HIDE DEF c, word
<1>2. word.kind = "store"
  BY <1>1 DEF Words
<1>3. diagnosed \subseteq diagnosed'
  BY <1>1
<1> SUFFICES ASSUME NEW i \in fresh'
             PROVE  /\ shadow'[i[2]].kind # "empty"
                    /\ Tells(shadow'[i[2]], generation, phase)
                    /\ i[2] \in diagnosed' \/ i[1] = shadow'[i[2]].owner
  BY <1>1 DEF LastAccess, Tells
<1>4. CASE i = <<SubgroupOf(t), c, word.kind>>
  <2>1. i[1] = word.owner /\ i[2] = c /\ shadow'[c] = word
    BY <1>1, <1>4
  <2> QED BY <1>1, <1>2, <2>1
<1>5. CASE i \in fresh /\ i[2] # c
  <2>1. shadow'[i[2]] = shadow[i[2]]
    <3>1. i[2] \in Cell
      BY <1>5 DEF BInv, BTypeOK
    <3> QED BY <1>1, <1>5, <3>1
  <2> QED BY <1>3, <1>5, <2>1 DEF LastAccess
<1>6. CASE i \in fresh /\ i[2] = c
  <2>1. /\ shadow[c].kind # "empty" /\ Tells(shadow[c], generation, phase)
        /\ c \in diagnosed \/ i[1] = shadow[c].owner
    BY <1>6 DEF LastAccess
  <2>2. shadow[c].owner # word.owner => c \in diagnosed'
    BY <1>1, <1>2, <2>1 DEF WordsConflict, Tells
  <2>3. shadow'[c] = word
    BY <1>1
  <2> QED BY <1>1, <1>2, <1>3, <1>6, <2>1, <2>2, <2>3
<1> QED BY <1>1, <1>4, <1>5, <1>6

LEMMA LastNext ==
  ASSUME Kinds = {"store"}, BInv, SInv, LastAccess, [Next]_vars
  PROVE  LastAccess'
<1>1. UNCHANGED <<shadow, generation, phase, fresh, diagnosed>> => LastAccess'
  BY DEF LastAccess, Tells
<1>2. fresh' = {} => LastAccess'
  BY DEF LastAccess
<1>3. CASE \E t \in Thread, r \in Ranges, k \in Kinds : BeginAccess(t, r, k)
  BY <1>1, <1>3 DEF BeginAccess, host
<1>4. CASE \E t \in Thread : Exchange(t) \/ CallOf(t)
  BY <1>1, <1>4, ExchangeLast, CallOfSInv
<1>5. CASE Work \/ Sync \/ Launch
  BY <1>1, <1>2, <1>5, WorkSInv, SyncSInv, LaunchSInv
<1>6. CASE UNCHANGED vars
  BY <1>1, <1>6 DEF vars, host, truth
<1> QED BY <1>3, <1>4, <1>5, <1>6 DEF Next

\* Thread 0 has told of missing epoch words as soon as it is done with clearing,
\* and accesses that got no word come after that and have been told of.
Told ==
  /\ ~Fits => short \/ IsAt(0, "clear")
  /\ missed # {} => beyond /\ ~IsAt(0, "clear")

LEMMA ToldInit == Init => Told
BY ZeroThread DEF Init, WorkFrom, At, IsAt, Told

\* A step that leaves what has been told, when thread 0 is done with clearing.
LEMMA ToldStays ==
  ASSUME Told, Fits' = Fits, short' = short, ~IsAt(0, "clear"), call'[0].pc # "clear",
         beyond' = TRUE \/ (beyond' = beyond /\ (missed' = missed \/ missed' = {}))
  PROVE  Told'
BY DEF Told, IsAt

\* A thread that comes from elsewhere than init_workgroup does not go there.
LEMMA ToldTravels ==
  ASSUME BInv, Told, Fits' = Fits, short' = short, NEW t \in Thread,
         call[t].pc \in OnTheWay, NEW v \in AllCalls, v.pc \in OnTheWay,
         call' = [call EXCEPT ![t] = v],
         beyond' = TRUE \/ (beyond' = beyond /\ (missed' = missed \/ missed' = {}))
  PROVE  Told'
<1>1. call[0].pc \in OnTheWay
  BY OnWay, ZeroThread
<1>2. call'[0] = v \/ call'[0] = call[0]
  BY CallSet, ZeroThread DEF BInv
<1> QED BY <1>1, <1>2, ToldStays DEF OnTheWay, IsAt

LEMMA ToldNext ==
  ASSUME BInv, Told, [Next]_vars
  PROVE  Told'
<1>1. Fits' = Fits
  BY FitsStays
<1>2. call \in [Thread -> AllCalls]
  BY CallTypes DEF BInv, AllCalls
<1>3. ASSUME NEW t \in Thread, NEW r \in Ranges, NEW k \in Kinds, BeginAccess(t, r, k)
      PROVE  Told'
  <2> DEFINE v == [pc |-> "exchange", cell |-> r[1], last |-> r[2], word |-> Packed(t, k)]
  <2>1. call[t].pc = "out" /\ short' = short /\ call[0].pc # "clear"
    BY <1>3, OnWay, ZeroThread DEF BeginAccess, IsAt, OnTheWay
  <2>2. CASE FitsShadow(r)
    <3>1. call' = [call EXCEPT ![t] = v] /\ beyond' = beyond /\ missed' = missed
      BY <1>3, <2>2 DEF BeginAccess
    <3>2. call'[0] = v \/ call'[0] = call[0]
      BY <1>2, <3>1, ZeroThread
    <3> QED BY <1>1, <2>1, <3>1, <3>2, ToldStays DEF IsAt
  <2>3. CASE ~FitsShadow(r)
    <3>1. call' = call /\ beyond' = TRUE
      BY <1>3, <2>3 DEF BeginAccess
    <3> QED BY <1>1, <2>1, <3>1, ToldStays DEF IsAt
  <2> QED BY <2>2, <2>3
<1>4. ASSUME NEW t \in Thread, Exchange(t)
      PROVE  Told'
  <2>1. /\ call[t].pc = "exchange" /\ UNCHANGED <<words, missed>> /\ call[0].pc # "clear"
        /\ call' = [call EXCEPT ![t] = IF call[t].cell < call[t].last
                                       THEN [call[t] EXCEPT !.cell = call[t].cell + 1]
                                       ELSE Out]
    BY <1>4, OnWay, ZeroThread DEF Exchange, IsAt, OnTheWay
  <2>2. call[t] \in ExchangeCalls
    BY <1>2, <2>1 DEF AllCalls, SimpleCalls, Simple, CloseCalls, ExchangeCalls
  <2>3. [call[t] EXCEPT !.cell = call[t].cell + 1].pc = "exchange" /\ Out.pc = "out"
    BY <2>2 DEF ExchangeCalls, Out
  <2>4. call'[0].pc # "clear"
    <3>1. CASE t = 0
      BY <1>2, <2>1, <2>3, <3>1
    <3>2. CASE t # 0
      BY <1>2, <2>1, <3>2, ZeroThread
    <3> QED BY <3>1, <3>2
  <2> QED BY <1>1, <2>1, <2>4, ToldStays DEF words, IsAt
<1>5. ASSUME NEW t \in Thread, CallOf(t)
      PROVE  Told'
  <2>1. /\ call[t].pc = "out" /\ call' = [call EXCEPT ![t] = At("first")]
        /\ short' = short /\ beyond' = beyond /\ missed' = missed
    BY <1>5 DEF CallOf, CallBarrier, CallSimulate, AbsenteeGoes, words, truth, IsAt
  <2>2. At("first") \in AllCalls /\ At("first").pc = "first"
    BY SimpleAt DEF Simple
  <2> QED BY <1>1, <2>1, <2>2, ToldTravels DEF OnTheWay
<1>6. CASE ClearMetadata
  <2>1. missed = {} /\ missed' = missed /\ short' = ~Fits
    BY <1>6 DEF ClearMetadata, Told, truth
  <2> QED BY <1>1, <2>1 DEF Told
<1>7. CASE CountArrivals \/ CloseEpoch \/ ResetCount
  <2>1. /\ ~IsAt(0, "clear") /\ short' = short /\ beyond' = beyond /\ missed' = missed
    BY <1>7 DEF CountArrivals, CloseEpoch, ResetCount, truth, IsAt
  <2>2. call'[0].pc # "clear"
    <3>1. CASE CountArrivals \/ ResetCount
      BY <1>2, <3>1, ZeroThread DEF CountArrivals, ResetCount, At, Close
    <3>2. CASE CloseEpoch
      <4>1. call[0].pc = "close" /\ call[0] \in CloseCalls
        BY <1>2, <3>2, ZeroThread
           DEF CloseEpoch, IsAt, AllCalls, SimpleCalls, Simple, CloseCalls, ExchangeCalls
      <4>2. [call[0] EXCEPT !.next = call[0].next + 1].pc = "close"
        BY <4>1 DEF CloseCalls
      <4>3. At(IF Called(0) = "simulate" THEN "reset" ELSE "second").pc # "clear"
        BY DEF At
      <4> QED BY <1>2, <3>2, <4>2, <4>3, ZeroThread DEF CloseEpoch
    <3> QED BY <1>7, <3>1, <3>2
  <2> QED BY <1>1, <2>1, <2>2, ToldStays
<1>8. CASE Sync
  <2>1. /\ ~IsAt(0, "clear") /\ short' = short /\ beyond' = beyond
        /\ missed' = missed \/ missed' = {}
    BY <1>8, ZeroThread DEF Sync, FirstSync, SecondSync, AllAt, IsAt, words, truth
  <2>2. call'[0].pc # "clear"
    <3>1. CASE FirstSync
      BY <3>1, ZeroThread DEF FirstSync, BehindFirst, WorkFrom, At, Close
    <3>2. CASE SecondSync
      BY <3>2, ZeroThread DEF SecondSync, Out
    <3> QED BY <1>8, <3>1, <3>2 DEF Sync
  <2> QED BY <1>1, <2>1, <2>2, ToldStays
<1>9. CASE Launch
  <2>1. call'[0].pc = "clear" /\ missed' = {}
    BY <1>9, ZeroThread DEF Launch, WorkFrom, At
  <2> QED BY <2>1 DEF IsAt, Told
<1>10. CASE UNCHANGED vars
  BY <1>1, <1>10 DEF vars, words, truth, Told, IsAt
<1> QED BY <1>3, <1>4, <1>5, <1>6, <1>7, <1>8, <1>9, <1>10 DEF Next, Work

\* If all accesses are stores, no race passes in silence, though the shadow
\* keeps one access of each cell and wide accesses are not atomic
\* (context.hpp:1152-1154): either the cell is reported, or the launch has no
\* epochs for all and has said so before anyone accessed anything, or the other
\* access is beyond the shadow and has been told of.
THEOREM RacyStoresAreReported ==
  ASSUME Configured, NoWrap, Kinds = {"store"}
  PROVE  Spec => []RacyCellReported
<1> DEFINE Inv == ShadowInv /\ (Fits => LastAccess) /\ Told
<1>1. Init => Inv
  BY BInitInv, SInitInv, ToldInit DEF ShadowInv, Init, LastAccess
<1>2. Inv /\ [Next]_vars => Inv'
  BY BNextInv, SNextInv, LastNext, FitsStays, ToldNext DEF ShadowInv
<1>3. Inv => RacyCellReported
  <2> SUFFICES ASSUME Inv, NEW t \in Thread, NEW c \in Touched, NEW k \in Kinds,
                      IsAt(t, "out"), RacesWith(fresh \cup missed, SubgroupOf(t), c, k)
               PROVE  \/ short
                      \/ c \in Cell /\ (c \in diagnosed \/ Reports(t, c, k))
                      \/ ~Races(SubgroupOf(t), c, k) /\ beyond
    BY DEF RacyCellReported
  <2>1. CASE ~Fits
    <3>1. call[0].pc \in OnTheWay
      BY OnWay, ZeroThread DEF ShadowInv, IsAt, OnTheWay
    <3> QED BY <2>1, <3>1 DEF Told, IsAt, OnTheWay
  <2>2. CASE Fits /\ Races(SubgroupOf(t), c, k)
    <3>1. PICK i \in fresh : i[1] # SubgroupOf(t) /\ i[2] = c
      BY <2>2 DEF Races, RacesWith
    <3>2. c \in Cell
      BY <3>1 DEF ShadowInv, BInv, BTypeOK
    <3>3. /\ Tells(Packed(t, k), generation, phase)
          /\ Packed(t, k).owner = SubgroupOf(t) /\ Packed(t, k).kind = "store"
      BY <2>2, PackedTells DEF ShadowInv
    <3>4. /\ shadow[c].kind # "empty" /\ Tells(shadow[c], generation, phase)
          /\ c \in diagnosed \/ shadow[c].owner # SubgroupOf(t)
      BY <2>2, <3>1 DEF LastAccess
    <3> QED BY <3>2, <3>3, <3>4 DEF Reports, WordsConflict, Tells
  <2>3. CASE ~Races(SubgroupOf(t), c, k)
    <3>1. missed # {}
      BY <2>3 DEF Races, RacesWith
    <3> QED BY <2>3, <3>1 DEF Told
  <2> QED BY <2>1, <2>2, <2>3
<1> QED BY <1>1, <1>2, <1>3, PTL DEF Spec

-------------------------------------------------------------------------------
\* Refinement of ExactDetector.

\* Its state does not change where ours does not.
LEMMA AbstractStutter ==
  ASSUME UNCHANGED <<shadow, generation, phase, fresh, diagnosed>>
  PROVE  UNCHANGED Exact!vars
<1>1. \A c \in Cell : AbstractWord(c)' = AbstractWord(c)
  BY DEF AbstractWord
<1>2. \A s \in Subgroup : Known(s)' = Known(s)
  BY DEF Known
<1> QED BY <1>1, <1>2 DEF Exact!vars, Exact!meta, Exact!truth, Constantly, NoAddress

\* The first native barrier, if nobody sits it out, is the abstract barrier.
LEMMA BarrierMaps ==
  ASSUME BInv, FirstSync, absent = {}
  PROVE  Exact!Barrier
<1>1. /\ shadow' = shadow /\ generation' = generation /\ phase' = phase + 1
      /\ fresh' = {} /\ diagnosed' = {}
  BY DEF FirstSync, host
<1>2. phase < MaxBarriers /\ phase \in Nat
  <2>1. IsAt(0, "first") /\ passed[0] = Level + 1
    BY ZeroThread DEF FirstSync, AllAt, BInv, Levels
  <2> QED BY <2>1, ZeroThread DEF BInv, BTypeOK, Level
<1>3. \A c \in Cell : AbstractWord(c)' = AbstractWord(c)
  BY <1>1 DEF AbstractWord
<1>4. /\ [s \in Subgroup |-> Known(s)]' = [s \in Subgroup |-> Accesses]
      /\ Constantly(IF phase = 0 THEN {} ELSE Accesses \ fresh)' = [s \in Subgroup |-> Accesses]
  <2>1. \A s \in Subgroup : Known(s)' = Accesses
    BY <1>1 DEF Known
  <2>2. (IF phase = 0 THEN {} ELSE Accesses \ fresh)' = Accesses
    BY <1>1, <1>2
  <2> QED BY <2>1, <2>2 DEF Constantly
<1>5. \A s \in Subgroup : Exact!IsIdle(s)
  BY DEF Exact!IsIdle, Constantly
<1> QED BY <1>1, <1>2, <1>3, <1>4, <1>5
        DEF Exact!Barrier, Exact!Ids, Accesses, Constantly, NoAddress

\* A launch starts the detector anew, because no word is of its generation.
LEMMA LaunchMaps ==
  ASSUME NoWrap, BInv, SInv, Launch
  PROVE  Exact!Init'
<1>1. /\ shadow' = shadow /\ generation' = generation + 1 /\ phase' = 0
      /\ fresh' = {} /\ diagnosed' = {} /\ generation \in 1 .. MaxLaunch
      /\ generation < MaxLaunch /\ shadow \in [Cell -> {Empty} \cup Words]
  BY DEF Launch, BInv, BTypeOK
<1>2. (generation + 1) % GenerationModulus = generation + 1
  <2>1. generation + 1 \in Nat /\ generation + 1 < GenerationModulus
    BY <1>1 DEF NoWrap
  <2> QED BY <2>1, ModIs
<1>3. ASSUME NEW c \in Cell
      PROVE  AbstractWord(c)' = Empty
  <2>1. CASE shadow[c].kind = "empty"
    BY <1>1, <2>1 DEF AbstractWord
  <2>2. CASE shadow[c].kind # "empty"
    <3>1. shadow[c] \in Words
      BY <1>1, <2>2 DEF Empty
    <3>2. shadow[c].generation \in Nat
      BY <3>1 DEF Words
    <3>3. shadow[c].generation <= generation
      BY <2>2 DEF SInv, Past
    <3>4. shadow[c].generation # generation + 1
      BY <1>1, <3>2, <3>3
    <3> QED BY <1>1, <1>2, <3>4 DEF AbstractWord
  <2> QED BY <2>1, <2>2
<1>4. /\ [s \in Subgroup |-> Known(s)]' = [s \in Subgroup |-> Accesses]
      /\ Constantly(IF phase = 0 THEN {} ELSE Accesses \ fresh)' = [s \in Subgroup |-> {}]
  BY <1>1 DEF Known, Constantly
<1> QED BY <1>1, <1>3, <1>4
        DEF Exact!Init, Exact!Empty, Exact!Idle, Exact!None, Exact!Ids, Accesses, Empty,
            Constantly, NoAddress

\* The exchanged word conflicts exactly where the abstract one does.
LEMMA ReportMaps ==
  ASSUME BInv, NEW c \in Cell, NEW o \in Subgroup, NEW k \in Kinds, NEW word \in Words,
         Tells(word, generation, phase), word.owner = o, word.kind = k,
         generation % GenerationModulus = generation, phase % EpochModulus = phase
  PROVE  WordsConflict(word, shadow[c]) <=> Exact!Reports(o, c, k)
<1> DEFINE prior == shadow[c]
           abstract == AbstractWord(c)
<1>1. k \in {"load", "store"} /\ prior \in {Empty} \cup Words
  BY DEF BInv, BTypeOK
<1>2. word.generation = generation /\ word.epoch = phase
  BY DEF Tells
<1>3. [d \in Cell |-> AbstractWord(d)][c] = abstract
  OBVIOUS
<1>4. CASE prior.kind # "empty" /\ prior.generation = generation
  <2>1. prior \in Words
    BY <1>1, <1>4 DEF Empty
  <2>2. prior.kind \in {"load", "store"} /\ prior.owner \in Subgroup
        /\ prior.epoch \in 0 .. EpochModulus - 1
    BY <2>1 DEF Words
  <2>3. prior.epoch \in Nat
    BY <2>2
  <2>4. abstract = [kind |-> prior.kind, owner |-> prior.owner, epoch |-> prior.epoch]
    BY <1>4 DEF AbstractWord
  <2>5. Constantly(Constantly(0))[o][prior.owner] = 0
    BY <2>2 DEF Constantly
  <2>6. ~(0 >= prior.epoch + 1)
    BY <2>3
  <2> HIDE DEF prior, abstract
  <2>7. ~Exact!AcquiredPrior(o, c)
    BY <1>3, <2>4, <2>5, <2>6 DEF Exact!AcquiredPrior
  <2>8. Exact!Conflicts(o, c, k) <=>
          prior.epoch = phase /\ prior.owner # o /\ ~(k = "load" /\ prior.kind = "load")
    BY <1>3, <1>4, <2>4 DEF Exact!Conflicts, Exact!Stored, Exact!KindsConflict
  <2>9. WordsConflict(word, prior) <=>
          phase = prior.epoch /\ o # prior.owner /\ "store" \in {k, prior.kind}
    BY <1>2, <1>4 DEF WordsConflict
  <2> QED BY <1>1, <2>2, <2>7, <2>8, <2>9 DEF Exact!Reports, prior
<1>5. CASE ~(prior.kind # "empty" /\ prior.generation = generation)
  <2>1. abstract = Empty
    BY <1>5 DEF AbstractWord
  <2>2. ~Exact!Reports(o, c, k)
    BY <1>3, <2>1 DEF Exact!Reports, Exact!Conflicts, Empty
  <2>3. ~WordsConflict(word, prior)
    BY <1>2, <1>5 DEF WordsConflict
  <2> QED BY <2>2, <2>3
<1> QED BY <1>4, <1>5

\* An exchange is the abstract access of its subgroup.
LEMMA AccessMaps ==
  ASSUME NoWrap, BInv, NEW o \in Subgroup, NEW c \in Cell, NEW word \in Words,
         Tells(word, generation, phase), word.owner = o,
         shadow' = [shadow EXCEPT ![c] = word],
         diagnosed' = IF WordsConflict(word, shadow[c]) THEN diagnosed \cup {c} ELSE diagnosed,
         fresh' = fresh \cup {<<o, c, word.kind>>},
         generation' = generation, phase' = phase
  PROVE  Exact!Access(o, c, word.kind)
<1> DEFINE k == word.kind
           id == <<o, c, k>>
<1>1. /\ shadow \in [Cell -> {Empty} \cup Words] /\ fresh \subseteq Subgroup \X Cell \X Kinds
      /\ generation \in Nat /\ phase \in Nat
  BY DEF BInv, BTypeOK
<1>2. generation % GenerationModulus = generation /\ phase % EpochModulus = phase
  <2>1. generation < GenerationModulus /\ phase < EpochModulus
    BY DEF BInv, BTypeOK, NoWrap
  <2> QED BY <1>1, <2>1, ModIs
<1>3. k \in {"load", "store"} /\ k \in Kinds
  BY <1>1 DEF Words
<1>4. [d \in Cell |-> AbstractWord(d)]' =
        [[d \in Cell |-> AbstractWord(d)] EXCEPT ![c] = Exact!Packed(o, k)]
  <2>1. AbstractWord(c)' = [kind |-> k, owner |-> o, epoch |-> phase]
    <3>1. shadow'[c] = word
      BY <1>1
    <3>2. word.generation = generation /\ word.epoch = phase /\ word.kind # "empty"
      BY <1>1, <1>3 DEF Tells
    <3> QED BY <1>1, <1>2, <3>1, <3>2 DEF AbstractWord
  <2>2. Exact!Packed(o, k) = [kind |-> k, owner |-> o, epoch |-> phase]
    BY <1>2 DEF Exact!Packed, Exact!Stored
  <2>3. \A d \in Cell : d # c => AbstractWord(d)' = AbstractWord(d)
    BY <1>1 DEF AbstractWord
  <2> QED BY <1>1, <2>1, <2>2, <2>3
<1>5. WordsConflict(word, shadow[c]) <=> Exact!Reports(o, c, k)
  BY <1>1, <1>2, <1>3, ReportMaps
<1>6. /\ [s \in Subgroup |-> Known(s)]' = Exact!ForgetBut([s \in Subgroup |-> Known(s)], o, id)
      /\ Constantly(IF phase = 0 THEN {} ELSE Accesses \ fresh)' =
           Exact!Forget(Constantly(IF phase = 0 THEN {} ELSE Accesses \ fresh), id)
      /\ Constantly({}) = Exact!Forget(Constantly({}), id)
      /\ NoAddress = Exact!Forget(NoAddress, id)
      /\ NoAddress = [a \in {} |-> Exact!Forget(NoAddress[a], id)]
  <2>1. ASSUME NEW s \in Subgroup
        PROVE  Known(s)' = IF s = o THEN Known(s) ELSE Known(s) \ {id}
    BY <1>1 DEF Known
  <2>2. (IF phase = 0 THEN {} ELSE Accesses \ fresh)' =
          (IF phase = 0 THEN {} ELSE Accesses \ fresh) \ {id}
    BY <1>1
  <2> QED BY <2>1, <2>2 DEF Exact!ForgetBut, Exact!Forget, Constantly, NoAddress
<1>7. Exact!CanAccess(o)
  BY <1>1 DEF Exact!CanAccess, Exact!IsIdle, Constantly
<1> QED BY <1>4, <1>5, <1>6, <1>7 DEF Exact!Access, Constantly, NoAddress

LEMMA ExchangeMaps ==
  ASSUME NoWrap, BInv, SInv, NEW t \in Thread, Exchange(t)
  PROVE  Exact!Access(SubgroupOf(t), call[t].cell, call[t].word.kind)
<1>1. \A o \in Subgroup, c \in Cell, word \in Words :
        o = SubgroupOf(t) /\ c = call[t].cell /\ word = call[t].word => Exact!Access(o, c, word.kind)
  <2> TAKE o \in Subgroup, c \in Cell, word \in Words
  <2> HAVE o = SubgroupOf(t) /\ c = call[t].cell /\ word = call[t].word
  <2>1. /\ Tells(word, generation, phase) /\ word.owner = o
        /\ shadow' = [shadow EXCEPT ![c] = word]
        /\ diagnosed' = IF WordsConflict(word, shadow[c])
                        THEN diagnosed \cup {c} ELSE diagnosed
        /\ fresh' = fresh \cup {<<o, c, word.kind>>}
        /\ generation' = generation /\ phase' = phase
    BY ExchangeIs DEF SInv
  <2> QED BY <2>1, AccessMaps
<1> QED BY <1>1, ExchangeIs, SubgroupOfIs

\* The abstract detector takes no step only where ours changes nothing that it
\* sees, and one where ours opens a full barrier or exchanges a word.
LEMMA StepMaps ==
  ASSUME NoWrap, BInv, SInv, [Next]_vars
  PROVE  IF generation' = generation
         THEN Exact!Next \/ UNCHANGED Exact!vars
         ELSE Exact!Init'
<1>1. generation \in Nat
  BY DEF BInv, BTypeOK
<1>2. ASSUME UNCHANGED <<shadow, generation, phase, fresh, diagnosed>>
      PROVE  generation' = generation /\ UNCHANGED Exact!vars
  BY <1>2, AbstractStutter
<1>3. CASE \E t \in Thread, r \in Ranges, k \in Kinds : BeginAccess(t, r, k)
  BY <1>2, <1>3 DEF BeginAccess, host
<1>4. CASE \E t \in Thread : CallOf(t)
  BY <1>2, <1>4, CallOfSInv
<1>5. ASSUME NEW t \in Thread, Exchange(t)
      PROVE  generation' = generation /\ Exact!Next
  <2>1. /\ generation' = generation /\ SubgroupOf(t) \in Subgroup
        /\ call[t].cell \in Cell /\ call[t].word.kind \in Kinds
    BY <1>5, ExchangeIs, SubgroupOfIs DEF Words
  <2>2. Exact!Access(SubgroupOf(t), call[t].cell, call[t].word.kind)
    BY <1>5, ExchangeMaps
  <2> QED BY <2>1, <2>2 DEF Exact!Next
<1>6. CASE Work
  BY <1>2, <1>6, WorkSInv
<1>7. CASE FirstSync
  <2>1. CASE absent = {}
    BY <1>7, <2>1, BarrierMaps DEF Exact!Next, FirstSync, host
  <2>2. CASE absent # {}
    BY <1>2, <1>7, <2>2 DEF FirstSync, host
  <2> QED BY <2>1, <2>2
<1>8. CASE SecondSync
  BY <1>2, <1>8 DEF SecondSync, host, truth
<1>9. CASE Launch
  <2>1. generation' # generation
    BY <1>1, <1>9 DEF Launch
  <2> QED BY <1>9, <2>1, LaunchMaps
<1>10. CASE UNCHANGED vars
  BY <1>2, <1>10 DEF vars, host, truth
<1> QED BY <1>3, <1>4, <1>5, <1>6, <1>7, <1>8, <1>9, <1>10 DEF Next, Sync

\* The threads, their native barriers, the epoch words raised one by one and
\* the loop over the cells implement, launch by launch, the detector whose
\* barrier is one step (context.hpp:524-545, 1105-1163, 1527-1541).
THEOREM LaunchesImplementDetector ==
  ASSUME Configured, NoWrap
  PROVE  Spec => EachLaunchDetects
<1>1. Init => ShadowInv
  BY BInitInv, SInitInv DEF ShadowInv
<1>2. ShadowInv /\ [Next]_vars => ShadowInv'
  BY BNextInv, SNextInv, FitsStays DEF ShadowInv
<1>3. ShadowInv /\ [Next]_vars =>
        [Fits => IF generation' = generation
                 THEN Exact!Next \/ UNCHANGED Exact!vars
                 ELSE Exact!Init']_vars
  BY StepMaps DEF ShadowInv
<1> QED BY <1>1, <1>2, <1>3, PTL DEF Spec, EachLaunchDetects

===============================================================================
