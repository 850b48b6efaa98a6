--------------------------- MODULE HostContextProofs ---------------------------
(***************************************************************************)
(* Proofs about HostContext, for any lanes, capacities, launches and       *)
(* emissions: what a consumption copies is whole, generations are fresh,   *)
(* and with the disciplines no diagnostic goes by untold and the           *)
(* destructor aborts only for what nobody was told of.                     *)
(***************************************************************************)
EXTENDS HostContext, TLAPS

USE HostAssumption

Indices == 0 .. Capacity - 1
Entries == [launch : Launches, kind : Kinds]
Consumptions == [kind : {"consume", "check", "destroy"}, stage : {"synchronize", "copy"}]

HTypeOK ==
  /\ process \in {"running", "released", "aborted"}
  /\ generation \in 1 .. GenerationModulus - 1
  /\ ref \in Nat \cup {NoRef}
  /\ consumed \in BOOLEAN /\ reports \in BOOLEAN /\ aborts \in BOOLEAN
  /\ running \in BOOLEAN
  /\ lastCount \in Int
  /\ call \in {NoCall} \cup Consumptions
  /\ used \in Seq(Nat)
  /\ queue \in Seq(Entries)
  /\ lane \in [Lanes -> Nat \cup {NoIndex}]
  /\ count \in Nat
  /\ slots \in [Indices -> Nat]
  /\ emitted \in [Launches -> Nat]
  /\ counted \subseteq Launches
  /\ told \subseteq Launches

\* The launches that have ended, and those that have started.
Finished == Len(used) - Len(queue)
Started == IF running THEN Finished + 1 ELSE Finished

RunsContext == running /\ Head(queue).kind = "context"

\* Kernels run in the order of their launches.
Order ==
  /\ Len(queue) <= Len(used) /\ Len(used) <= MaxLaunches
  /\ ref # NoRef => Len(used) < MaxLaunches
  /\ \A i \in DOMAIN queue : queue[i].launch = Finished + i
  /\ running => queue # <<>>
  /\ call.stage = "copy" => queue = <<>>

\* The counter is about the last kernel that cleared it.
Counter ==
  /\ \A k \in Launches : k > Started => emitted[k] = 0
  /\ \A k \in counted : k <= Started /\ emitted[k] = count
  /\ counted = {} => count = 0
  /\ RunsContext => counted \subseteq {Finished + 1} /\ emitted[Finished + 1] = count

\* An index that was taken is filled, or still in a lane's hand.
Filled ==
  /\ \A l \in Lanes : lane[l] # NoIndex => RunsContext /\ Finished + 1 \in counted
  /\ \A i \in Indices : i < count => slots[i] \in counted \/ \E l \in Lanes : lane[l] = i

HInv == HTypeOK /\ Order /\ Counter /\ Filled

\* The generation of the n-th ref.
GenerationOf(n) == IF n = GenerationModulus - 1 THEN 1 ELSE n + 1

\* As long as every ref is launched, their number gives the generation.
Numbered ==
  /\ \A i \in DOMAIN used : used[i] = GenerationOf(i)
  /\ ref # NoRef => ref = GenerationOf(Len(used) + 1)
  /\ generation = IF ref # NoRef THEN GenerationOf(Len(used) + 1)
                                 ELSE GenerationOf(Len(used))

\* Launch k has nothing left to tell: the program knows, or there is nothing.
Settled(k) == k \in told \/ (k <= Finished /\ emitted[k] = 0)

Accounted ==
  /\ ref # NoRef => ~consumed
  /\ \A k \in Launches : emitted[k] > 0 => k \in told \cup counted
  /\ \A k \in DOMAIN used : k < Len(used) => Settled(k)
  /\ (consumed /\ call = NoCall /\ process = "running") \/ ref # NoRef => 
       \A k \in DOMAIN used : Settled(k)
  /\ process = "released" /\ (reports \/ aborts) => \A k \in DOMAIN used : Settled(k)

\* What the destructor would consume has not been told.
Unread ==
  /\ told \subseteq DOMAIN used
  /\ counted \subseteq {Started}
  /\ call.kind = "destroy" \/ (~consumed /\ ref = NoRef) =>
       used # <<>> /\ Len(used) \notin told
  /\ call # NoCall => consumed
  /\ call.kind = "destroy" => ref = NoRef /\ process = "running"

-------------------------------------------------------------------------------
\* Host steps touch neither the stream nor the device.

LEMMA CallIs == ASSUME HTypeOK, call # NoCall
                PROVE  /\ call \in Consumptions
                       /\ [call EXCEPT !.stage = "copy"] \in Consumptions
                       /\ [call EXCEPT !.stage = "copy"].kind = call.kind
                       /\ [call EXCEPT !.stage = "copy"].stage = "copy"
BY DEF HTypeOK, Consumptions

LEMMA NextGenerationIs ==
  ASSUME generation \in 1 .. GenerationModulus - 1
  PROVE  NextGeneration \in 1 .. GenerationModulus - 1
BY DEF NextGeneration

HostStep ==
  \/ LaunchRef
  \/ \E k \in {"consume", "check"} : Consume(k)
  \/ Destroy
  \/ Synchronize
  \/ CopyDiagnostics
  \/ FailConsume
  \/ \E r, a \in BOOLEAN : SetDestructor(r, a)
  \/ Ended

LEMMA HostStepIs ==
  ASSUME HTypeOK, Order, HostStep
  PROVE  /\ UNCHANGED <<stream, device>>
         /\ HTypeOK'
         /\ ref' # NoRef => Len(used) < MaxLaunches
         /\ call'.stage = "copy" => queue = <<>>
<1> USE DEF HTypeOK, Order
<1>1. CASE LaunchRef
  <2>1. NextGeneration \in 1 .. GenerationModulus - 1 /\ NextGeneration \in Nat
    BY NextGenerationIs
  <2>2. /\ generation' = NextGeneration /\ ref' = NextGeneration /\ consumed' = FALSE
        /\ UNCHANGED <<process, reports, aborts, lastCount, call, stream, device, told>>
        /\ Len(used) < MaxLaunches
    BY <1>1 DEF LaunchRef
  <2> HIDE DEF NextGeneration
  <2> QED BY <2>1, <2>2 DEF stream, device
<1>2. CASE \E k \in {"consume", "check"} : Consume(k)
  BY <1>2 DEF Consume, BeginConsume, stream, device, Consumptions, Free
<1>3. CASE Destroy
  <2>1. CASE ~consumed /\ (reports \/ aborts)
    <3>1. /\ consumed' = TRUE /\ call' = [kind |-> "destroy", stage |-> "synchronize"]
          /\ UNCHANGED <<process, generation, ref, reports, aborts, lastCount,
                         stream, device, told>>
      BY <1>3, <2>1 DEF Destroy, BeginConsume
    <3>2. call' \in Consumptions /\ call'.stage # "copy"
      BY <3>1 DEF Consumptions
    <3> QED BY <3>1, <3>2 DEF stream, device
  <2>2. CASE ~(~consumed /\ (reports \/ aborts))
    BY <1>3, <2>2 DEF Destroy, stream, device
  <2> QED BY <2>1, <2>2
<1>4. CASE Synchronize
  <2>1. call # NoCall
    BY <1>4 DEF Synchronize, InStage, NoCall
  <2> QED BY <1>4, <2>1, CallIs DEF Synchronize, Synchronized, InStage, stream, device
<1>5. CASE CopyDiagnostics
  BY <1>5 DEF CopyDiagnostics, InStage, Return, stream, device, NoCall
<1>6. CASE FailConsume
  <2>1. DOMAIN used \subseteq Launches
    BY DEF Launches
  <2> QED BY <1>6, <2>1 DEF FailConsume, Return, stream, device, NoCall
<1>7. CASE \E r, a \in BOOLEAN : SetDestructor(r, a)
  BY <1>7 DEF SetDestructor, stream, device, Free
<1>8. CASE Ended
  BY <1>8 DEF Ended, vars, host, stream, device
<1> QED BY <1>1, <1>2, <1>3, <1>4, <1>5, <1>6, <1>7, <1>8 DEF HostStep

LEMMA HostStepInv ==
  ASSUME HInv, HostStep
  PROVE  HInv'
<1>1. /\ UNCHANGED <<stream, device>>
      /\ HTypeOK'
      /\ ref' # NoRef => Len(used) < MaxLaunches
      /\ call'.stage = "copy" => queue = <<>>
  BY HostStepIs DEF HInv
<1>2. Finished' = Finished /\ Started' = Started /\ RunsContext' = RunsContext
  BY <1>1 DEF Finished, Started, RunsContext, stream
<1>3. Order'
  BY <1>1, <1>2 DEF HInv, Order, stream
<1>4. Counter'
  BY <1>1, <1>2 DEF HInv, Counter, device
<1>5. Filled'
  BY <1>1, <1>2 DEF HInv, Filled, device
<1> QED BY <1>1, <1>3, <1>4, <1>5 DEF HInv

-------------------------------------------------------------------------------
\* Kernels

\* What is known while a kernel runs.
LEMMA HeadIs ==
  ASSUME HInv, queue # <<>>
  PROVE  /\ Head(queue) \in Entries
         /\ Head(queue).launch = Finished + 1
         /\ Finished + 1 \in Launches
         /\ Finished \in Nat
         /\ Len(used) \in Nat /\ Len(queue) \in Nat
<1>1. /\ queue \in Seq(Entries) /\ Len(queue) \in Nat /\ Len(queue) > 0
      /\ Len(used) \in Nat /\ Len(used) <= MaxLaunches /\ Len(queue) <= Len(used)
  BY DEF HInv, HTypeOK, Order
<1>2. Head(queue) = queue[1] /\ 1 \in DOMAIN queue
  BY <1>1
<1>3. queue[1] \in Entries
  BY <1>1, <1>2
<1>4. queue[1].launch = Finished + 1
  BY <1>2 DEF HInv, Order
<1> QED BY <1>1, <1>2, <1>3, <1>4 DEF Finished, Launches

LEMMA LaunchKernelInv ==
  ASSUME HInv, NEW k \in Kinds, LaunchKernel(k)
  PROVE  HInv'
<1> DEFINE e == [launch |-> Len(used) + 1, kind |-> k]
<1>1. /\ used' = Append(used, ref) /\ queue' = Append(queue, e) /\ ref' = NoRef
      /\ ref \in Nat /\ Len(used) < MaxLaunches /\ Len(used) \in Nat
      /\ used \in Seq(Nat) /\ queue \in Seq(Entries) /\ call = NoCall
      /\ UNCHANGED <<process, generation, consumed, reports, aborts, lastCount,
                     call, running, device, told>>
  BY DEF LaunchKernel, Free, HInv, HTypeOK, Order
<1>2. e \in Entries
  BY <1>1 DEF Entries, Launches
<1>3. /\ used' \in Seq(Nat) /\ Len(used') = Len(used) + 1
      /\ queue' \in Seq(Entries) /\ Len(queue') = Len(queue) + 1
      /\ \A i \in DOMAIN queue : queue'[i] = queue[i]
      /\ queue'[Len(queue) + 1] = e
      /\ Len(queue) \in Nat /\ DOMAIN queue' = 1 .. Len(queue) + 1
  BY <1>1, <1>2
<1>4. Finished' = Finished /\ Started' = Started /\ Finished \in Int
  BY <1>1, <1>3 DEF Finished, Started
<1>5. RunsContext' = RunsContext
  <2>1. running => queue # <<>>
    BY DEF HInv, Order
  <2>2. running => Head(queue') = Head(queue)
    BY <1>1, <1>3, <2>1
  <2> QED BY <1>1, <2>2 DEF RunsContext
<1>6. HTypeOK'
  BY <1>1, <1>3 DEF HInv, HTypeOK, device
<1>7. Order'
  <2>1. \A i \in DOMAIN queue' : queue'[i].launch = Finished + i
    <3> TAKE i \in DOMAIN queue'
    <3>1. CASE i = Len(queue) + 1
      BY <1>1, <1>3, <3>1 DEF Finished
    <3>2. CASE i # Len(queue) + 1
      BY <1>1, <1>3, <3>2 DEF HInv, Order
    <3> QED BY <3>1, <3>2
  <2>2. call'.stage # "copy"
    BY <1>1 DEF NoCall
  <2>3. Len(queue) <= Len(used)
    BY DEF HInv, Order
  <2>4. MaxLaunches \in Nat
    BY DEF HostAssumption
  <2>5. Len(queue') <= Len(used')
    <3> HIDE DEF e
    <3> QED BY <1>1, <1>3, <2>3
  <2>6. Len(used') <= MaxLaunches
    BY <1>1, <1>3, <2>4
  <2>7. queue' # <<>>
    <3>1. Len(queue') # 0
      BY <1>3
    <3> QED BY <3>1
  <2> QED BY <1>1, <1>4, <2>1, <2>2, <2>5, <2>6, <2>7 DEF Order
<1>8. Counter'
  BY <1>1, <1>4, <1>5 DEF HInv, Counter, device
<1>9. Filled'
  BY <1>1, <1>4, <1>5 DEF HInv, Filled, device
<1> QED BY <1>6, <1>7, <1>8, <1>9 DEF HInv

LEMMA StartKernelInv ==
  ASSUME HInv, StartKernel
  PROVE  HInv'
<1>1. /\ queue # <<>> /\ running = FALSE /\ running' = TRUE
      /\ UNCHANGED <<host, used, queue, lane, slots, emitted, told>>
      /\ IF Head(queue).kind = "context"
         THEN count' = 0 /\ counted' = {}
         ELSE UNCHANGED <<count, counted>>
  BY DEF StartKernel, CanStart, HInv, HTypeOK
<1>2. /\ Finished' = Finished /\ Started' = Finished + 1 /\ Started = Finished
      /\ Finished \in Nat /\ Finished + 1 \in Launches
      /\ (RunsContext' <=> Head(queue).kind = "context") /\ ~RunsContext
  BY <1>1, HeadIs DEF Finished, Started, RunsContext
<1>3. HTypeOK'
  BY <1>1 DEF HInv, HTypeOK, host
<1>4. Order'
  BY <1>1, <1>2 DEF HInv, Order, host
<1>5. Counter'
  <2>1. \A k \in Launches : k > Finished => emitted[k] = 0
    BY <1>2 DEF HInv, Counter
  <2>2. \A k \in counted : k \in Nat /\ k <= Finished
    BY <1>2 DEF HInv, HTypeOK, Counter, Launches
  <2>3. CASE Head(queue).kind = "context"
    <3>1. emitted'[Finished + 1] = 0
      BY <1>1, <1>2, <2>1
    <3> QED BY <1>1, <1>2, <2>1, <2>3, <3>1 DEF Counter, Launches
  <2>4. CASE Head(queue).kind # "context"
    BY <1>1, <1>2, <2>1, <2>2, <2>4 DEF HInv, Counter, Launches
  <2> QED BY <2>3, <2>4
<1>6. Filled'
  <2>1. \A l \in Lanes : lane[l] = NoIndex
    BY <1>2 DEF HInv, Filled
  <2>2. CASE Head(queue).kind = "context"
    <3>1. \A i \in Indices : ~(i < count')
      BY <1>1, <2>2 DEF Indices
    <3> QED BY <1>1, <2>1, <3>1 DEF Filled
  <2>3. CASE Head(queue).kind # "context"
    BY <1>1, <2>1, <2>3 DEF HInv, Filled
  <2> QED BY <2>2, <2>3
<1> QED BY <1>3, <1>4, <1>5, <1>6 DEF HInv

LEMMA TakeIndexInv ==
  ASSUME HInv, NEW l \in Lanes, TakeIndex(l)
  PROVE  HInv'
<1> DEFINE h == Finished + 1
<1>1. queue # <<>> /\ RunsContext /\ running = TRUE
  BY DEF TakeIndex, Running, RunsContext, HInv, HTypeOK, Order
<1>2. /\ h \in Launches /\ Finished \in Nat /\ Head(queue).launch = h
  BY <1>1, HeadIs
<1>3. /\ emitted' = [emitted EXCEPT ![h] = @ + 1]
      /\ counted' = counted \cup {h}
      /\ lane' = [lane EXCEPT ![l] = count]
      /\ count' = count + 1 /\ count \in Nat
      /\ UNCHANGED <<host, stream, slots, told>>
  BY <1>2 DEF TakeIndex, HInv, HTypeOK
<1>4. Finished' = Finished /\ Started' = h /\ Started = h /\ RunsContext'
  BY <1>1, <1>3 DEF Finished, Started, RunsContext, stream
<1>5. counted \subseteq {h} /\ emitted[h] = count
  BY <1>1 DEF HInv, Counter
<1> HIDE DEF h
<1>6. HTypeOK'
  BY <1>2, <1>3 DEF HInv, HTypeOK, host, stream
<1>7. Order'
  BY <1>3, <1>4 DEF HInv, Order, host, stream
<1>8. emitted'[h] = count' /\ \A k \in Launches : k # h => emitted'[k] = emitted[k]
  BY <1>2, <1>3, <1>5 DEF HInv, HTypeOK
<1>9. Counter'
  <2>1. \A k \in Launches : k > h => emitted'[k] = 0
    BY <1>2, <1>4, <1>8 DEF HInv, Counter, Launches
  <2>2. counted' = {h}
    BY <1>3, <1>5
  <2> QED BY <1>4, <1>8, <1>2, <2>1, <2>2 DEF Counter, Launches, h
<1>10. Filled'
  <2>1. h \in counted' /\ Finished' + 1 = h
    BY <1>3, <1>4 DEF h
  <2>2. ASSUME NEW i \in Indices, i < count'
        PROVE  slots'[i] \in counted' \/ \E m \in Lanes : lane'[m] = i
    <3>1. CASE i = count
      BY <1>3, <3>1 DEF HInv, HTypeOK
    <3>2. CASE i < count
      <4>1. CASE slots[i] \in counted
        BY <1>3, <4>1
      <4>2. CASE \E m \in Lanes : lane[m] = i
        <5>1. PICK m \in Lanes : lane[m] = i
          BY <4>2
        <5>2. lane[l] = NoIndex /\ i # NoIndex
          BY DEF TakeIndex, Indices, NoIndex
        <5>3. m # l
          BY <5>1, <5>2
        <5>4. lane'[m] = i
          BY <1>3, <5>1, <5>3 DEF HInv, HTypeOK
        <5> QED BY <5>4
      <4> QED BY <3>2, <4>1, <4>2 DEF HInv, Filled
    <3> QED BY <1>3, <2>2, <3>1, <3>2 DEF Indices
  <2> QED BY <1>4, <2>1, <2>2 DEF Filled
<1> QED BY <1>6, <1>7, <1>9, <1>10 DEF HInv

LEMMA StoreDiagnosticInv ==
  ASSUME HInv, NEW l \in Lanes, StoreDiagnostic(l)
  PROVE  HInv'
<1> DEFINE h == Finished + 1
           j == lane[l]
<1>1. queue # <<>> /\ RunsContext /\ j # NoIndex
  BY DEF StoreDiagnostic, Running, RunsContext, HInv, Order
<1>2. /\ h \in Launches /\ Head(queue).launch = h /\ h \in counted /\ j \in Nat
  <2>1. h \in Launches /\ Head(queue).launch = h
    BY <1>1, HeadIs
  <2>2. h \in counted
    BY <1>1 DEF HInv, Filled
  <2>3. lane \in [Lanes -> Nat \cup {NoIndex}]
    BY DEF HInv, HTypeOK
  <2>4. j \in Nat
    BY <1>1, <2>3
  <2> QED BY <2>1, <2>2, <2>4
<1>3. /\ slots' = IF j < Capacity THEN [slots EXCEPT ![j] = h] ELSE slots
      /\ lane' = [lane EXCEPT ![l] = NoIndex]
      /\ UNCHANGED <<host, stream, count, emitted, counted, told>>
  BY <1>2 DEF StoreDiagnostic
<1>4. Finished' = Finished /\ Started' = Started /\ RunsContext'
  BY <1>1, <1>3 DEF Finished, Started, RunsContext, stream
<1>5. HTypeOK'
  <2>1. slots' \in [Indices -> Nat]
    BY <1>2, <1>3 DEF HInv, HTypeOK, Indices, Launches
  <2>2. lane' \in [Lanes -> Nat \cup {NoIndex}]
    BY <1>3 DEF HInv, HTypeOK
  <2> QED BY <1>3, <2>1, <2>2 DEF HInv, HTypeOK, host, stream
<1>6. Order'
  BY <1>3, <1>4 DEF HInv, Order, host, stream
<1>7. Counter'
  BY <1>1, <1>3, <1>4 DEF HInv, Counter
<1>8. Filled'
  <2>1. ASSUME NEW i \in Indices, i < count'
        PROVE  slots'[i] \in counted' \/ \E m \in Lanes : lane'[m] = i
    <3>1. CASE i = j
      <4>1. slots'[i] = h
        BY <1>3, <3>1 DEF HInv, HTypeOK, Indices
      <4> QED BY <1>2, <1>3, <4>1
    <3>2. CASE i # j
      <4>1. slots'[i] = slots[i]
        BY <1>3, <3>2 DEF HInv, HTypeOK
      <4>2. \A m \in Lanes : lane[m] = i => lane'[m] = i
        BY <1>3, <3>2 DEF HInv, HTypeOK
      <4> QED BY <1>3, <2>1, <4>1, <4>2 DEF HInv, Filled
    <3> QED BY <3>1, <3>2
  <2> QED BY <1>2, <1>3, <1>4, <2>1 DEF Filled
<1> QED BY <1>5, <1>6, <1>7, <1>8 DEF HInv

LEMMA TailIs ==
  ASSUME HInv, queue # <<>>
  PROVE  /\ Tail(queue) \in Seq(Entries)
         /\ Len(Tail(queue)) = Len(queue) - 1
         /\ \A i \in DOMAIN Tail(queue) : i + 1 \in DOMAIN queue /\ Tail(queue)[i] = queue[i + 1]
<1>1. queue \in Seq(Entries)
  BY DEF HInv, HTypeOK
<1> QED BY <1>1

LEMMA EndKernelInv ==
  ASSUME HInv, EndKernel
  PROVE  HInv'
<1>1. /\ queue # <<>> /\ running = TRUE /\ running' = FALSE /\ queue' = Tail(queue)
      /\ \A l \in Lanes : lane[l] = NoIndex
      /\ UNCHANGED <<host, used, device, told>>
  BY DEF EndKernel, HInv, HTypeOK, Order
<1>2. /\ Tail(queue) \in Seq(Entries)
      /\ Len(Tail(queue)) = Len(queue) - 1
      /\ \A i \in DOMAIN Tail(queue) : i + 1 \in DOMAIN queue /\ Tail(queue)[i] = queue[i + 1]
      /\ Finished \in Nat /\ Len(used) \in Nat /\ Len(queue) \in Nat
  BY <1>1, HeadIs, TailIs
<1>3. Finished' = Finished + 1 /\ Started' = Started /\ ~RunsContext'
  BY <1>1, <1>2 DEF Finished, Started, RunsContext
<1>4. HTypeOK'
  BY <1>1, <1>2 DEF HInv, HTypeOK, host, device
<1>5. Order'
  <2>1. \A i \in DOMAIN queue' : queue'[i].launch = Finished + 1 + i
    <3> TAKE i \in DOMAIN queue'
    <3>1. i + 1 \in DOMAIN queue /\ queue'[i] = queue[i + 1] /\ i \in Nat
      BY <1>1, <1>2
    <3>2. queue[i + 1].launch = Finished + (i + 1)
      BY <3>1 DEF HInv, Order
    <3> QED BY <1>2, <3>1, <3>2
  <2>2. ~(call.stage = "copy")
    BY <1>1 DEF HInv, Order
  <2> QED BY <1>1, <1>2, <1>3, <2>1, <2>2 DEF HInv, Order, host
<1>6. Counter'
  BY <1>1, <1>3 DEF HInv, Counter, device
<1>7. Filled'
  BY <1>1, <1>3 DEF HInv, Filled, device
<1> QED BY <1>4, <1>5, <1>6, <1>7 DEF HInv

LEMMA HInitInv == Init => HInv
<1> SUFFICES ASSUME Init PROVE HInv
  OBVIOUS
<1>1. used = <<>> /\ queue = <<>> /\ Len(used) = 0 /\ Len(queue) = 0
  BY DEF Init
<1>2. HTypeOK
  <2>1. used \in Seq(Nat) /\ queue \in Seq(Entries)
    BY <1>1
  <2>2. 1 \in 1 .. GenerationModulus - 1 /\ 0 \in Int /\ 0 \in Nat
    OBVIOUS
  <2>3. lane \in [Lanes -> Nat \cup {NoIndex}] /\ slots \in [Indices -> Nat]
        /\ emitted \in [Launches -> Nat]
    BY DEF Init, Indices
  <2> QED BY <2>1, <2>2, <2>3 DEF Init, HTypeOK
<1>3. Order
  BY <1>1 DEF Init, Order, NoCall
<1>4. Counter
  BY <1>1 DEF Init, Counter, RunsContext
<1>5. Filled
  BY <1>1 DEF Init, Filled, Indices
<1> QED BY <1>2, <1>3, <1>4, <1>5 DEF HInv

LEMMA NextIs ==
  Next <=> \/ HostStep
           \/ \E k \in Kinds : LaunchKernel(k)
           \/ StartKernel
           \/ \E l \in Lanes : TakeIndex(l) \/ StoreDiagnostic(l)
           \/ EndKernel
BY DEF Next, HostStep

LEMMA HNextInv == HInv /\ [Next]_vars => HInv'
<1> SUFFICES ASSUME HInv, [Next]_vars PROVE HInv'
  OBVIOUS
<1>1. CASE UNCHANGED vars
  <2>1. UNCHANGED <<stream, device, host, told>>
    BY <1>1 DEF vars
  <2>2. Finished' = Finished /\ Started' = Started /\ RunsContext' = RunsContext
    BY <2>1 DEF Finished, Started, RunsContext, stream
  <2> QED BY <2>1, <2>2 DEF HInv, HTypeOK, Order, Counter, Filled, host, stream, device
<1> QED BY <1>1, NextIs, HostStepInv, LaunchKernelInv, StartKernelInv, TakeIndexInv,
           StoreDiagnosticInv, EndKernelInv

\* The inductive invariant of the stream and the device.
THEOREM HostInvariance == Spec => []HInv
<1> QED BY HInitInv, HNextInv, PTL DEF Spec

\* What a consumption copies is one kernel's diagnostics, complete up to the
\* capacity (host_context.hpp:181-218).
THEOREM ReportsAreWhole == Spec => []ReportIsWhole
<1>1. HInv => ReportIsWhole
  <2> SUFFICES ASSUME HInv, call.stage = "copy"
               PROVE  /\ \A i \in 0 .. Capacity - 1 : i < count => slots[i] \in counted
                      /\ counted = {} => count = 0
                      /\ \A k \in counted : emitted[k] = count
    BY DEF ReportIsWhole
  <2>1. ~running
    BY DEF HInv, Order
  <2>2. \A l \in Lanes : lane[l] = NoIndex
    BY <2>1 DEF HInv, Filled, RunsContext
  <2>3. \A i \in Indices : \A l \in Lanes : lane[l] # i
    <3>1. \A i \in Indices : i # NoIndex
      BY DEF Indices, NoIndex
    <3> QED BY <2>2, <3>1
  <2> QED BY <2>3 DEF HInv, Counter, Filled, Indices
<1> QED BY <1>1, HostInvariance, PTL

-------------------------------------------------------------------------------
\* Generations

LEMMA NumberedInit == Init => Numbered
BY DEF Init, Numbered, GenerationOf, NoRef

LEMMA NumberedNext ==
  ASSUME LaunchesRefs, MaxLaunches < GenerationModulus, HInv, Numbered, [Next]_vars
  PROVE  Numbered'
<1>1. /\ Len(used) \in Nat /\ used \in Seq(Nat) /\ Len(used) <= MaxLaunches
      /\ ref # NoRef => Len(used) < MaxLaunches
  BY DEF HInv, HTypeOK, Order
<1>2. ASSUME UNCHANGED <<used, ref, generation>>
      PROVE  Numbered'
  BY <1>2 DEF Numbered
<1>3. CASE LaunchRef
  <2>1. /\ ref = NoRef /\ Len(used) < MaxLaunches /\ used' = used
        /\ generation' = NextGeneration /\ ref' = NextGeneration
        /\ generation = GenerationOf(Len(used))
    BY <1>3 DEF LaunchRef, stream, Numbered
  <2>2. NextGeneration = GenerationOf(Len(used) + 1)
    BY <1>1, <2>1 DEF NextGeneration, GenerationOf
  <2>3. NextGeneration # NoRef
    BY <1>1, <2>2 DEF GenerationOf, NoRef
  <2> QED BY <2>1, <2>2, <2>3 DEF Numbered
<1>4. CASE \E k \in Kinds : LaunchKernel(k)
  <2>1. /\ ref # NoRef /\ used' = Append(used, ref) /\ ref' = NoRef /\ generation' = generation
        /\ ref \in Nat
    BY <1>4 DEF LaunchKernel, HInv, HTypeOK
  <2>2. /\ DOMAIN used' = 1 .. Len(used) + 1 /\ Len(used') = Len(used) + 1
        /\ used'[Len(used) + 1] = ref
        /\ \A i \in 1 .. Len(used) : used'[i] = used[i] /\ i \in DOMAIN used
    BY <1>1, <2>1
  <2>3. \A i \in DOMAIN used' : used'[i] = GenerationOf(i)
    <3> TAKE i \in DOMAIN used'
    <3>1. CASE i = Len(used) + 1
      BY <2>1, <2>2, <3>1 DEF Numbered
    <3>2. CASE i \in 1 .. Len(used)
      BY <2>2, <3>2 DEF Numbered
    <3> QED BY <1>1, <2>2, <3>1, <3>2
  <2> QED BY <2>1, <2>2, <2>3 DEF Numbered
<1>5. CASE StartKernel \/ EndKernel \/ \E l \in Lanes : TakeIndex(l) \/ StoreDiagnostic(l)
  BY <1>2, <1>5 DEF StartKernel, EndKernel, TakeIndex, StoreDiagnostic, host, stream
<1>6. CASE HostStep /\ ~LaunchRef
  <2>1. CASE \E k \in {"consume", "check"} : Consume(k)
    BY <1>2, <2>1 DEF Consume, stream
  <2>2. CASE Destroy
    BY <1>2, <2>2 DEF Destroy, stream
  <2>3. CASE Synchronize
    BY <1>2, <2>3 DEF Synchronize, Synchronized, stream
  <2>4. CASE CopyDiagnostics \/ FailConsume
    BY <1>2, <2>4 DEF CopyDiagnostics, FailConsume, Return, stream
  <2>5. CASE \E r, a \in BOOLEAN : SetDestructor(r, a)
    BY <1>2, <2>5 DEF SetDestructor, stream
  <2>6. CASE Ended
    BY <1>2, <2>6 DEF Ended, vars, host, stream
  <2> QED BY <1>6, <2>1, <2>2, <2>3, <2>4, <2>5, <2>6 DEF HostStep
<1>7. CASE UNCHANGED vars
  BY <1>2, <1>7 DEF vars, host, stream
<1> QED BY <1>3, <1>4, <1>5, <1>6, <1>7, NextIs

\* A program that launches its refs, fewer than there are generations, never
\* gives two launches one generation, or one that of cleared metadata
\* (host_context.hpp:362-370).
THEOREM GenerationsAreFresh ==
  ASSUME LaunchesRefs, MaxLaunches < GenerationModulus
  PROVE  Spec => []FreshGenerations
<1> DEFINE Inv == HInv /\ Numbered
<1>1. Init => Inv
  BY HInitInv, NumberedInit
<1>2. Inv /\ [Next]_vars => Inv'
  BY HNextInv, NumberedNext
<1>3. Inv => FreshGenerations
  <2> SUFFICES ASSUME Inv, NEW i \in DOMAIN used
               PROVE  used[i] # 0 /\ \A j \in 1 .. i - 1 : used[j] # used[i]
    BY DEF FreshGenerations
  <2>1. used \in Seq(Nat) /\ Len(used) <= MaxLaunches /\ DOMAIN used = 1 .. Len(used)
        /\ Len(used) \in Nat
    BY DEF HInv, HTypeOK, Order
  <2>2. \A j \in 1 .. i - 1 : j \in DOMAIN used
    BY <2>1
  <2>3. i \in Nat /\ i <= MaxLaunches /\ used[i] = GenerationOf(i)
    BY <2>1 DEF Numbered
  <2>4. \A j \in 1 .. i - 1 : used[j] = GenerationOf(j)
    BY <2>2 DEF Numbered
  <2> QED BY <2>3, <2>4 DEF GenerationOf
<1> QED BY <1>1, <1>2, <1>3, PTL DEF Spec

-------------------------------------------------------------------------------
\* Diagnostics and the program

LEMMA AccountedInit == Init => Accounted
BY DEF Init, Accounted, NoRef

\* What was emitted and is not told is in the counter.
LEMMA AllCounted ==
  ASSUME HInv, Accounted
  PROVE  \A k \in Launches : emitted[k] \in Nat /\ (k \in DOMAIN used <=> k <= Len(used))
                             /\ (emitted[k] > 0 => k <= Len(used))
<1>1. /\ used \in Seq(Nat) /\ Len(used) \in Nat /\ Len(queue) \in Nat /\ Len(queue) <= Len(used)
      /\ emitted \in [Launches -> Nat]
  BY DEF HInv, HTypeOK, Order
<1>2. Started <= Len(used) /\ Started \in Nat
  <2>1. running => Len(queue) > 0
    BY <1>1 DEF HInv, HTypeOK, Order
  <2> QED BY <1>1, <2>1 DEF Started, Finished
<1> QED BY <1>1, <1>2 DEF HInv, Counter, Launches

LEMMA AccountedNext ==
  ASSUME LaunchesRefs, ReadsBetween, HInv, Accounted, [Next]_vars
  PROVE  Accounted'
<1>1. /\ used \in Seq(Nat) /\ Len(used) \in Nat /\ DOMAIN used = 1 .. Len(used)
      /\ Len(used) <= MaxLaunches /\ told \subseteq Launches
      /\ Finished \in Nat /\ Finished <= Len(used)
  BY DEF HInv, HTypeOK, Order, Finished
<1>2. ASSUME UNCHANGED <<stream, device>>, told \subseteq told'
      PROVE  /\ \A k : Settled(k) => Settled(k)'
             /\ \A k \in Launches : emitted'[k] > 0 => k \in told' \cup counted'
             /\ \A k \in DOMAIN used' : k < Len(used') => Settled(k)'
  BY <1>2 DEF Accounted, Settled, Finished, stream, device
<1>3. CASE LaunchRef
  <2>1. /\ UNCHANGED <<stream, device, told>> /\ consumed /\ call = NoCall /\ process = "running"
        /\ process' = "running" /\ consumed' = FALSE
    BY <1>3 DEF LaunchRef, Free
  <2> QED BY <1>2, <2>1 DEF Accounted, stream
<1>4. CASE \E k \in {"consume", "check"} : Consume(k)
  <2>1. /\ UNCHANGED <<stream, device, told>> /\ ref' = NoRef /\ call' # NoCall
        /\ process' = "running"
    BY <1>4 DEF Consume, Free, BeginConsume, NoCall
  <2> QED BY <1>2, <2>1 DEF Accounted, stream
<1>5. CASE Destroy
  <2>1. UNCHANGED <<stream, device, told>> /\ ref' = NoRef /\ UNCHANGED <<reports, aborts>>
    BY <1>5 DEF Destroy, Free
  <2>2. CASE ~consumed /\ (reports \/ aborts)
    <3>1. call' # NoCall /\ process' = "running"
      BY <1>5, <2>2 DEF Destroy, Free, BeginConsume, NoCall
    <3> QED BY <1>2, <2>1, <3>1 DEF Accounted, stream
  <2>3. CASE ~(~consumed /\ (reports \/ aborts))
    <3>1. process' = "released" /\ call = NoCall /\ process = "running"
      BY <1>5, <2>3 DEF Destroy, Free
    <3> QED BY <1>2, <2>1, <2>3, <3>1 DEF Accounted, stream
  <2> QED BY <2>2, <2>3
<1>6. CASE Synchronize
  <2>1. /\ UNCHANGED <<stream, device, told, process, ref, consumed, reports, aborts>>
        /\ call' # NoCall /\ process' = "running"
    <3>1. call # NoCall
      BY <1>6 DEF Synchronize, InStage, NoCall
    <3>2. call' = [call EXCEPT !.stage = "copy"] /\ process = "running"
          /\ UNCHANGED <<stream, device, told, process, ref, consumed, reports, aborts>>
      BY <1>6 DEF Synchronize, Synchronized, InStage
    <3>3. call'.stage = "copy"
      BY <3>1, <3>2, CallIs DEF HInv
    <3> QED BY <3>2, <3>3 DEF NoCall
  <2> QED BY <1>2, <2>1 DEF Accounted, stream
<1>7. CASE CopyDiagnostics
  <2>1. UNCHANGED <<stream, device, ref, consumed>> /\ told' = told \cup counted
        /\ queue = <<>>
    BY <1>7 DEF CopyDiagnostics, InStage, Return, HInv, Order
  <2>2. Finished = Len(used)
    BY <1>1, <2>1 DEF Finished
  <2>3. \A k \in DOMAIN used : Settled(k)'
    <3> TAKE k \in DOMAIN used
    <3>1. k \in Launches /\ k <= Len(used) /\ emitted[k] \in Nat
      BY <1>1, AllCounted DEF Launches
    <3>2. emitted[k] > 0 => k \in told'
      BY <2>1, <3>1 DEF Accounted
    <3> QED BY <2>1, <2>2, <3>1, <3>2 DEF Settled, Finished, stream, device
  <2> QED BY <1>2, <2>1, <2>3 DEF Accounted, stream
<1>8. CASE FailConsume
  <2>1. UNCHANGED <<stream, device, ref, consumed>> /\ told' = told \cup DOMAIN used
    BY <1>8 DEF FailConsume, Return
  <2>2. \A k \in DOMAIN used : Settled(k)'
    BY <2>1 DEF Settled
  <2> QED BY <1>2, <2>1, <2>2 DEF Accounted, stream
<1>9. CASE \E r, a \in BOOLEAN : SetDestructor(r, a)
  <2>1. /\ UNCHANGED <<stream, device, told, process, ref, consumed, call>>
        /\ process = "running"
    BY <1>9 DEF SetDestructor, Free
  <2> QED BY <1>2, <2>1 DEF Accounted, stream
<1>10. CASE Ended \/ UNCHANGED vars
  <2>1. UNCHANGED vars
    BY <1>10 DEF Ended
  <2> QED BY <1>2, <2>1 DEF Accounted, vars, host, stream
<1>11. CASE \E k \in Kinds : LaunchKernel(k)
  <2>1. /\ ref # NoRef /\ used' = Append(used, ref) /\ ref' = NoRef
        /\ ref \in Nat /\ process = "running" /\ call' = call /\ consumed' = consumed
        /\ process' = process
        /\ UNCHANGED <<device, told>>
        /\ Len(queue') = Len(queue) + 1 /\ Len(queue) \in Nat
    BY <1>11 DEF LaunchKernel, Free, HInv, HTypeOK
  <2>2. Len(used') = Len(used) + 1 /\ DOMAIN used' = 1 .. Len(used) + 1
    BY <1>1, <2>1
  <2>3. Finished' = Finished
    BY <1>1, <2>1, <2>2 DEF Finished
  <2>4. \A k \in DOMAIN used : Settled(k)
    BY <2>1 DEF Accounted
  <2>5. \A k \in DOMAIN used' : k < Len(used') => Settled(k)'
    BY <1>1, <2>1, <2>2, <2>3, <2>4 DEF Settled, device
  <2>6. ~consumed
    BY <2>1 DEF Accounted
  <2> QED BY <2>1, <2>5, <2>6 DEF Accounted, device
<1>12. CASE StartKernel
  <2>1. /\ UNCHANGED <<host, used, queue, emitted, told>> /\ queue # <<>> /\ running = FALSE
        /\ counted' = counted \/ counted' = {}
    BY <1>12 DEF StartKernel, CanStart, HInv, HTypeOK
  <2>2. Finished' = Finished /\ Started = Finished
    BY <2>1 DEF Finished, Started
  <2>3. \A k \in counted : k \in DOMAIN used /\ k < Len(used)
    <3>1. Len(queue) > 0 /\ Len(queue) \in Nat
      BY <2>1 DEF HInv, HTypeOK
    <3>2. Finished < Len(used)
      BY <1>1, <3>1 DEF Finished
    <3>3. \A k \in counted : k \in Launches /\ k <= Finished
      BY <2>2 DEF HInv, HTypeOK, Counter
    <3> QED BY <1>1, <3>2, <3>3 DEF Launches
  <2>4. \A k \in Launches : emitted[k] > 0 => k \in told \cup counted'
    <3> SUFFICES ASSUME NEW k \in Launches, emitted[k] > 0, k \in counted
                 PROVE  k \in told
      BY <2>1 DEF Accounted
    <3>1. Settled(k)
      BY <2>3 DEF Accounted
    <3> QED BY <3>1 DEF Settled
  <2>5. \A k : Settled(k) => Settled(k)'
    BY <2>1, <2>2 DEF Settled
  <2> QED BY <2>1, <2>4, <2>5 DEF Accounted, host
<1>13. CASE \E l \in Lanes : TakeIndex(l)
  <2>1. PICK l \in Lanes : TakeIndex(l)
    BY <1>13
  <2>2. queue # <<>> /\ running
    BY <2>1 DEF TakeIndex, Running, HInv, Order
  <2>3. Head(queue).launch = Finished + 1 /\ Finished + 1 \in Launches
    BY <2>2, HeadIs
  <2>4. /\ emitted' = [emitted EXCEPT ![Finished + 1] = @ + 1]
        /\ counted' = counted \cup {Finished + 1}
        /\ UNCHANGED <<host, stream, slots, told>>
    BY <2>1, <2>3 DEF TakeIndex
  <2>5. Finished' = Finished
    BY <2>4 DEF Finished, stream
  <2>6. \A k \in Launches : k # Finished + 1 => emitted'[k] = emitted[k]
    BY <2>4 DEF HInv, HTypeOK
  <2>7. \A k \in DOMAIN used : Settled(k) => Settled(k)'
    <3> TAKE k \in DOMAIN used
    <3>1. k \in Launches
      BY <1>1 DEF Launches
    <3> QED BY <1>1, <2>4, <2>5, <2>6, <3>1 DEF Settled
  <2>8. \A k \in Launches : emitted'[k] > 0 => k \in told \cup counted'
    BY <2>4, <2>6 DEF Accounted
  <2> QED BY <2>4, <2>7, <2>8 DEF Accounted, host, stream
<1>14. CASE \E l \in Lanes : StoreDiagnostic(l)
  <2>1. UNCHANGED <<host, stream, emitted, counted, told>>
    BY <1>14 DEF StoreDiagnostic
  <2> QED BY <2>1 DEF Accounted, Settled, Finished, host, stream
<1>15. CASE EndKernel
  <2>1. UNCHANGED <<host, used, device, told>> /\ queue # <<>> /\ queue' = Tail(queue)
    BY <1>15 DEF EndKernel, HInv, Order
  <2>2. Finished' = Finished + 1
    BY <1>1, <2>1, TailIs, HeadIs DEF Finished
  <2>3. \A k \in DOMAIN used : Settled(k) => Settled(k)'
    BY <1>1, <2>1, <2>2 DEF Settled, device
  <2> QED BY <2>1, <2>3 DEF Accounted, host, device
<1> QED BY <1>3, <1>4, <1>5, <1>6, <1>7, <1>8, <1>9, <1>10, <1>11, <1>12, <1>13, <1>14, <1>15,
           NextIs DEF HostStep

\* A program that launches its refs, and consumes before it takes the next one,
\* never ends quietly with a diagnostic it was not told of, whatever contexts its
\* kernels use (host_context.hpp:106-125).
THEOREM NothingIsLost ==
  ASSUME LaunchesRefs, ReadsBetween
  PROVE  Spec => []NoDiagnosticLost
<1> DEFINE Inv == HInv /\ Accounted
<1>1. Init => Inv
  BY HInitInv, AccountedInit
<1>2. Inv /\ [Next]_vars => Inv'
  BY HNextInv, AccountedNext
<1>3. Inv => NoDiagnosticLost
  <2> SUFFICES ASSUME Inv, process = "released" /\ (reports \/ aborts),
                      NEW k \in Launches, emitted[k] > 0
               PROVE  k \in told
    BY DEF NoDiagnosticLost
  <2>1. k \in DOMAIN used
    BY AllCounted
  <2>2. Settled(k)
    BY <2>1 DEF Accounted
  <2> QED BY <2>2 DEF Settled
<1> QED BY <1>1, <1>2, <1>3, PTL DEF Spec

-------------------------------------------------------------------------------
\* The destructor's abort

LEMMA UnreadInit == Init => Unread
BY DEF Init, Unread, Started, Finished, NoCall

LEMMA StartedIs ==
  ASSUME HInv
  PROVE  /\ Len(used) \in Nat /\ DOMAIN used = 1 .. Len(used)
         /\ Started \in Nat /\ Started <= Len(used)
         /\ queue = <<>> => Started = Len(used)
<1>1. /\ used \in Seq(Nat) /\ Len(used) \in Nat /\ Len(queue) \in Nat /\ Len(queue) <= Len(used)
      /\ queue \in Seq(Entries)
      /\ running => queue # <<>>
  BY DEF HInv, HTypeOK, Order
<1>2. queue = <<>> <=> Len(queue) = 0
  BY <1>1
<1> QED BY <1>1, <1>2 DEF Started, Finished

LEMMA UnreadNext ==
  ASSUME LaunchesRefs, Kinds = {"context"}, HInv, Unread, [Next]_vars
  PROVE  Unread'
<1>1. /\ Len(used) \in Nat /\ DOMAIN used = 1 .. Len(used) /\ used \in Seq(Nat)
      /\ counted \subseteq Launches
  BY StartedIs DEF HInv, HTypeOK
<1>2. counted \subseteq DOMAIN used
  <2> SUFFICES ASSUME NEW k \in counted PROVE k \in DOMAIN used
    OBVIOUS
  <2>1. k \in 1 .. MaxLaunches /\ k <= Started
    BY <1>1 DEF Launches, HInv, Counter
  <2> QED BY <1>1, <2>1, StartedIs
<1>3. ASSUME UNCHANGED <<stream, device>> PROVE counted' \subseteq {Started'}
  BY <1>3 DEF Unread, Started, Finished, stream, device
<1>4. ASSUME UNCHANGED <<host, used, told>>, counted' \subseteq {Started'} PROVE Unread'
  BY <1>4 DEF Unread, host
<1>5. CASE LaunchRef
  <2>1. NextGeneration \in Nat
    BY NextGenerationIs DEF HInv, HTypeOK
  <2>2. /\ ref' # NoRef /\ call = NoCall /\ call' = NoCall
        /\ UNCHANGED <<stream, device, told>>
    BY <1>5, <2>1 DEF LaunchRef, Free, NoRef
  <2> QED BY <1>3, <2>2 DEF Unread, stream, NoCall
<1>6. CASE \E k \in {"consume", "check"} : Consume(k)
  <2>1. UNCHANGED <<stream, device, told, ref, process>> /\ consumed' = TRUE
        /\ call'.kind # "destroy"
    BY <1>6 DEF Consume, BeginConsume
  <2> QED BY <1>3, <2>1 DEF Unread, stream
<1>7. CASE Destroy
  <2>1. UNCHANGED <<stream, device, told, ref>> /\ ref = NoRef /\ process = "running"
        /\ call = NoCall /\ call.kind # "destroy"
    BY <1>7 DEF Destroy, Free, NoCall
  <2>2. CASE ~consumed /\ (reports \/ aborts)
    <3>1. process' = "running" /\ consumed' = TRUE
      BY <1>7, <2>1, <2>2 DEF Destroy, BeginConsume
    <3>2. used # <<>> /\ Len(used) \notin told
      BY <2>1, <2>2 DEF Unread
    <3> QED BY <1>3, <2>1, <3>1, <3>2 DEF Unread, stream
  <2>3. CASE ~(~consumed /\ (reports \/ aborts))
    <3>1. UNCHANGED <<consumed, call>>
      BY <1>7, <2>3 DEF Destroy
    <3> QED BY <1>3, <2>1, <3>1 DEF Unread, stream
  <2> QED BY <2>2, <2>3
<1>8. CASE Synchronize
  <2>1. call # NoCall
    BY <1>8 DEF Synchronize, InStage, NoCall
  <2>2. /\ UNCHANGED <<stream, device, told, ref, consumed, process>>
        /\ call'.kind = call.kind
    BY <1>8, <2>1, CallIs DEF Synchronize, Synchronized, HInv
  <2> QED BY <1>3, <2>1, <2>2 DEF Unread, stream
<1>9. CASE CopyDiagnostics \/ FailConsume
  <2>1. /\ UNCHANGED <<stream, device, ref, consumed>>
        /\ told' \subseteq DOMAIN used
        /\ call # NoCall /\ call' = NoCall
    BY <1>2, <1>9 DEF CopyDiagnostics, FailConsume, Return, InStage, NoCall, Unread
  <2> QED BY <1>3, <2>1 DEF Unread, stream, NoCall
<1>10. CASE \E r, a \in BOOLEAN : SetDestructor(r, a)
  <2>1. UNCHANGED <<stream, device, told, process, ref, consumed, call>>
    BY <1>10 DEF SetDestructor
  <2> QED BY <1>3, <2>1 DEF Unread, stream
<1>11. CASE Ended \/ UNCHANGED vars
  BY <1>3, <1>4, <1>11 DEF Ended, vars, stream
<1>12. CASE \E k \in Kinds : LaunchKernel(k)
  <2>1. /\ used' = Append(used, ref) /\ ref' = NoRef /\ ref \in Nat
        /\ UNCHANGED <<device, told, consumed, call, process, running>>
        /\ Len(queue') = Len(queue) + 1 /\ Len(queue) \in Nat
        /\ call.kind # "destroy"
    BY <1>12 DEF LaunchKernel, HInv, HTypeOK, Unread
  <2>2. Len(used') = Len(used) + 1 /\ DOMAIN used' = 1 .. Len(used) + 1 /\ used' # <<>>
    BY <1>1, <2>1
  <2>3. Started' = Started
    BY <1>1, <2>1, <2>2 DEF Started, Finished
  <2>4. Len(used') \notin told /\ told \subseteq DOMAIN used'
    BY <1>1, <2>2 DEF Unread
  <2> QED BY <2>1, <2>2, <2>3, <2>4 DEF Unread, device
<1>13. CASE StartKernel
  <2>1. Head(queue).kind = "context"
    BY <1>13, HeadIs DEF StartKernel, CanStart, Entries
  <2> QED BY <1>4, <1>13, <2>1 DEF StartKernel
<1>14. CASE \E l \in Lanes : TakeIndex(l)
  <2>1. PICK l \in Lanes : TakeIndex(l)
    BY <1>14
  <2>2. running /\ queue # <<>>
    BY <2>1 DEF TakeIndex, Running, HInv, Order
  <2>3. counted' = counted \cup {Started} /\ UNCHANGED <<host, stream, told>>
    BY <2>1, <2>2, HeadIs DEF TakeIndex, Started
  <2> QED BY <1>4, <2>3 DEF Unread, stream, Started, Finished
<1>15. CASE \E l \in Lanes : StoreDiagnostic(l)
  BY <1>4, <1>15 DEF StoreDiagnostic, stream, Unread, Started, Finished
<1>16. CASE EndKernel
  <2>1. /\ UNCHANGED <<host, used, device, told>> /\ queue # <<>> /\ queue' = Tail(queue)
        /\ running /\ running' = FALSE
    BY <1>16 DEF EndKernel, HInv, Order
  <2>2. Started' = Started
    BY <1>1, <2>1, TailIs, HeadIs DEF Started, Finished
  <2> QED BY <1>4, <2>1, <2>2 DEF Unread, device
<1> QED BY <1>5, <1>6, <1>7, <1>8, <1>9, <1>10, <1>11, <1>12, <1>13, <1>14, <1>15, <1>16,
           NextIs DEF HostStep

\* When every kernel clears the counter and every ref is launched, what the
\* destructor aborts for is a failed call or diagnostics no earlier call has
\* told the program of (host_context.hpp:106-125).
THEOREM TheAbortIsForUnread ==
  ASSUME LaunchesRefs, Kinds = {"context"}
  PROVE  Spec => AbortsForUnread
<1> DEFINE Inv == HInv /\ Unread
           Step == call.kind = "destroy" /\ process' = "aborted"
                     => lastCount' = -1 \/ ~(counted \subseteq told)
<1>1. Init => Inv
  BY HInitInv, UnreadInit
<1>2. Inv /\ [Next]_vars => Inv'
  BY HNextInv, UnreadNext
<1>3. Inv /\ [Next]_vars => [Step]_vars
  <2> SUFFICES ASSUME Inv, Next, call.kind = "destroy", process' = "aborted"
               PROVE  lastCount' = -1 \/ ~(counted \subseteq told)
    OBVIOUS
  <2>1. process = "running" /\ ref = NoRef /\ call # NoCall /\ process' # process
    BY DEF Unread, NoCall
  <2>2. CASE FailConsume
    BY <2>2 DEF FailConsume, Return
  <2>3. CASE CopyDiagnostics
    <3>1. count # 0 /\ queue = <<>>
      BY <2>1, <2>3 DEF CopyDiagnostics, Return, InStage, HInv, Order
    <3>2. counted # {} /\ counted \subseteq {Len(used)}
      BY <3>1, StartedIs DEF HInv, Counter, Unread
    <3> QED BY <3>2 DEF Unread
  <2>4. CASE ~FailConsume /\ ~CopyDiagnostics
    <3>1. process' = process
      BY <2>1, <2>4, NextIs DEF HostStep, LaunchRef, Consume, Destroy, Free, Synchronize,
           Synchronized, SetDestructor, Ended, vars, host, LaunchKernel, StartKernel,
           TakeIndex, StoreDiagnostic, EndKernel
    <3> QED BY <2>1, <3>1
  <2> QED BY <2>2, <2>3, <2>4
<1>4. Spec => [][Step]_vars
  BY <1>1, <1>2, <1>3, PTL DEF Spec
<1> QED BY <1>4 DEF AbortsForUnread

================================================================================
