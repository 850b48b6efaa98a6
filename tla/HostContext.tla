----------------------------- MODULE HostContext -----------------------------
(***************************************************************************)
(* The life of a host_context: refs handed out for launches, kernels that  *)
(* run on the device in the order of one stream and emit diagnostics, and  *)
(* the host calls that consume them: consume_diagnostics, HIP_MOI_CHECK    *)
(* and the destructor.  The host is one thread; a kernel is one workgroup  *)
(* whose lanes emit concurrently.                                          *)
(***************************************************************************)
EXTENDS Integers, Sequences

CONSTANTS Lanes,              \* lanes of a kernel that emit diagnostics
          Capacity,           \* diagnostic_capacity_
          GenerationModulus,  \* 2^64
          Kinds,              \* contexts the kernels use: see KernelKinds
          MaxLaunches,        \* bound of the model: kernels of a run
          MaxEmits,           \* bound of the model: diagnostics of a kernel
          ReadsBetween,       \* programs consume before they take a new ref
          LaunchesRefs,       \* programs launch a ref before the next call
          HipFails            \* HIP calls of a consumption may fail

KernelKinds == {"context", "sampled_watchpoint_context"}

ASSUME HostAssumption ==
    /\ Capacity \in Nat \ {0}
    /\ GenerationModulus \in Nat \ {0, 1}
    /\ Kinds \subseteq KernelKinds
    /\ MaxLaunches \in Nat
    /\ MaxEmits \in Nat
    /\ {ReadsBetween, LaunchesRefs, HipFails} \subseteq BOOLEAN

Launches == 1 .. MaxLaunches
NoIndex == -1
NoRef == -1
NoCall == [kind |-> "none", stage |-> "none"]

VARIABLES
    process,     \* of the program: running, or how the context ended
    generation,  \* generation_
    ref,         \* generation of the ref the program holds, or NoRef
    consumed,    \* diagnostics_consumed_
    reports,     \* destructor_reports_
    aborts,      \* destructor_aborts_
    lastCount,   \* last_diagnostic_count_
    call,        \* the consumption the host is in
    used,        \* generations of the kernels launched so far
    queue,       \* kernels on the stream that have not ended
    running,     \* its head has started
    lane,        \* index each lane took from the counter, before its store
    count,       \* *diagnostic_count
    slots,       \* diagnostics: the launch that wrote each slot, or 0
    emitted,     \* diagnostics each launch emitted
    counted,     \* launches that emitted since the counter was cleared
    told         \* launches whose outcome the program was told

host == <<process, generation, ref, consumed, reports, aborts, lastCount, call>>
stream == <<used, queue, running>>
device == <<lane, count, slots, emitted, counted>>
vars == <<host, stream, device, told>>

Init ==
    /\ process = "running"
    /\ generation = 1
    /\ ref = NoRef
    /\ consumed = TRUE
    /\ reports \in BOOLEAN
    /\ aborts \in BOOLEAN
    /\ lastCount = 0
    /\ call = NoCall
    /\ used = <<>>
    /\ queue = <<>>
    /\ running = FALSE
    /\ lane = [l \in Lanes |-> NoIndex]
    /\ count = 0
    /\ slots = [i \in 0 .. Capacity - 1 |-> 0]
    /\ emitted = [k \in Launches |-> 0]
    /\ counted = {}
    /\ told = {}

Free == process = "running" /\ call = NoCall

(***************************************************************************)
(* Launches.                                                               *)
(***************************************************************************)
\* Mutant: a wrap to the generation of cleared metadata.
NextGenerationZero == (generation + 1) % GenerationModulus

\* next_generation
NextGeneration == IF generation + 1 = GenerationModulus THEN 1 ELSE generation + 1

\* Mutant: what was consumed stays consumed.
LaunchRefQuiet ==
    /\ Free
    /\ Len(used) < MaxLaunches
    /\ ReadsBetween => consumed
    /\ LaunchesRefs => ref = NoRef
    /\ generation' = NextGeneration
    /\ ref' = NextGeneration
    /\ UNCHANGED <<process, consumed, reports, aborts, lastCount, call,
                   stream, device, told>>

LaunchRef ==
    /\ Free
    /\ Len(used) < MaxLaunches
    /\ ReadsBetween => consumed
    /\ LaunchesRefs => ref = NoRef
    /\ consumed' = FALSE
    /\ generation' = NextGeneration
    /\ ref' = NextGeneration
    /\ UNCHANGED <<process, reports, aborts, lastCount, call,
                   stream, device, told>>

\* The program launches a kernel with the ref, once.
LaunchKernel(k) ==
    /\ Free
    /\ ref # NoRef
    /\ used' = Append(used, ref)
    /\ queue' = Append(queue, [launch |-> Len(used) + 1, kind |-> k])
    /\ ref' = NoRef
    /\ UNCHANGED <<process, generation, consumed, reports, aborts, lastCount,
                   call, running, device, told>>

(***************************************************************************)
(* Kernels.                                                                *)
(***************************************************************************)
Running(k) == process = "running" /\ running /\ Head(queue).kind = k

CanStart == process = "running" /\ queue # <<>> /\ ~running

\* Mutant: init_workgroup leaves the counter alone.
StartKernelKeepsCount ==
    /\ CanStart
    /\ running' = TRUE
    /\ UNCHANGED <<host, used, queue, device, told>>

\* init_workgroup: only the general context clears the counter.
StartKernel ==
    /\ CanStart
    /\ running' = TRUE
    /\ IF Head(queue).kind = "context"
       THEN count' = 0 /\ counted' = {}
       ELSE UNCHANGED <<count, counted>>
    /\ UNCHANGED <<host, used, queue, lane, slots, emitted, told>>

\* emit_diagnostic: a lane takes an index from the counter, ...
TakeIndex(l) ==
    /\ Running("context")
    /\ lane[l] = NoIndex
    /\ LET k == Head(queue).launch IN
         /\ emitted[k] < MaxEmits
         /\ emitted' = [emitted EXCEPT ![k] = @ + 1]
         /\ counted' = counted \cup {k}
    /\ lane' = [lane EXCEPT ![l] = count]
    /\ count' = count + 1
    /\ UNCHANGED <<host, stream, slots, told>>

\* ... and stores its record if the index is in the array.
StoreDiagnostic(l) ==
    /\ Running("context")
    /\ lane[l] # NoIndex
    /\ slots' = IF lane[l] < Capacity
                THEN [slots EXCEPT ![lane[l]] = Head(queue).launch]
                ELSE slots
    /\ lane' = [lane EXCEPT ![l] = NoIndex]
    /\ UNCHANGED <<host, stream, count, emitted, counted, told>>

EndKernel ==
    /\ process = "running"
    /\ running
    /\ \A l \in Lanes : lane[l] = NoIndex
    /\ queue' = Tail(queue)
    /\ running' = FALSE
    /\ UNCHANGED <<host, used, device, told>>

(***************************************************************************)
(* Consumption.                                                            *)
(***************************************************************************)
BeginConsume(k) ==
    /\ consumed' = TRUE
    /\ call' = [kind |-> k, stage |-> "synchronize"]

\* consume_diagnostics, and check_or_abort around it
Consume(k) ==
    /\ Free
    /\ LaunchesRefs => ref = NoRef
    /\ BeginConsume(k)
    /\ UNCHANGED <<process, generation, ref, reports, aborts, lastCount,
                   stream, device, told>>

\* The destructor consumes unless someone did or both its switches are off.
Destroy ==
    /\ Free
    /\ LaunchesRefs => ref = NoRef
    /\ IF ~consumed /\ (reports \/ aborts)
       THEN BeginConsume("destroy") /\ UNCHANGED process
       ELSE process' = "released" /\ UNCHANGED <<consumed, call>>
    /\ UNCHANGED <<generation, ref, reports, aborts, lastCount,
                   stream, device, told>>

InStage(s) == process = "running" /\ call.stage = s

Synchronized == /\ call' = [call EXCEPT !.stage = "copy"]
                /\ UNCHANGED <<process, generation, ref, consumed, reports,
                               aborts, lastCount, stream, device, told>>

\* Mutant: the copy does not wait for the kernels.
SynchronizeEarly == InStage("synchronize") /\ Synchronized

\* hipDeviceSynchronize
Synchronize == InStage("synchronize") /\ queue = <<>> /\ Synchronized

\* consume_diagnostics returns n to its caller, which may abort.
Return(n) ==
    /\ lastCount' = n
    /\ call' = NoCall
    /\ process' = IF n # 0 /\ (call.kind = "check" \/ (call.kind = "destroy" /\ aborts))
                  THEN "aborted"
                  ELSE IF call.kind = "destroy" THEN "released" ELSE "running"
    /\ UNCHANGED <<generation, ref, consumed, reports, aborts, stream, device>>

\* The counter and the stored records reach the host.
CopyDiagnostics ==
    /\ InStage("copy")
    /\ Return(count)
    /\ told' = told \cup counted

\* A HIP call fails: the program is told so, whatever its kernels did.
FailConsume ==
    /\ HipFails
    /\ process = "running"
    /\ call # NoCall
    /\ Return(-1)
    /\ told' = told \cup DOMAIN used

\* set_destructor_reporting_enabled and set_destructor_abort_enabled
SetDestructor(r, a) ==
    /\ Free
    /\ reports' = r
    /\ aborts' = a
    /\ UNCHANGED <<process, generation, ref, consumed, lastCount, call,
                   stream, device, told>>

\* The context is gone.
Ended == process # "running" /\ UNCHANGED vars

Next ==
    \/ LaunchRef
    \/ \E k \in Kinds : LaunchKernel(k)
    \/ StartKernel
    \/ \E l \in Lanes : TakeIndex(l) \/ StoreDiagnostic(l)
    \/ EndKernel
    \/ \E k \in {"consume", "check"} : Consume(k)
    \/ Destroy
    \/ Synchronize
    \/ CopyDiagnostics
    \/ FailConsume
    \/ \E r, a \in BOOLEAN : SetDestructor(r, a)
    \/ Ended

Spec == Init /\ [][Next]_vars

(***************************************************************************)
(* Properties.                                                             *)
(***************************************************************************)
\* The destructor does not let diagnostics go by: unless both switches are
\* off, a context that ends quietly has told of every launch that emitted.
NoDiagnosticLost ==
    process = "released" /\ (reports \/ aborts)
        => \A k \in Launches : emitted[k] > 0 => k \in told

\* What a consumption is about to copy (host_context.hpp 181-218) is whole:
\* the counter says what the latest counted launch emitted, and each record
\* below it was written by that launch.
ReportIsWhole ==
    call.stage = "copy" =>
        /\ \A i \in 0 .. Capacity - 1 : i < count => slots[i] \in counted
        /\ counted = {} => count = 0
        /\ \A k \in counted : emitted[k] = count

\* No launch meets metadata of an earlier launch, or cleared metadata, that
\* bears its own generation (host_context.hpp 362-370).
FreshGenerations ==
    \A i \in DOMAIN used : /\ used[i] # 0
                           /\ \A j \in 1 .. i - 1 : used[j] # used[i]

\* The destructor aborts for diagnostics nobody has consumed, or for a failed
\* HIP call, and for nothing else (host_context.hpp 106-125).
AbortsForUnread ==
    [][call.kind = "destroy" /\ process' = "aborted"
          => lastCount' = -1 \/ ~(counted \subseteq told)]_vars
==============================================================================
