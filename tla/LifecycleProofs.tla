-------------------------- MODULE LifecycleProofs ---------------------------
(***************************************************************************)
(* Proofs about Lifecycle, for any configuration: any number of backends,  *)
(* devices, tags and stop requests; and about AllocationTracker on top of  *)
(* it, for any size of its table.                                          *)
(***************************************************************************)
EXTENDS AllocationTracker, FiniteSetTheorems, TLAPS

\* Where main is before anything is started, and from the first thing freed on.
Constructing ==
    {"create", "mark", "create_backends", "create_devices", "finalize", "tags"}

Dismantling == {"destroy", "release", "free", "cleaned", "exited", "killed"}

\* The entries of backends that the loop of main has not handled yet.
Ahead == {backends[k] : k \in {l \in DOMAIN backends : l >= n}}

\* Loops start at 1, main joins a backend that is there, and a request under
\* way is within the bound.
LoopInv ==
    /\ TypeOK
    /\ n >= 1
    /\ main = "join" => n \in DOMAIN backends
    /\ handler = "seen" => requests < MaxRequests

\* What has been built when: devices one by one with the loop, slaves among
\* them, no backend twice.
BuildInv ==
    /\ main \in {"create", "mark"} => backends = <<>>
    /\ main = "create_backends" =>
          Len(backends) < n /\ \A k \in DOMAIN backends : backends[k] < n
    /\ Len(backends) <= BackendCount
    /\ \A k, l \in DOMAIN backends : k < l => backends[k] < backends[l]
    /\ main \in {"create", "mark", "create_backends"} => device_count = 0
    /\ main = "create_devices" => n = device_count + 1
    /\ main \notin {"create", "mark", "create_backends", "create_devices"} \cup Over
          => device_count = DeviceCount
    /\ \A b \in Backend : slaves[b] \subseteq 1 .. device_count
    /\ \A b \in Backend : slaves[b] # {} => b \in Registered

\* Who may be alive when.
AliveInv ==
    /\ alive \subseteq Registered \cup {Scheduler}
    /\ main \in Constructing \cup {"stopped"} \cup Dismantling => alive = {}
    /\ main \in {"start", "start_scheduler", "stop", "join"} => Scheduler \notin alive
    /\ main \in {"stop", "join"} => alive \subseteq Ahead

\* Whose slaves may be asked to be OPERATIONAL when.
AskedInv ==
    \A b \in Backend : asked[b] = "OPERATIONAL" =>
        /\ b \in Registered
        /\ main \notin Constructing \cup {"stopped"} \cup (Dismantling \ {"killed"})
        /\ main \in {"stop", "join"} => b \in Ahead

\* Which backends have their slaves mapped.
MappedInv ==
    /\ finalized \subseteq Registered
    /\ main \in {"create", "mark", "create_backends", "create_devices"} => finalized = {}
    /\ main = "finalize" =>
          \A k \in DOMAIN backends : k < n => backends[k] \in finalized
    /\ main \notin (Constructing \ {"tags"}) \cup Over =>
          \A k \in DOMAIN backends : k <= DeviceCount => backends[k] \in finalized

\* What is allocated at least, until the first thing is freed.
HeapHas ==
    main \notin {"create"} \cup Dismantling =>
        /\ runtime \in heap
        /\ \A b \in Registered : driver(b) \in heap /\ iomap(b) \in heap
        /\ \A d \in 1 .. device_count : device(d) \in heap
        /\ \A b \in finalized : \A d \in slaves[b] : buffers(d) \in heap

\* What is allocated at most, while it is built and while it is freed.
Held(S, devs) ==
    {runtime, plc_vars} \cup {driver(b) : b \in S} \cup {iomap(b) : b \in S}
        \cup {device(d) : d \in devs}
        \cup UNION {{buffers(d) : d \in slaves[b]} : b \in S}

HeapBound ==
    /\ main = "create" => heap = {}
    /\ main \notin {"destroy", "release", "free", "cleaned"} \cup Over =>
          heap \subseteq Held(Registered, 1 .. device_count)
    /\ main = "destroy" => heap \subseteq Held(Ahead, 1 .. device_count)
    /\ main = "release" => heap \subseteq Held({}, n .. device_count)
    /\ main = "free" => heap \subseteq {runtime, plc_vars}
    /\ main = "cleaned" => heap = {}

IInv ==
    LoopInv /\ BuildInv /\ AliveInv /\ AskedInv /\ MappedInv /\ HeapHas /\ HeapBound

-----------------------------------------------------------------------------
\* Where a loop ends, and what it leads to.
LEMMA LoopEnds ==
  ASSUME EndLoop
  PROVE  /\ n' = 1
         /\ \/ main = "create_backends" /\ n > BackendCount /\ main' = "create_devices"
            \/ main = "create_devices" /\ n > DeviceCount /\ main' = "finalize"
            \/ main = "finalize" /\ n > DeviceCount /\ main' = "tags"
            \/ main = "start" /\ n > Len(backends) /\ main' = "start_scheduler"
            \/ main = "stop" /\ n > Len(backends) /\ main' = "stopped"
            \/ main = "destroy" /\ n > Len(backends) /\ main' = "release"
            \/ main = "release" /\ n > device_count /\ main' = "free"
BY DEF EndLoop, Limit, Rounds, Follows, Enter

\* How far a loop goes.
LEMMA LoopGoesTo ==
  /\ InLoop("create_backends") => main = "create_backends" /\ n <= BackendCount
  /\ InLoop("create_devices") => main = "create_devices" /\ n <= DeviceCount
  /\ InLoop("finalize") => main = "finalize" /\ n <= DeviceCount
  /\ InLoop("start") => main = "start" /\ n <= Len(backends)
  /\ InLoop("stop") => main = "stop" /\ n <= Len(backends)
  /\ InLoop("destroy") => main = "destroy" /\ n <= Len(backends)
  /\ InLoop("release") => main = "release" /\ n <= device_count
BY DEF InLoop, Limit, Rounds

\* A loop over backends is at one of them.
LEMMA LoopAtBackend ==
  ASSUME LoopInv, main \notin Over, n <= Len(backends)
  PROVE  /\ n \in DOMAIN backends /\ backends[n] \in Backend
         /\ backends[n] \in Registered /\ backends[n] \in Ahead
<1>1. backends \in Seq(Backend) /\ n \in Nat /\ n >= 1
  BY DEF LoopInv, TypeOK
<1>2. n \in DOMAIN backends
  BY <1>1
<1>3. QED
  BY <1>1, <1>2 DEF Registered, ToSet, Ahead

\* The outcomes of creating a backend.
LEMMA CreateBackendDoes ==
  ASSUME LoopInv, CreateBackend
  PROVE  /\ main = "create_backends" /\ n \in Backend
         /\ UNCHANGED <<device_count, slaves, finalized, asked, misused>>
         /\ \/ main' = main /\ n' = n + 1 /\ UNCHANGED <<backends, heap>>
            \/ /\ main' = "exited" /\ n' = n /\ UNCHANGED backends
               /\ heap' = heap \cup {driver(n)}
            \/ /\ main' = main /\ n' = n + 1
               /\ backends' = Append(backends, n)
               /\ heap' = heap \cup {driver(n), iomap(n)}
<1>1. n \in Nat /\ n >= 1 /\ BackendCount \in Nat
  BY LifecycleAssumption DEF LoopInv, TypeOK
<1>2. main = "create_backends" /\ n \in Backend
  BY <1>1, LoopGoesTo DEF CreateBackend, Backend
<1>3. QED
  BY <1>2 DEF CreateBackend, NextRound, Goto, Alloc, memory, devices

\* The outcomes of creating a device.
LEMMA CreateDeviceDoes ==
  ASSUME LoopInv, CreateDevice
  PROVE  /\ main = "create_devices" /\ n \in Device
         /\ UNCHANGED <<backends, finalized, asked, misused>>
         /\ \/ /\ main' = main /\ n' = n + 1
               /\ device_count' = device_count + 1
               /\ heap' = heap \cup {device(n)}
               /\ \/ slaves' = slaves
                  \/ /\ backend_of[n] \in Registered
                     /\ slaves' = [slaves EXCEPT ![backend_of[n]] = @ \cup {n}]
            \/ /\ main' = "exited" /\ n' = n
               /\ UNCHANGED <<device_count, slaves>>
               /\ heap' \in {heap, heap \cup {device(n)}}
<1>1. n \in Nat /\ n >= 1 /\ DeviceCount \in Nat
  BY LifecycleAssumption DEF LoopInv, TypeOK
<1>2. main = "create_devices" /\ n \in Device
  BY <1>1, LoopGoesTo DEF CreateDevice, Device
<1>3. QED
  BY <1>2 DEF CreateDevice, NextRound, Goto, Alloc, memory, devices

\* The outcomes of a round of finalize.
LEMMA FinalizeDoes ==
  ASSUME LoopInv, Finalize
  PROVE  /\ main = "finalize" /\ n <= DeviceCount
         /\ UNCHANGED <<backends, device_count, slaves, misused>>
         /\ \/ /\ n > Len(backends) /\ main' = main /\ n' = n + 1
               /\ UNCHANGED <<finalized, asked, heap>>
            \/ /\ n <= Len(backends) /\ main' = main /\ n' = n + 1
               /\ finalized' = finalized \cup {backends[n]}
               /\ asked' = [asked EXCEPT ![backends[n]] = "SAFE_OP"]
               /\ heap' = heap \cup {buffers(d) : d \in slaves[backends[n]]}
            \/ /\ n <= Len(backends) /\ main' = "exited" /\ n' = n
               /\ UNCHANGED <<finalized, asked>>
               /\ \E S \in SUBSET slaves[backends[n]] :
                     heap' = heap \cup {buffers(d) : d \in S}
<1>1. main = "finalize" /\ n <= DeviceCount
  BY LoopGoesTo DEF Finalize
<1>2. CASE n > Len(backends)
  BY <1>1, <1>2 DEF Finalize, NextRound, memory, devices
<1>3. CASE n <= Len(backends) /\ ~(n > Len(backends))
  <2> DEFINE b == backends[n]
             Upto(failed) == {d \in slaves[b] : d < failed}
  <2>1. UNCHANGED <<backends, device_count, slaves>>
    BY <1>3 DEF Finalize, devices
  <2>2. \/ /\ NextRound
           /\ finalized' = finalized \cup {b}
           /\ asked' = [asked EXCEPT ![b] = "SAFE_OP"]
           /\ Alloc({buffers(d) : d \in slaves[b]})
        \/ Goto("exited") /\ UNCHANGED <<finalized, asked, memory>>
        \/ \E failed \in slaves[b] :
              /\ Goto("exited")
              /\ Alloc({buffers(d) : d \in Upto(failed)})
              /\ UNCHANGED <<finalized, asked>>
    BY <1>3, Zenon DEF Finalize
  <2>3. CASE /\ NextRound
             /\ finalized' = finalized \cup {b}
             /\ asked' = [asked EXCEPT ![b] = "SAFE_OP"]
             /\ Alloc({buffers(d) : d \in slaves[b]})
    BY <1>1, <1>3, <2>1, <2>3 DEF NextRound, Alloc
  <2>4. CASE Goto("exited") /\ UNCHANGED <<finalized, asked, memory>>
    <3>1. heap' = heap \cup {buffers(d) : d \in {}}
      BY <2>4 DEF memory
    <3>2. QED
      BY <1>1, <1>3, <2>1, <2>4, <3>1 DEF Goto, memory
  <2>5. ASSUME NEW failed \in slaves[b], Goto("exited"),
               Alloc({buffers(d) : d \in Upto(failed)}),
               UNCHANGED <<finalized, asked>>
        PROVE  /\ main' = "exited" /\ n' = n /\ misused' = misused
               /\ UNCHANGED <<finalized, asked>>
               /\ \E S \in SUBSET slaves[b] :
                     heap' = heap \cup {buffers(d) : d \in S}
    <3>1. Upto(failed) \in SUBSET slaves[b]
      OBVIOUS
    <3>2. heap' = heap \cup {buffers(d) : d \in Upto(failed)}
      BY <2>5 DEF Alloc
    <3>3. QED
      BY <2>5, <3>1, <3>2, Zenon DEF Goto, Alloc
  <2>6. QED
    BY <1>1, <1>3, <2>1, <2>2, <2>3, <2>4, <2>5, Zenon
<1>4. n \in Nat /\ Len(backends) \in Nat
  BY DEF LoopInv, TypeOK
<1>5. QED
  BY <1>2, <1>3, <1>4

LEMMA InvInit == Init => IInv
<1> SUFFICES ASSUME Init PROVE IInv
  OBVIOUS
<1>1. Registered = {}
  BY DEF Init, Registered, ToSet
<1>2. LoopInv
  <2>1. backends \in Seq(Backend) /\ n \in Nat /\ n >= 1
        /\ main # "join" /\ handler # "seen"
    BY DEF Init
  <2>2. device_count \in 0 .. DeviceCount /\ requests \in 0 .. MaxRequests
    BY LifecycleAssumption DEF Init
  <2>3. /\ asked \in [Backend -> {"PRE_OP", "SAFE_OP", "OPERATIONAL"}]
        /\ slaves \in [Backend -> SUBSET Device]
    BY DEF Init
  <2>4. QED
    BY <2>1, <2>2, <2>3 DEF Init, LoopInv, TypeOK
<1>3. BuildInv
  BY LifecycleAssumption DEF Init, BuildInv, Over
<1>4. AliveInv /\ AskedInv /\ MappedInv
  BY <1>1 DEF Init, AliveInv, AskedInv, MappedInv, Constructing, Over
<1>5. HeapHas /\ HeapBound
  BY DEF Init, HeapHas, HeapBound, Over
<1>6. QED
  BY <1>2, <1>3, <1>4, <1>5 DEF IInv

-----------------------------------------------------------------------------
LEMMA LoopsOf ==
  DOMAIN Limit = {"create_backends", "create_devices", "finalize", "start",
                  "stop", "destroy", "release"}
BY DEF Limit, Rounds

LEMMA BuildKeepsLoopInv ==
  ASSUME IInv, Build, UNCHANGED <<config, console>>
  PROVE  LoopInv'
<1> USE LoopsOf DEF IInv, LoopInv, Build, config, console, memory, counts, devices
<1>0. DOMAIN Limit' = DOMAIN Limit
  BY DEF Limit, Rounds
<1>1. CASE CreateRuntime
  BY <1>0, <1>1 DEF CreateRuntime, Goto, Alloc, TypeOK, Over, Objects
<1>2. CASE CreateBackend
  <2>1. n \in Backend /\ main = "create_backends"
    BY <1>2, LoopGoesTo DEF CreateBackend, TypeOK, Backend
  <2>2. heap' \subseteq Objects /\ misused' = misused
    BY <1>2, <2>1 DEF CreateBackend, Alloc, TypeOK, Objects
  <2>3. backends' \in Seq(Backend)
    BY <1>2, <2>1 DEF CreateBackend, TypeOK
  <2>4. n' \in Nat /\ n' >= 1 /\ main' \in {"create_backends", "exited"}
    BY <1>2, <2>1 DEF CreateBackend, Goto, NextRound, TypeOK
  <2>5. QED
    BY <1>0, <1>2, <2>2, <2>3, <2>4 DEF CreateBackend, TypeOK, Over
<1>3. CASE CreateDevice
  <2>1. n \in Device /\ n = device_count + 1 /\ main = "create_devices"
    BY <1>3, CreateDeviceDoes DEF BuildInv
  <2>2. heap' \subseteq Objects /\ misused' = misused
    BY <1>3, <2>1, CreateDeviceDoes DEF TypeOK, Objects
  <2>3. device_count' \in 0 .. DeviceCount
    BY <1>3, <2>1, CreateDeviceDoes DEF TypeOK, Device
  <2>4. slaves' \in [Backend -> SUBSET Device]
    BY <1>3, <2>1, CreateDeviceDoes DEF TypeOK
  <2>5. n' \in Nat /\ n' >= 1 /\ main' \in {"create_devices", "exited"}
    BY <1>3, CreateDeviceDoes DEF Device
  <2>6. QED
    BY <1>0, <1>3, <2>2, <2>3, <2>4, <2>5, CreateDeviceDoes DEF TypeOK, Over
<1>4. CASE Finalize
  <2>1. n <= Len(backends) => backends[n] \in Backend
    BY <1>4, FinalizeDoes, LoopAtBackend DEF Over
  <2>2. heap' \subseteq Objects /\ misused' = misused
    BY <1>4, <2>1, FinalizeDoes DEF TypeOK, Objects
  <2>3. /\ finalized' \subseteq Backend
        /\ asked' \in [Backend -> {"PRE_OP", "SAFE_OP", "OPERATIONAL"}]
    BY <1>4, <2>1, FinalizeDoes DEF TypeOK
  <2>4. n' \in Nat /\ n' >= 1 /\ main' \in {"finalize", "exited"}
    BY <1>4, FinalizeDoes DEF TypeOK
  <2>5. QED
    BY <1>0, <1>4, <2>2, <2>3, <2>4, FinalizeDoes DEF TypeOK, Over
<1>5. CASE CreateTags
  BY <1>0, <1>5 DEF CreateTags, Goto, Alloc, TypeOK, Over, Objects
<1>6. QED
  BY <1>1, <1>2, <1>3, <1>4, <1>5

\* What a thread works on is among the objects.
LEMMA ImageIsTyped ==
  ASSUME TypeOK, NEW b \in Backend
  PROVE  Image(b) \subseteq Objects
BY DEF TypeOK, Image, Objects

LEMMA WorkIsTyped ==
  ASSUME TypeOK, AliveInv, Work
  PROVE  heap' = heap /\ misused' \subseteq Objects
<1>1. PICK t \in alive :
        IF t = Scheduler
        THEN Use({runtime, plc_vars} \cup {device(d) : d \in 1 .. device_count}
                     \cup UNION {Image(b) : b \in Registered})
        ELSE Use({iomap(t)} \cup Image(t))
  BY DEF Work, ThreadWorks
<1>2. Registered \subseteq Backend /\ 1 .. device_count \subseteq Device
  <2>1. backends \in Seq(Backend) /\ device_count \in 0 .. DeviceCount
    BY DEF TypeOK
  <2>2. QED
    BY <2>1, LifecycleAssumption DEF Registered, ToSet, Device
<1>3. CASE t = Scheduler
  <2>1. UNION {Image(b) : b \in Registered} \subseteq Objects
    BY <1>2, ImageIsTyped
  <2>2. QED
    BY <1>1, <1>2, <1>3, <2>1 DEF Use, Free, TypeOK, Objects
<1>4. CASE t # Scheduler
  <2>1. t \in Backend
    BY <1>2, <1>4 DEF AliveInv
  <2>2. QED
    BY <1>1, <1>4, <2>1, ImageIsTyped DEF Use, Free, TypeOK, Objects
<1>5. QED
  BY <1>3, <1>4

LEMMA StepKeepsLoopInv ==
  ASSUME IInv, [Next]_vars
  PROVE  LoopInv'
<1> USE LoopsOf DEF IInv, LoopInv, config, console, memory, counts, devices
<1>0. DOMAIN Limit' = DOMAIN Limit
  BY DEF Limit, Rounds
<1>1. CASE Main /\ Build
  BY <1>1, BuildKeepsLoopInv DEF Main
<1>2. CASE Main /\ Turn
  BY <1>0, <1>2 DEF Main, Turn, MarkRunning, MarkStarted, MarkStopped, Mark,
                    Enter, TypeOK, Over, Objects
<1>3. CASE Main /\ Move
  <2>1. CASE EndLoop
    BY <1>0, <1>3, <2>1, LoopEnds DEF Main, Move, TypeOK
  <2>2. CASE LeaveLoop \/ Exit
    BY <1>0, <1>3, <2>2 DEF Main, Move, LeaveLoop, Exit, Goto, TypeOK, Over
  <2>3. QED
    BY <1>3, <2>1, <2>2 DEF Move
<1>4. CASE Main /\ StartStop
  <2>0. n \in Nat /\ Len(backends) \in Nat
    BY DEF TypeOK
  <2>1. CASE StartBackend
    <3>1. main = "start" /\ n' = n + 1 /\ main' = main /\ backends[n] \in Backend
      BY <2>1, LoopGoesTo, LoopAtBackend DEF StartBackend, NextRound, Over
    <3>2. /\ asked' \in [Backend -> {"PRE_OP", "SAFE_OP", "OPERATIONAL"}]
          /\ running' \subseteq Thread /\ alive' \subseteq Thread
      BY <2>1, <3>1 DEF StartBackend, TypeOK, Thread
    <3>3. QED
      BY <1>0, <1>4, <2>0, <3>1, <3>2 DEF Main, StartStop, TypeOK
  <2>2. CASE StartScheduler
    BY <1>0, <1>4, <2>2 DEF Main, StartStop, StartScheduler, Goto, TypeOK, Thread
  <2>3. CASE StopScheduler \/ JoinScheduler
    BY <1>0, <1>4, <2>3 DEF Main, StartStop, StopScheduler, JoinScheduler, Goto,
                            Enter, TypeOK
  <2>4. CASE StopBackend
    BY <1>0, <1>4, <2>4, LoopGoesTo, LoopAtBackend
       DEF Main, StartStop, StopBackend, Goto, TypeOK, Over
  <2>5. CASE JoinBackend
    <3>1. main' = "stop" /\ n' = n + 1 /\ backends[n] \in Backend
      BY <2>5 DEF JoinBackend, TypeOK
    <3>2. asked' \in [Backend -> {"PRE_OP", "SAFE_OP", "OPERATIONAL"}]
      BY <2>5, <3>1 DEF JoinBackend, TypeOK
    <3>3. QED
      BY <1>0, <1>4, <2>0, <2>5, <3>1, <3>2 DEF Main, StartStop, JoinBackend, TypeOK
  <2>6. QED
    BY <1>4, <2>1, <2>2, <2>3, <2>4, <2>5 DEF StartStop
<1>5. CASE Main /\ Cleanup
  <2>1. CASE DestroyBackend
    <3>1. main' = "destroy" /\ n' = n + 1 /\ n <= Len(backends)
      BY <2>1, LoopGoesTo DEF DestroyBackend, NextRound
    <3>2. slaves[backends[n]] \subseteq Device /\ backends[n] \in Backend
      BY <2>1, <3>1, LoopGoesTo, LoopAtBackend DEF DestroyBackend, Over, TypeOK
    <3>3. heap' \subseteq Objects /\ misused' \subseteq Objects
      BY <2>1, <3>2 DEF DestroyBackend, Free, TypeOK, Objects
    <3>4. QED
      BY <1>0, <1>5, <3>1, <3>3 DEF Main, Cleanup, TypeOK
  <2>2. CASE DestroyDevice
    <3>0. n \in Nat /\ device_count \in 0 .. DeviceCount
      BY DEF TypeOK
    <3>1. main' = "release" /\ n' = n + 1 /\ n \in Device
      BY <2>2, <3>0, LoopGoesTo, LifecycleAssumption
         DEF DestroyDevice, NextRound, Device
    <3>2. heap' \subseteq Objects /\ misused' \subseteq Objects
      BY <2>2, <3>1 DEF DestroyDevice, Free, TypeOK, Objects
    <3>3. QED
      BY <1>0, <1>5, <3>1, <3>2 DEF Main, Cleanup, TypeOK
  <2>3. CASE FreeRuntime
    BY <1>0, <1>5, <2>3 DEF Main, Cleanup, FreeRuntime, Free, Goto, TypeOK, Objects
  <2>4. QED
    BY <1>5, <2>1, <2>2, <2>3 DEF Cleanup
<1>6. CASE Handler
  <2>1. heap' \subseteq Objects /\ misused' \subseteq Objects
    BY <1>6 DEF Handler, StopRequest, ClearRunning, Use, Free, TypeOK, Objects
  <2>2. requests' \in 0 .. MaxRequests /\ (handler' = "seen" => requests' < MaxRequests)
    <3>1. requests \in 0 .. MaxRequests /\ MaxRequests \in Nat
      BY LifecycleAssumption DEF TypeOK
    <3>2. CASE StopRequest
      BY <3>1, <3>2 DEF StopRequest
    <3>3. CASE ClearRunning
      BY <3>1, <3>3 DEF ClearRunning
    <3>4. QED
      BY <1>6, <3>2, <3>3 DEF Handler
  <2>3. QED
    BY <1>0, <1>6, <2>1, <2>2 DEF Handler, StopRequest, ClearRunning, TypeOK
<1>7. CASE Kill
  BY <1>0, <1>7 DEF Kill, Terminate, Goto, TypeOK, Over
<1>8. CASE End \/ Work
  <2>1. CASE End
    BY <1>0, <1>8, <2>1 DEF End, ThreadEnds, TypeOK
  <2>2. CASE Work
    BY <1>0, <2>2, WorkIsTyped DEF Work, TypeOK
  <2>3. QED
    BY <1>8, <2>1, <2>2
<1>9. CASE UNCHANGED vars
  BY <1>0, <1>9 DEF vars, TypeOK
<1>10. QED
  BY <1>1, <1>2, <1>3, <1>4, <1>5, <1>6, <1>7, <1>8, <1>9 DEF Next, Main

-----------------------------------------------------------------------------
\* Steps that build nothing: what they leave alone, and where main goes.
LEMMA BuiltBefore ==
  ASSUME IInv, [Next]_vars, ~Build
  PROVE  /\ UNCHANGED <<backends, device_count, slaves, finalized>>
         /\ \/ main' = main /\ n' >= n
            \/ main' \in Over
            \/ main = "mark" /\ main' = "create_backends" /\ n' = 1
            \/ main = "create_backends" /\ main' = "create_devices" /\ n' = 1
                  /\ n > BackendCount
            \/ main = "create_devices" /\ main' = "finalize" /\ n' = 1
                  /\ n > DeviceCount
            \/ main = "finalize" /\ main' = "tags" /\ n > DeviceCount
            \/ main \notin Constructing \cup Over /\ main' \notin Constructing \cup Over
         /\ main' = main /\ main \in Constructing => n' = n
<1> USE DEF config, console, memory, counts, devices
<1>0. n \in Nat
  BY DEF IInv, LoopInv, TypeOK
<1>1. CASE Main /\ Turn
  BY <1>1 DEF Main, Turn, MarkRunning, MarkStarted, MarkStopped, Mark, Enter,
              Constructing, Over
<1>2. CASE Main /\ Move
  <2>1. CASE EndLoop
    BY <1>2, <2>1, LoopEnds DEF Main, Move, Constructing, Over
  <2>2. CASE LeaveLoop \/ Exit
    BY <1>0, <1>2, <2>2 DEF Main, Move, LeaveLoop, Exit, Goto, Constructing, Over
  <2>3. QED
    BY <1>2, <2>1, <2>2 DEF Move
<1>3. CASE Main /\ StartStop
  BY <1>0, <1>3, LoopGoesTo
     DEF Main, StartStop, StartBackend, StartScheduler, StopScheduler,
         JoinScheduler, StopBackend, JoinBackend, Goto, Enter, NextRound,
         Constructing, Over
<1>4. CASE Main /\ Cleanup
  BY <1>0, <1>4, LoopGoesTo
     DEF Main, Cleanup, DestroyBackend, DestroyDevice, FreeRuntime, Goto,
         NextRound, Constructing, Over
<1>5. CASE Handler \/ End \/ Work \/ UNCHANGED vars
  BY <1>0, <1>5 DEF Handler, End, Work, vars
<1>6. CASE Kill
  BY <1>0, <1>6 DEF Kill, Terminate, Goto, Over, Constructing
<1>7. QED
  BY <1>1, <1>2, <1>3, <1>4, <1>5, <1>6 DEF Next, Main

\* Numbers appended in the order of a loop increase.
LEMMA AppendLarger ==
  ASSUME backends \in Seq(Backend), n \in Backend,
         \A k \in DOMAIN backends : backends[k] < n,
         \A k, l \in DOMAIN backends : k < l => backends[k] < backends[l],
         backends' = Append(backends, n)
  PROVE  /\ Len(backends') = Len(backends) + 1
         /\ \A k \in DOMAIN backends' : backends'[k] < n + 1
         /\ \A k, l \in DOMAIN backends' : k < l => backends'[k] < backends'[l]
         /\ Registered' = Registered \cup {n}
<1>1. /\ Len(backends) \in Nat /\ DOMAIN backends = 1 .. Len(backends)
      /\ Len(backends') = Len(backends) + 1
      /\ DOMAIN backends' = 1 .. Len(backends) + 1
      /\ backends'[Len(backends) + 1] = n
      /\ \A k \in 1 .. Len(backends) : backends'[k] = backends[k]
      /\ \A k \in 1 .. Len(backends) : backends[k] \in Nat
      /\ n \in Nat
  <2>1. Backend \subseteq Nat
    BY LifecycleAssumption DEF Backend
  <2>2. /\ Len(backends) \in Nat /\ DOMAIN backends = 1 .. Len(backends)
        /\ Len(backends') = Len(backends) + 1
        /\ DOMAIN backends' = 1 .. Len(backends')
        /\ backends'[Len(backends) + 1] = n
        /\ \A k \in 1 .. Len(backends) : backends'[k] = backends[k]
    OBVIOUS
  <2>3. \A k \in 1 .. Len(backends) : backends[k] \in Backend
    BY <2>2
  <2>4. QED
    BY <2>1, <2>2, <2>3
<1>2. Registered' = Registered \cup {n}
  BY <1>1 DEF Registered, ToSet
<1>3. \A k \in DOMAIN backends' : k \in 1 .. Len(backends) \/ k = Len(backends) + 1
  BY <1>1
<1>4. QED
  BY <1>1, <1>2, <1>3

LEMMA StepKeepsBuildInv ==
  ASSUME IInv, [Next]_vars
  PROVE  BuildInv'
<1> USE DEF IInv
<1>0. /\ n \in Nat /\ n >= 1 /\ Len(backends) \in Nat /\ backends \in Seq(Backend)
      /\ device_count \in 0 .. DeviceCount
      /\ DeviceCount \in Nat /\ BackendCount \in Nat
      /\ slaves \in [Backend -> SUBSET Device]
  BY LifecycleAssumption DEF LoopInv, TypeOK
<1>1. CASE CreateRuntime
  BY <1>0, <1>1 DEF CreateRuntime, Goto, BuildInv, Registered, devices, Over
<1>2. CASE CreateBackend
  <2>1. CASE backends' = Append(backends, n) /\ main' = main /\ n' = n + 1
    <3>1. n <= BackendCount
      BY <1>2, CreateBackendDoes DEF Backend
    <3>2. QED
      BY <1>0, <1>2, <2>1, <3>1, CreateBackendDoes, AppendLarger DEF BuildInv, Over
  <2>2. CASE backends' = backends
    <3>1. Registered' = Registered
      BY <2>2 DEF Registered
    <3>2. \A k \in DOMAIN backends : backends[k] \in Nat
      BY <1>0 DEF Backend
    <3>3. QED
      BY <1>0, <1>2, <2>2, <3>1, <3>2, CreateBackendDoes DEF BuildInv, Over
  <2>3. QED
    BY <1>2, <2>1, <2>2, CreateBackendDoes
<1>3. CASE CreateDevice
  <2>1. Registered' = Registered /\ backends' = backends
    BY <1>3, CreateDeviceDoes DEF Registered
  <2>2. \A b \in Backend : slaves'[b] \subseteq 1 .. device_count'
    BY <1>0, <1>3, CreateDeviceDoes DEF BuildInv
  <2>3. \A b \in Backend : slaves'[b] # {} => b \in Registered
    BY <1>0, <1>3, CreateDeviceDoes DEF BuildInv
  <2>4. QED
    BY <1>0, <1>3, <2>1, <2>2, <2>3, CreateDeviceDoes DEF BuildInv, Over
<1>4. CASE Finalize
  BY <1>0, <1>4, FinalizeDoes DEF BuildInv, Registered, Over
<1>5. CASE CreateTags
  BY <1>0, <1>5 DEF CreateTags, Goto, BuildInv, Registered, devices, Over
<1>6. CASE ~Build
  <2>1. Registered' = Registered
    BY <1>6, BuiltBefore DEF Registered
  <2>2. \A k \in DOMAIN backends : backends[k] \in Nat /\ n' \in Nat
    BY <1>0, StepKeepsLoopInv DEF Backend, LoopInv, TypeOK
  <2>3. QED
    BY <1>0, <1>6, <2>1, <2>2, BuiltBefore DEF BuildInv, Constructing, Over
<1>7. QED
  BY <1>1, <1>2, <1>3, <1>4, <1>5, <1>6 DEF Build

-----------------------------------------------------------------------------
\* The loop over backends passes one, or ends.
LEMMA AheadShrinks ==
  ASSUME LoopInv
  PROVE  /\ n > Len(backends) => Ahead = {}
         /\ n = 1 => Ahead = Registered
         /\ Ahead \subseteq Registered
         /\ n' = n + 1 /\ backends' = backends => Ahead \subseteq Ahead' \cup {backends[n]}
         /\ n' = 1 /\ backends' = backends => Ahead' = Registered
         /\ n' = n /\ backends' = backends => Ahead' = Ahead
         /\ backends' = backends => Registered' = Registered
<1>1. /\ n \in Nat /\ n >= 1 /\ Len(backends) \in Nat
      /\ DOMAIN backends = 1 .. Len(backends)
  BY DEF LoopInv, TypeOK
<1>2. QED
  BY <1>1 DEF Ahead, Registered, ToSet

\* Backends are not the scheduler.
LEMMA SchedulerIsNoBackend ==
  ASSUME LoopInv
  PROVE  Scheduler \notin Backend /\ Scheduler \notin Registered /\ Registered \subseteq Backend
<1>1. backends \in Seq(Backend)
  BY DEF LoopInv, TypeOK
<1>2. Scheduler \notin Backend
  BY DEF Scheduler, Backend
<1>3. Registered \subseteq Backend
  BY <1>1 DEF Registered, ToSet
<1>4. QED
  BY <1>2, <1>3

LEMMA StartStopKeepsAliveInv ==
  ASSUME IInv, StartStop
  PROVE  AliveInv'
<1> USE AheadShrinks, SchedulerIsNoBackend
        DEF IInv, AliveInv, StartStop, Constructing, Dismantling
<1>0. Registered' = Registered /\ n \in Nat
  BY DEF LoopInv, TypeOK
<1>1. CASE StartBackend
  <2>1. main = "start" /\ main' = main /\ backends[n] \in Registered
    BY <1>1, LoopGoesTo, LoopAtBackend DEF StartBackend, NextRound, Over
  <2>2. alive' \subseteq alive \cup {backends[n]}
    BY <1>1 DEF StartBackend
  <2>3. QED
    BY <1>0, <2>1, <2>2
<1>2. CASE StartScheduler
  BY <1>0, <1>2 DEF StartScheduler, Goto
<1>3. CASE StopScheduler
  BY <1>0, <1>3 DEF StopScheduler, Goto
<1>4. CASE JoinScheduler
  <2>1. Ahead' = Registered
    BY <1>4 DEF JoinScheduler, Enter
  <2>2. QED
    BY <1>0, <1>4, <2>1 DEF JoinScheduler, Enter
<1>5. CASE StopBackend
  BY <1>0, <1>5, LoopGoesTo DEF StopBackend, Goto
<1>6. CASE JoinBackend
  BY <1>0, <1>6 DEF JoinBackend
<1>7. QED
  BY <1>1, <1>2, <1>3, <1>4, <1>5, <1>6

LEMMA StepKeepsAliveInv ==
  ASSUME IInv, [Next]_vars
  PROVE  AliveInv'
<1> USE AheadShrinks
        DEF IInv, AliveInv, Constructing, Dismantling, config, console, memory,
            counts, devices
<1>1. CASE Build
  <2>1. main \in Constructing
    BY <1>1, LoopGoesTo DEF Build, CreateRuntime, CreateBackend, CreateDevice,
                            Finalize, CreateTags
  <2>2. alive' = {}
    BY <1>1, <2>1 DEF Build
  <2>3. QED
    BY <2>2
<1>2. CASE Turn
  BY <1>2 DEF Turn, MarkRunning, MarkStarted, MarkStopped, Mark, Enter
<1>3. CASE Move
  <2>1. CASE EndLoop
    BY <1>3, <2>1, LoopEnds DEF Move
  <2>2. CASE LeaveLoop \/ Exit
    BY <1>3, <2>2 DEF Move, LeaveLoop, Exit, Goto
  <2>3. QED
    BY <1>3, <2>1, <2>2 DEF Move
<1>4. CASE StartStop
  BY <1>4, StartStopKeepsAliveInv
<1>5. CASE Cleanup
  BY <1>5, LoopGoesTo DEF Cleanup, DestroyBackend, DestroyDevice, FreeRuntime
<1>6. CASE Handler \/ End \/ Work \/ UNCHANGED vars
  <2>1. UNCHANGED <<main, n, backends>> /\ alive' \subseteq alive
    BY <1>6 DEF Handler, End, ThreadEnds, Work, vars
  <2>2. QED
    BY <2>1
<1>7. CASE Kill
  BY <1>7 DEF Kill, Terminate, Goto
<1>8. QED
  BY <1>1, <1>2, <1>3, <1>4, <1>5, <1>6, <1>7 DEF Next, Main

-----------------------------------------------------------------------------
LEMMA StepKeepsAskedInv ==
  ASSUME IInv, [Next]_vars
  PROVE  AskedInv'
<1> USE AheadShrinks
        DEF IInv, AskedInv, Constructing, Dismantling, config, console, memory,
            counts, devices
<1>0. n \in Nat /\ asked \in [Backend -> {"PRE_OP", "SAFE_OP", "OPERATIONAL"}]
  BY DEF LoopInv, TypeOK
<1>1. CASE Build
  <2>1. main \in Constructing
    BY <1>1, LoopGoesTo DEF Build, CreateRuntime, CreateBackend, CreateDevice,
                            Finalize, CreateTags
  <2>2. CASE Finalize
    BY <1>0, <2>1, <2>2, FinalizeDoes
  <2>3. CASE ~Finalize
    BY <1>1, <2>1, <2>3 DEF Build, CreateRuntime, CreateBackend, CreateDevice, CreateTags
  <2>4. QED
    BY <2>2, <2>3
<1>2. CASE Turn
  BY <1>2 DEF Turn, MarkRunning, MarkStarted, MarkStopped, Mark, Enter
<1>3. CASE Move
  <2>1. CASE EndLoop
    BY <1>3, <2>1, LoopEnds DEF Move
  <2>2. CASE LeaveLoop \/ Exit
    BY <1>3, <2>2 DEF Move, LeaveLoop, Exit, Goto
  <2>3. QED
    BY <1>3, <2>1, <2>2 DEF Move
<1>4. CASE StartStop
  <2>0. Registered' = Registered /\ backends' = backends
    BY <1>4 DEF StartStop
  <2>1. CASE StartBackend
    <3>1. main = "start" /\ main' = main /\ backends[n] \in Registered
      BY <2>1, LoopGoesTo, LoopAtBackend DEF StartBackend, NextRound, Over
    <3>2. \A b \in Backend : asked'[b] = "OPERATIONAL" =>
             asked[b] = "OPERATIONAL" \/ b = backends[n]
      BY <1>0, <2>1 DEF StartBackend
    <3>3. QED
      BY <2>0, <3>1, <3>2
  <2>2. CASE StartScheduler \/ StopScheduler
    BY <2>0, <2>2 DEF StartScheduler, StopScheduler, Goto
  <2>3. CASE JoinScheduler
    <3>1. Ahead' = Registered
      BY <2>0, <2>3 DEF JoinScheduler, Enter
    <3>2. QED
      BY <2>0, <2>3, <3>1 DEF JoinScheduler, Enter
  <2>4. CASE StopBackend
    BY <2>0, <2>4, LoopGoesTo DEF StopBackend, Goto
  <2>5. CASE JoinBackend
    <3>1. main' = "stop" /\ Ahead \subseteq Ahead' \cup {backends[n]}
      BY <2>0, <2>5 DEF JoinBackend
    <3>2. \A b \in Backend : asked'[b] = "OPERATIONAL" =>
             asked[b] = "OPERATIONAL" /\ b # backends[n]
      BY <1>0, <2>5 DEF JoinBackend
    <3>3. QED
      BY <2>0, <2>5, <3>1, <3>2 DEF JoinBackend
  <2>6. QED
    BY <1>4, <2>1, <2>2, <2>3, <2>4, <2>5 DEF StartStop
<1>5. CASE Cleanup
  BY <1>5, LoopGoesTo DEF Cleanup, DestroyBackend, DestroyDevice, FreeRuntime
<1>6. CASE Handler \/ End \/ Work \/ UNCHANGED vars
  <2>1. UNCHANGED <<main, n, backends, asked>>
    BY <1>6 DEF Handler, End, Work, vars
  <2>2. QED
    BY <2>1
<1>7. CASE Kill
  BY <1>7 DEF Kill, Terminate, Goto
<1>8. QED
  BY <1>1, <1>2, <1>3, <1>4, <1>5, <1>6, <1>7 DEF Next, Main

LEMMA StepKeepsMappedInv ==
  ASSUME IInv, [Next]_vars
  PROVE  MappedInv'
<1> USE DEF IInv, MappedInv, Constructing, Over
<1>0. /\ n \in Nat /\ n >= 1 /\ Len(backends) \in Nat
      /\ DOMAIN backends = 1 .. Len(backends) /\ DeviceCount \in Nat
  BY LifecycleAssumption DEF LoopInv, TypeOK
<1>1. CASE CreateRuntime
  BY <1>1 DEF CreateRuntime, Goto, Registered
<1>2. CASE CreateBackend
  BY <1>2, CreateBackendDoes
<1>3. CASE CreateDevice
  BY <1>3, CreateDeviceDoes
<1>4. CASE Finalize
  <2>1. Registered' = Registered
    BY <1>4, FinalizeDoes DEF Registered
  <2>2. CASE main' = "exited"
    BY <1>4, <2>1, <2>2, FinalizeDoes
  <2>3. CASE main' = main /\ n' = n + 1 /\ n > Len(backends)
    BY <1>0, <1>4, <2>1, <2>3, FinalizeDoes
  <2>4. CASE main' = main /\ n' = n + 1 /\ n <= Len(backends)
    <3>1. backends[n] \in Registered
      BY <1>4, <2>4, FinalizeDoes, LoopAtBackend
    <3>2. finalized' = finalized \cup {backends[n]} /\ backends' = backends
      BY <1>0, <1>4, <2>4, FinalizeDoes
    <3>3. \A k \in DOMAIN backends : k < n + 1 => k < n \/ k = n
      BY <1>0
    <3>4. QED
      BY <1>4, <2>1, <2>4, <3>1, <3>2, <3>3, FinalizeDoes
  <2>5. QED
    BY <1>0, <1>4, <2>2, <2>3, <2>4, FinalizeDoes
<1>5. CASE CreateTags
  BY <1>5 DEF CreateTags, Goto, Registered
<1>6. CASE ~Build
  <2>1. Registered' = Registered
    BY <1>6, BuiltBefore DEF Registered
  <2>2. main \notin {"mark", "create_backends", "create_devices"} =>
           (main' = "finalize" => main = "finalize" /\ n' = n)
    BY <1>6, BuiltBefore
  <2>3. main = "create_devices" /\ main' = "finalize" => n' = 1
    BY <1>6, BuiltBefore
  <2>4. CASE main' = "finalize"
    BY <1>0, <1>6, <2>1, <2>2, <2>3, <2>4, BuiltBefore
  <2>5. CASE main' # "finalize"
    BY <1>0, <1>6, <2>1, <2>5, BuiltBefore
  <2>6. QED
    BY <2>4, <2>5
<1>7. QED
  BY <1>1, <1>2, <1>3, <1>4, <1>5, <1>6 DEF Build

-----------------------------------------------------------------------------
\* Nothing is allocated or freed but by Build, Cleanup and the end of the
\* process, and nothing is built after it was dismantled.
LEMMA HeapKept ==
  ASSUME IInv, [Next]_vars, ~Build
  PROVE  /\ Cleanup \/ main' = "killed" \/ heap' = heap
         /\ main' \notin Dismantling => main \notin Dismantling /\ heap' = heap
         /\ main' = "create" => main = "create"
         /\ main = "create" => main' \in {"create", "killed"}
<1> USE DEF config, console, memory, counts, devices, Dismantling
<1>1. CASE Turn
  BY <1>1 DEF Turn, MarkRunning, MarkStarted, MarkStopped, Mark, Enter
<1>2. CASE Move
  <2>1. CASE EndLoop
    BY <1>2, <2>1, LoopEnds DEF Move
  <2>2. CASE LeaveLoop \/ Exit
    BY <1>2, <2>2 DEF Move, LeaveLoop, Exit, Goto
  <2>3. QED
    BY <1>2, <2>1, <2>2 DEF Move
<1>3. CASE StartStop
  BY <1>3, LoopGoesTo
     DEF StartStop, StartBackend, StartScheduler, StopScheduler, JoinScheduler,
         StopBackend, JoinBackend, Goto, Enter, NextRound
<1>4. CASE Cleanup
  BY <1>4, LoopGoesTo
     DEF Cleanup, DestroyBackend, DestroyDevice, FreeRuntime, Goto, NextRound
<1>5. CASE Handler \/ End \/ UNCHANGED vars
  BY <1>5 DEF Handler, StopRequest, ClearRunning, Use, Free, End, vars
<1>6. CASE Work
  BY <1>6, WorkIsTyped DEF Work, IInv, LoopInv
<1>7. CASE Kill
  BY <1>7 DEF Kill, Terminate, Goto
<1>8. QED
  BY <1>1, <1>2, <1>3, <1>4, <1>5, <1>6, <1>7 DEF Next, Main

LEMMA StepKeepsHeapHas ==
  ASSUME IInv, [Next]_vars
  PROVE  HeapHas'
<1> USE DEF IInv, HeapHas, Dismantling
<1>0. /\ n \in Nat /\ n >= 1 /\ Len(backends) \in Nat /\ backends \in Seq(Backend)
      /\ device_count \in Nat /\ slaves \in [Backend -> SUBSET Device]
      /\ finalized \subseteq Backend
  BY LifecycleAssumption DEF LoopInv, TypeOK
<1>1. CASE CreateRuntime
  <2>1. main = "create" /\ device_count = 0 /\ backends = <<>> /\ finalized = {}
    BY <1>1 DEF CreateRuntime, BuildInv, MappedInv
  <2>2. Registered' = {} /\ device_count' = 0 /\ finalized' = {}
    BY <1>1, <2>1 DEF CreateRuntime, Registered, ToSet, devices
  <2>3. main' = "exited" \/ runtime \in heap'
    BY <1>1 DEF CreateRuntime, Goto, Alloc
  <2>4. QED
    BY <2>2, <2>3
<1>2. CASE CreateBackend
  <2>1. finalized' = {}
    BY <1>2, CreateBackendDoes DEF MappedInv
  <2>2. heap \subseteq heap' /\ main = "create_backends" /\ device_count' = device_count
    BY <1>2, CreateBackendDoes
  <2>3. CASE backends' = Append(backends, n) /\ driver(n) \in heap' /\ iomap(n) \in heap'
    <3>1. Registered' = Registered \cup {n}
      BY <1>0, <1>2, <2>3, CreateBackendDoes, AppendLarger DEF BuildInv
    <3>2. QED
      BY <2>1, <2>2, <2>3, <3>1
  <2>4. CASE backends' = backends
    BY <2>1, <2>2, <2>4 DEF Registered
  <2>5. QED
    BY <1>2, <2>3, <2>4, CreateBackendDoes
<1>3. CASE CreateDevice
  <2>1. finalized' = {} /\ Registered' = Registered
    BY <1>3, CreateDeviceDoes DEF MappedInv, Registered
  <2>2. heap \subseteq heap' /\ main = "create_devices" /\ n = device_count + 1
    BY <1>3, CreateDeviceDoes DEF BuildInv
  <2>3. \A d \in 1 .. device_count' :
           d \in 1 .. device_count \/ (d = n /\ device(n) \in heap')
    BY <1>0, <1>3, <2>2, CreateDeviceDoes
  <2>4. QED
    BY <2>1, <2>2, <2>3
<1>4. CASE Finalize
  <2>1. /\ Registered' = Registered /\ device_count' = device_count
        /\ slaves' = slaves /\ heap \subseteq heap' /\ main = "finalize"
    BY <1>4, FinalizeDoes DEF Registered
  <2>2. main' = "exited" \/ \A b \in finalized' : b \in finalized
                               \/ \A d \in slaves[b] : buffers(d) \in heap'
    BY <1>4, FinalizeDoes
  <2>3. QED
    BY <2>1, <2>2
<1>5. CASE CreateTags
  <2>1. /\ UNCHANGED <<backends, device_count, slaves, finalized>>
        /\ heap \subseteq heap' /\ main = "tags"
    BY <1>5 DEF CreateTags, Alloc, devices, memory
  <2>2. QED
    BY <2>1 DEF Registered
<1>6. CASE ~Build
  <2>1. UNCHANGED <<backends, device_count, slaves, finalized>>
    BY <1>6, BuiltBefore
  <2>2. CASE main' \notin {"create"} \cup Dismantling
    <3>1. main \notin {"create"} \cup Dismantling /\ heap' = heap
      BY <1>6, <2>2, HeapKept
    <3>2. QED
      BY <2>1, <3>1 DEF Registered
  <2>3. QED
    BY <2>2
<1>7. QED
  BY <1>1, <1>2, <1>3, <1>4, <1>5, <1>6 DEF Build

-----------------------------------------------------------------------------
LEMMA BuildKeepsHeapBound ==
  ASSUME IInv, Build
  PROVE  HeapBound'
<1> USE DEF IInv, HeapBound, Over
<1>0. /\ n \in Nat /\ backends \in Seq(Backend) /\ device_count \in Nat
      /\ slaves \in [Backend -> SUBSET Device]
  BY DEF LoopInv, TypeOK
<1>1. CASE CreateRuntime
  BY <1>1 DEF CreateRuntime, Goto, Alloc, Held, memory
<1>2. CASE CreateBackend
  <2>1. CASE backends' = Append(backends, n) /\ main' = main
               /\ heap' = heap \cup {driver(n), iomap(n)}
    <3>1. /\ Registered' = Registered \cup {n} /\ main = "create_backends"
          /\ device_count' = device_count /\ slaves' = slaves
      BY <1>0, <1>2, <2>1, CreateBackendDoes, AppendLarger DEF BuildInv
    <3>2. heap \subseteq Held(Registered, 1 .. device_count)
      BY <3>1
    <3>3. heap' \subseteq Held(Registered \cup {n}, 1 .. device_count)
      BY <2>1, <3>2 DEF Held
    <3>4. Held(Registered, 1 .. device_count)'
             = Held(Registered \cup {n}, 1 .. device_count)
      BY <3>1 DEF Held
    <3>5. QED
      BY <2>1, <3>1, <3>3, <3>4
  <2>2. CASE UNCHANGED <<backends, heap>> /\ main' = main
    BY <1>2, <2>2, CreateBackendDoes DEF Held, Registered
  <2>3. QED
    BY <1>2, <2>1, <2>2, CreateBackendDoes
<1>3. CASE CreateDevice
  <2>1. main' # "exited" =>
           /\ main' = main /\ main = "create_devices" /\ n = device_count + 1
           /\ device_count' = n /\ heap' = heap \cup {device(n)}
    BY <1>3, CreateDeviceDoes DEF BuildInv
  <2>2. Registered' = Registered /\ \A b \in Registered : slaves[b] \subseteq slaves'[b]
    <3>1. Registered \subseteq Backend
      BY SchedulerIsNoBackend
    <3>2. QED
      BY <1>0, <1>3, <3>1, CreateDeviceDoes DEF Registered
  <2>3. 1 .. device_count \subseteq 1 .. device_count + 1
    BY <1>0
  <2>4. CASE main' = "exited"
    BY <2>4
  <2>5. CASE main' # "exited"
    <3>1. heap \subseteq Held(Registered, 1 .. device_count)
      BY <2>1, <2>5
    <3>2. device_count' \in 1 .. device_count' /\ n = device_count'
      BY <1>0, <2>1, <2>5
    <3>3. heap' \subseteq Held(Registered, 1 .. device_count)'
      BY <2>1, <2>2, <2>3, <2>5, <3>1, <3>2 DEF Held
    <3>4. QED
      BY <2>1, <2>5, <3>3
  <2>6. QED
    BY <2>4, <2>5
<1>4. CASE Finalize
  <2>1. CASE main' = "exited"
    BY <2>1
  <2>2. CASE main' # "exited"
    <3>1. /\ UNCHANGED <<main, backends, device_count, slaves>> /\ main = "finalize"
          /\ \/ heap' = heap
             \/ /\ n <= Len(backends)
                /\ heap' = heap \cup {buffers(d) : d \in slaves[backends[n]]}
      BY <1>4, <2>2, FinalizeDoes
    <3>2. n <= Len(backends) => backends[n] \in Registered
      BY <3>1, LoopAtBackend
    <3>3. Held(Registered, 1 .. device_count)' = Held(Registered, 1 .. device_count)
      BY <3>1 DEF Held, Registered
    <3>4. heap' \subseteq Held(Registered, 1 .. device_count)
      BY <3>1, <3>2 DEF Held
    <3>5. QED
      BY <3>1, <3>3, <3>4
  <2>3. QED
    BY <2>1, <2>2
<1>5. CASE CreateTags
  BY <1>5 DEF CreateTags, Goto, Alloc, Held, Registered, memory, devices
<1>6. QED
  BY <1>1, <1>2, <1>3, <1>4, <1>5 DEF Build

\* What a backend or a device that is freed no longer holds.
LEMMA CleanupKeepsHeapBound ==
  ASSUME IInv, Cleanup
  PROVE  HeapBound'
<1> USE DEF IInv, HeapBound, Cleanup, devices
<1>0. n \in Nat /\ device_count \in Nat
  BY DEF LoopInv, TypeOK
<1>1. CASE DestroyBackend
  <2> DEFINE b == backends[n]
  <2>1. /\ main = "destroy" /\ main' = main /\ n' = n + 1
        /\ UNCHANGED <<backends, device_count, slaves>>
        /\ heap' = heap \ ({driver(b), iomap(b)}
                               \cup ({buffers(d) : d \in slaves[b]} \cap heap))
    BY <1>1, LoopGoesTo DEF DestroyBackend, NextRound, Free
  <2>2. Ahead \subseteq Ahead' \cup {b}
    BY <2>1, AheadShrinks
  <2>3. heap' \subseteq Held(Ahead', 1 .. device_count)
    BY <2>1, <2>2 DEF Held
  <2>4. Held(Ahead, 1 .. device_count)' = Held(Ahead', 1 .. device_count)
    BY <2>1 DEF Held
  <2>5. QED
    BY <2>1, <2>3, <2>4
<1>2. CASE DestroyDevice
  <2>1. /\ main = "release" /\ main' = main /\ n' = n + 1
        /\ UNCHANGED <<device_count, slaves>> /\ heap' = heap \ {device(n)}
    BY <1>2, LoopGoesTo DEF DestroyDevice, NextRound, Free
  <2>2. \A d \in n .. device_count : d = n \/ d \in n + 1 .. device_count
    BY <1>0
  <2>3. heap' \subseteq Held({}, n + 1 .. device_count)
    BY <2>1, <2>2 DEF Held
  <2>4. Held({}, n .. device_count)' = Held({}, n + 1 .. device_count)
    BY <2>1 DEF Held
  <2>5. QED
    BY <2>1, <2>3, <2>4
<1>3. CASE FreeRuntime
  BY <1>3 DEF FreeRuntime, Goto, Free
<1>4. QED
  BY <1>1, <1>2, <1>3

\* How main comes to and through the end without freeing anything.
LEMMA DownwardSteps ==
  ASSUME IInv, [Next]_vars, ~Build, ~Cleanup
  PROVE  \/ main' = main /\ n' = n
         \/ main' \notin Dismantling
         \/ MarkStopped
         \/ EndLoop /\ main \in {"destroy", "release"}
         \/ main' \in Over
<1> USE DEF Dismantling, Over, counts
<1>1. CASE Turn
  BY <1>1 DEF Turn, MarkRunning, MarkStarted, Mark, Enter
<1>2. CASE Move
  BY <1>2, LoopEnds DEF Move, LeaveLoop, Exit, Goto
<1>3. CASE StartStop
  BY <1>3, LoopGoesTo
     DEF StartStop, StartBackend, StartScheduler, StopScheduler, JoinScheduler,
         StopBackend, JoinBackend, Goto, Enter, NextRound
<1>4. CASE Handler \/ End \/ Work \/ UNCHANGED vars
  BY <1>4 DEF Handler, End, Work, vars
<1>5. CASE Kill
  BY <1>5 DEF Kill, Terminate, Goto
<1>6. QED
  BY <1>1, <1>2, <1>3, <1>4, <1>5 DEF Next, Main

LEMMA StepKeepsHeapBound ==
  ASSUME IInv, [Next]_vars
  PROVE  HeapBound'
<1> USE DEF IInv, HeapBound
<1>0. n \in Nat /\ device_count \in Nat
  BY DEF LoopInv, TypeOK
<1>1. CASE Build
  BY <1>1, BuildKeepsHeapBound
<1>2. CASE Cleanup
  BY <1>2, CleanupKeepsHeapBound
<1>3. CASE ~Build /\ ~Cleanup /\ main' # "killed"
  <2>1. UNCHANGED <<backends, device_count, slaves, heap>>
    BY <1>3, BuiltBefore, HeapKept
  <2>3. CASE main' = main /\ n' = n
    BY <2>1, <2>3 DEF Held, Registered, Ahead
  <2>4. CASE main' \notin Dismantling
    <3>1. main \notin Dismantling /\ (main' = "create" => main = "create")
      BY <1>3, <2>4, HeapKept
    <3>2. QED
      BY <2>1, <2>4, <3>1 DEF Held, Registered, Dismantling, Over
  <2>5. CASE MarkStopped
    <3>1. Ahead' = Registered /\ main = "stopped" /\ main' = "destroy"
      BY <2>1, <2>5, AheadShrinks DEF MarkStopped, Mark, Enter
    <3>2. heap \subseteq Held(Registered, 1 .. device_count)
      BY <3>1 DEF Over
    <3>3. Held(Ahead, 1 .. device_count)' = Held(Registered, 1 .. device_count)
      BY <2>1, <3>1 DEF Held
    <3>4. QED
      BY <2>1, <3>1, <3>2, <3>3
  <2>6. CASE EndLoop /\ main = "destroy"
    <3>1. Ahead = {} /\ main' = "release" /\ n' = 1
      BY <2>6, LoopEnds, AheadShrinks
    <3>2. Held({}, n .. device_count)' = Held(Ahead, 1 .. device_count)
      BY <2>1, <3>1 DEF Held
    <3>3. QED
      BY <2>1, <2>6, <3>1, <3>2
  <2>7. CASE EndLoop /\ main = "release"
    <3>1. main' = "free" /\ n .. device_count = {}
      BY <1>0, <2>7, LoopEnds
    <3>2. QED
      BY <2>1, <2>7, <3>1 DEF Held
  <2>8. CASE main' \in Over
    BY <2>8 DEF Over
  <2>9. QED
    BY <1>3, <2>3, <2>4, <2>5, <2>6, <2>7, <2>8, DownwardSteps
<1>4. CASE main' = "killed"
  BY <1>4 DEF Over
<1>5. QED
  BY <1>1, <1>2, <1>3, <1>4

-----------------------------------------------------------------------------
\* The inductive invariant: what is built, alive, asked and allocated at each
\* point of main.
THEOREM Invariance == Spec => []IInv
<1>1. IInv /\ [Next]_vars => IInv'
  BY StepKeepsLoopInv, StepKeepsBuildInv, StepKeepsAliveInv, StepKeepsAskedInv,
     StepKeepsMappedInv, StepKeepsHeapHas, StepKeepsHeapBound DEF IInv
<1>2. QED
  BY <1>1, InvInit, PTL DEF Spec

\* All variables keep their types, for any configuration.
THEOREM TypeCorrect == Spec => []TypeOK
<1>1. IInv => TypeOK
  BY DEF IInv, LoopInv
<1>2. QED
  BY <1>1, Invariance, PTL

\* Whatever failed on the way up, what a thread works on is allocated as long
\* as the thread lives.
THEOREM MemoryIsHeld == Spec => []MemoryOutlivesThreads
<1>1. IInv => MemoryOutlivesThreads
  <2> SUFFICES ASSUME IInv PROVE MemoryOutlivesThreads
    OBVIOUS
  <2>1. alive # {} => main \notin {"create"} \cup Dismantling
    BY DEF IInv, AliveInv, Constructing
  <2>2. alive # {} => \A b \in Registered : {iomap(b)} \cup Image(b) \subseteq heap
    <3> SUFFICES ASSUME alive # {}, NEW b \in Registered
                 PROVE  {iomap(b)} \cup Image(b) \subseteq heap
      OBVIOUS
    <3>1. slaves[b] \subseteq 1 .. device_count
      BY SchedulerIsNoBackend DEF IInv, BuildInv
    <3>2. QED
      BY <2>1, <3>1 DEF IInv, HeapHas, Image
  <2>3. QED
    BY <2>1, <2>2 DEF IInv, AliveInv, HeapHas, MemoryOutlivesThreads
<1>2. QED
  BY <1>1, Invariance, PTL

\* The scheduler has ended before any backend is stopped.
THEOREM SchedulerIsFirst == Spec => []SchedulerEndsFirst
<1>1. IInv => SchedulerEndsFirst
  BY DEF IInv, AliveInv, SchedulerEndsFirst, Dismantling
<1>2. QED
  BY <1>1, Invariance, PTL

\* With as many devices as backends, a backend never runs unmapped.
THEOREM MappedBeforeStart == Spec => []StartedIsFinalized
<1>1. IInv => StartedIsFinalized
  <2> SUFFICES ASSUME IInv, BackendCount <= DeviceCount,
                      NEW b \in alive \ {Scheduler}
               PROVE  b \in finalized /\ {buffers(d) : d \in slaves[b]} \subseteq heap
    BY DEF StartedIsFinalized
  <2>1. main \notin Constructing \cup {"stopped"} \cup Dismantling
    BY DEF IInv, AliveInv
  <2>2. PICK k \in DOMAIN backends : b = backends[k]
    BY DEF IInv, AliveInv, Registered, ToSet
  <2>3. k <= DeviceCount
    <3>1. /\ DOMAIN backends = 1 .. Len(backends) /\ Len(backends) \in Nat
          /\ Len(backends) <= BackendCount
          /\ BackendCount \in Nat /\ DeviceCount \in Nat
      BY LifecycleAssumption DEF IInv, LoopInv, BuildInv, TypeOK
    <3>2. QED
      BY <3>1
  <2>4. b \in finalized
    BY <2>1, <2>2, <2>3 DEF IInv, MappedInv, Dismantling, Over
  <2>5. QED
    BY <2>1, <2>4 DEF IInv, HeapHas, Constructing
<1>2. QED
  BY <1>1, Invariance, PTL

\* In a program that reaches the end of runtime_cleanup nothing is left.
THEOREM NothingIsLeft == Spec => []CleanupIsComplete
<1>1. IInv => CleanupIsComplete
  BY DEF IInv, HeapBound, CleanupIsComplete
<1>2. QED
  BY <1>1, Invariance, PTL

\* A program that ends by itself leaves no slave asked to be OPERATIONAL.
THEOREM NoSlaveIsLeft == Spec => []SlavesAreReleased
<1>1. IInv => SlavesAreReleased
  BY DEF IInv, AskedInv, SlavesAreReleased, Dismantling
<1>2. QED
  BY <1>1, Invariance, PTL

-----------------------------------------------------------------------------
\* Where main is once it has left its loop, and the steps it has then to take:
\* two for each backend it stops, one for each it frees, one for each device.
Ending ==
    {"stop_scheduler", "join_scheduler", "stop", "join", "stopped", "destroy",
     "release", "free", "cleaned", "exited", "killed"}

MainStepsLeft ==
    CASE main \in Over -> 0
      [] main = "cleaned" -> 1
      [] main = "free" -> 2
      [] main = "release" -> device_count + 4 - n
      [] main = "destroy" -> device_count + Len(backends) + 5 - n
      [] main = "stopped" -> device_count + Len(backends) + 5
      [] main = "stop" -> device_count + 3 * Len(backends) + 8 - 2 * n
      [] main = "join" -> device_count + 3 * Len(backends) + 7 - 2 * n
      [] main = "join_scheduler" -> device_count + 3 * Len(backends) + 7
      [] main = "stop_scheduler" -> device_count + 3 * Len(backends) + 8

\* Every step of main after its loop brings it nearer to its end: it does not
\* go back, and no loop starts again.
EndIsNear ==
    [][(main \in Ending)
          => MainStepsLeft' < MainStepsLeft \/ UNCHANGED counts]_vars

\* No loop at the end goes further than one past its array.
EndLoopInv ==
    /\ main \in {"stop", "destroy"} => n <= Len(backends) + 1
    /\ main = "release" => n <= device_count + 1

\* The ways main goes.
LEMMA EndingSteps ==
  ASSUME IInv, [Next]_vars, main \in Ending
  PROVE  /\ UNCHANGED <<backends, device_count>>
         /\ \/ UNCHANGED counts
            \/ main \notin Over /\ main' = "killed"
            \/ main = "stop_scheduler" /\ main' = "join_scheduler"
            \/ main = "join_scheduler" /\ main' = "stop" /\ n' = 1
            \/ main = "stop" /\ n <= Len(backends) /\ main' = "join" /\ n' = n
            \/ main = "join" /\ main' = "stop" /\ n' = n + 1
            \/ main = "stop" /\ n > Len(backends) /\ main' = "stopped"
            \/ main = "stopped" /\ main' = "destroy" /\ n' = 1
            \/ /\ main = "destroy" /\ n <= Len(backends)
               /\ main' = "destroy" /\ n' = n + 1
            \/ main = "destroy" /\ n > Len(backends) /\ main' = "release" /\ n' = 1
            \/ /\ main = "release" /\ n <= device_count
               /\ main' = "release" /\ n' = n + 1
            \/ main = "release" /\ n > device_count /\ main' = "free"
            \/ main = "free" /\ main' = "cleaned"
            \/ main = "cleaned" /\ main' = "exited"
<1> USE DEF Ending, Over, counts
<1>1. CASE Build
  <2>1. main \notin Ending
    BY <1>1, LoopGoesTo DEF Build, CreateRuntime, CreateBackend, CreateDevice,
                            Finalize, CreateTags
  <2>2. QED
    BY <2>1
<1>2. CASE Main /\ Turn
  BY <1>2 DEF Main, Turn, MarkRunning, MarkStarted, MarkStopped, Mark, Enter, devices
<1>3. CASE Main /\ Move
  BY <1>3, LoopEnds DEF Main, Move, LeaveLoop, Exit, Goto, devices
<1>4. CASE Main /\ StartStop
  <2>0. UNCHANGED <<backends, device_count>>
    BY <1>4 DEF StartStop, devices
  <2>1. CASE StartBackend \/ StartScheduler
    <3>1. main \notin Ending
      BY <2>1, LoopGoesTo DEF StartBackend, StartScheduler
    <3>2. QED
      BY <3>1
  <2>2. CASE StopScheduler
    BY <2>0, <2>2 DEF StopScheduler, Goto
  <2>3. CASE JoinScheduler
    BY <2>0, <2>3 DEF JoinScheduler, Enter
  <2>4. CASE StopBackend
    BY <2>0, <2>4, LoopGoesTo DEF StopBackend, Goto
  <2>5. CASE JoinBackend
    BY <2>0, <2>5 DEF JoinBackend
  <2>6. QED
    BY <1>4, <2>1, <2>2, <2>3, <2>4, <2>5 DEF StartStop
<1>5. CASE Main /\ Cleanup
  BY <1>5, LoopGoesTo
     DEF Main, Cleanup, DestroyBackend, DestroyDevice, FreeRuntime, Goto,
         NextRound, devices
<1>6. CASE Handler \/ End \/ Work \/ UNCHANGED vars
  BY <1>6 DEF Handler, End, Work, vars, devices
<1>7. CASE Kill
  BY <1>7 DEF Kill, Terminate, Goto, devices
<1>8. QED
  BY <1>1, <1>2, <1>3, <1>4, <1>5, <1>6, <1>7 DEF Next, Main

\* Nobody comes to the loops at the end but through these steps.
LEMMA StepKeepsEndLoopInv ==
  ASSUME IInv, EndLoopInv, [Next]_vars
  PROVE  EndLoopInv'
<1>0. /\ n \in Nat /\ device_count \in Nat /\ Len(backends) \in Nat
      /\ main = "join" => n <= Len(backends)
  BY DEF IInv, LoopInv, TypeOK
<1>1. CASE main \in Ending
  <2>1. backends' = backends /\ device_count' = device_count
    BY <1>1, EndingSteps
  <2>2. CASE UNCHANGED counts
    BY <2>1, <2>2 DEF EndLoopInv, counts
  <2>3. CASE main' \in {"stop", "destroy", "release"} /\ n' = 1
    BY <1>0, <2>1, <2>3 DEF EndLoopInv
  <2>4. CASE n' = n + 1 /\ main = "join" /\ main' = "stop"
    BY <1>0, <2>1, <2>4 DEF EndLoopInv
  <2>5. CASE n' = n + 1 /\ main' = main /\ main = "destroy" /\ n <= Len(backends)
    BY <1>0, <2>1, <2>5 DEF EndLoopInv
  <2>6. CASE n' = n + 1 /\ main' = main /\ main = "release" /\ n <= device_count
    BY <1>0, <2>1, <2>6 DEF EndLoopInv
  <2>7. CASE main' \notin {"stop", "destroy", "release"}
    BY <2>7 DEF EndLoopInv
  <2>8. QED
    BY <1>1, <2>2, <2>3, <2>4, <2>5, <2>6, <2>7, EndingSteps
<1>2. CASE main \notin Ending
  <2>1. main' \notin {"stop", "destroy", "release"}
    <3> USE DEF Ending, Over
    <3>1. CASE Build
      BY <1>2, <3>1, LoopGoesTo
         DEF Build, CreateRuntime, CreateBackend, CreateDevice, Finalize,
             CreateTags, Goto, NextRound
    <3>2. CASE Turn
      BY <1>2, <3>2 DEF Turn, MarkRunning, MarkStarted, MarkStopped, Mark, Enter
    <3>3. CASE Move
      BY <1>2, <3>3, LoopEnds DEF Move, LeaveLoop, Exit, Goto
    <3>4. CASE StartStop
      BY <1>2, <3>4, LoopGoesTo
         DEF StartStop, StartBackend, StartScheduler, StopScheduler, JoinScheduler,
             StopBackend, JoinBackend, Goto, Enter, NextRound
    <3>5. CASE Cleanup
      BY <1>2, <3>5, LoopGoesTo
         DEF Cleanup, DestroyBackend, DestroyDevice, FreeRuntime, Goto
    <3>6. CASE Handler \/ End \/ Work \/ UNCHANGED vars
      BY <1>2, <3>6 DEF Handler, End, Work, vars, counts
    <3>7. CASE Kill
      BY <3>7 DEF Kill, Terminate, Goto
    <3>8. QED
      BY <3>1, <3>2, <3>3, <3>4, <3>5, <3>6, <3>7 DEF Next, Main
  <2>2. QED
    BY <2>1 DEF EndLoopInv
<1>3. QED
  BY <1>1, <1>2

LEMMA MainStepsAre ==
  /\ main \in Over => MainStepsLeft = 0
  /\ main = "cleaned" => MainStepsLeft = 1
  /\ main = "free" => MainStepsLeft = 2
  /\ main = "release" => MainStepsLeft = device_count + 4 - n
  /\ main = "destroy" => MainStepsLeft = device_count + Len(backends) + 5 - n
  /\ main = "stopped" => MainStepsLeft = device_count + Len(backends) + 5
  /\ main = "stop" => MainStepsLeft = device_count + 3 * Len(backends) + 8 - 2 * n
  /\ main = "join" => MainStepsLeft = device_count + 3 * Len(backends) + 7 - 2 * n
  /\ main = "join_scheduler"
         => MainStepsLeft = device_count + 3 * Len(backends) + 7
  /\ main = "stop_scheduler"
         => MainStepsLeft = device_count + 3 * Len(backends) + 8
BY DEF MainStepsLeft, Over

LEMMA MainStepsWillBe ==
  /\ main' \in Over => MainStepsLeft' = 0
  /\ main' = "cleaned" => MainStepsLeft' = 1
  /\ main' = "free" => MainStepsLeft' = 2
  /\ main' = "release" => MainStepsLeft' = device_count' + 4 - n'
  /\ main' = "destroy" => MainStepsLeft' = device_count' + Len(backends') + 5 - n'
  /\ main' = "stopped" => MainStepsLeft' = device_count' + Len(backends') + 5
  /\ main' = "stop"
         => MainStepsLeft' = device_count' + 3 * Len(backends') + 8 - 2 * n'
  /\ main' = "join"
         => MainStepsLeft' = device_count' + 3 * Len(backends') + 7 - 2 * n'
  /\ main' = "join_scheduler"
         => MainStepsLeft' = device_count' + 3 * Len(backends') + 7
BY DEF MainStepsLeft, Over

\* The number of steps is one, and at most three for each backend, one for each
\* device and eight.
LEMMA MainStepsAreFew ==
  ASSUME IInv, EndLoopInv, main \in Ending
  PROVE  /\ MainStepsLeft \in 0 .. DeviceCount + 3 * BackendCount + 8
         /\ MainStepsLeft = 0 => main \in Over
<1>1. /\ n \in Nat /\ n >= 1
      /\ device_count \in 0 .. DeviceCount /\ DeviceCount \in Nat
      /\ Len(backends) \in Nat /\ Len(backends) <= BackendCount
      /\ BackendCount \in Nat
      /\ main = "join" => n <= Len(backends)
  BY LifecycleAssumption DEF IInv, LoopInv, TypeOK, BuildInv
<1>2. QED
  BY <1>1, MainStepsAre DEF Ending, EndLoopInv, Over

\* After its loop main takes a bounded number of steps, whatever was built or
\* started; it waits in two of them, for threads that have been told to end
\* (runtime_stop, runtime_cleanup).
THEOREM EndIsReachable ==
  Spec => EndIsNear
            /\ [](main \in Ending
                      => MainStepsLeft \in 0 .. DeviceCount + 3 * BackendCount + 8)
<1>1. Init => EndLoopInv
  BY DEF Init, EndLoopInv
<1>2. IInv /\ EndLoopInv /\ [Next]_vars
      => [(main \in Ending)
             => MainStepsLeft' < MainStepsLeft \/ UNCHANGED counts]_vars
  <2> SUFFICES ASSUME IInv, EndLoopInv, [Next]_vars, main \in Ending
               PROVE  MainStepsLeft' < MainStepsLeft \/ UNCHANGED counts
    OBVIOUS
  <2>1. /\ n \in Nat /\ device_count \in Nat /\ Len(backends) \in Nat
        /\ main = "join" => n <= Len(backends)
    BY DEF IInv, LoopInv, TypeOK
  <2>2. CASE main \notin Over /\ main' = "killed"
    <3>1. MainStepsLeft \in Nat /\ MainStepsLeft # 0
      BY <2>2, MainStepsAreFew
    <3>2. MainStepsLeft' = 0
      BY <2>2, MainStepsWillBe DEF Over
    <3>3. QED
      BY <3>1, <3>2
  <2>3. CASE ~(main \notin Over /\ main' = "killed")
    BY <2>1, <2>3, EndingSteps, MainStepsAre, MainStepsWillBe DEF EndLoopInv, Over
  <2>4. QED
    BY <2>2, <2>3
<1>3. IInv /\ EndLoopInv
      => (main \in Ending
              => MainStepsLeft \in 0 .. DeviceCount + 3 * BackendCount + 8)
  BY MainStepsAreFew
<1>4. IInv /\ EndLoopInv /\ [Next]_vars => EndLoopInv'
  BY StepKeepsEndLoopInv
<1>5. QED
  BY <1>1, <1>2, <1>3, <1>4, Invariance, PTL DEF Spec, EndIsNear

-----------------------------------------------------------------------------
\* What is used and what is freed: both only while it is allocated, except the
\* two cases MisuseIsKnown names.

NoneUnknown == \A t \in Tag : device_of[t] # Unknown

\* What is still allocated on the way down, and the tag table from its creation.
HeapLasts ==
    /\ main = "destroy" =>
          /\ \A b \in Ahead : driver(b) \in heap /\ iomap(b) \in heap
          /\ \A d \in 1 .. device_count : device(d) \in heap
    /\ main = "release" => \A d \in n .. device_count : device(d) \in heap
    /\ main \in {"destroy", "release", "free"} => runtime \in heap
    /\ main \notin Constructing \cup {"cleaned"} \cup Over /\ NoneUnknown
          => plc_vars \in heap

MisuseInv == HeapLasts /\ MisuseIsKnown

LEMMA TagsKeepMisuseInv ==
  ASSUME IInv, MisuseInv, Build, UNCHANGED <<config, console>>
  PROVE  MisuseInv'
<1> USE DEF IInv, MisuseInv, Constructing, Over, config, console, memory, devices
<1>0. NoneUnknown' = NoneUnknown
  BY DEF NoneUnknown
<1>1. misused' = misused
  BY CreateBackendDoes, CreateDeviceDoes, FinalizeDoes
     DEF Build, CreateRuntime, CreateTags, Alloc
<1>2. MisuseIsKnown'
  BY <1>1 DEF MisuseIsKnown
<1>3. main' \in Constructing \cup Over \/ (CreateTags /\ main' = "start")
  BY CreateBackendDoes, CreateDeviceDoes, FinalizeDoes
     DEF Build, CreateRuntime, CreateTags, Goto
<1>4. CASE CreateTags /\ main' = "start" /\ NoneUnknown
  <2>1. device_of \in [Tag -> Device \cup {Unknown}] /\ device_count = DeviceCount
    BY <1>4 DEF CreateTags, LoopInv, TypeOK, BuildInv
  <2>2. ~GivenUp
    BY <1>4, <2>1 DEF GivenUp, NoneUnknown, Device
  <2>3. plc_vars \in heap'
    BY <1>4, <2>2 DEF CreateTags, Goto, Alloc
  <2>4. QED
    BY <1>2, <1>4, <2>3 DEF HeapLasts
<1>5. QED
  BY <1>0, <1>2, <1>3, <1>4 DEF HeapLasts

LEMMA CleanupKeepsMisuseInv ==
  ASSUME IInv, MisuseInv, Cleanup, UNCHANGED <<config, console>>
  PROVE  MisuseInv'
<1> USE DEF IInv, MisuseInv, Cleanup, devices, config, console
<1>0. /\ n \in Nat /\ device_count \in Nat /\ backends \in Seq(Backend)
      /\ NoneUnknown' = NoneUnknown
  BY DEF LoopInv, TypeOK, NoneUnknown
<1>1. CASE DestroyBackend
  <2> DEFINE b == backends[n]
  <2>1. /\ main = "destroy" /\ main' = main /\ n' = n + 1 /\ n <= Len(backends)
        /\ UNCHANGED <<backends, device_count, slaves, requests, device_of>>
        /\ Free({device(d) : d \in slaves[b]},
                {driver(b), iomap(b)} \cup ({buffers(d) : d \in slaves[b]} \cap heap))
    BY <1>1, LoopGoesTo DEF DestroyBackend, NextRound
  <2>2. b \in Ahead /\ b \in Backend /\ slaves[b] \subseteq 1 .. device_count
    BY <2>1, LoopAtBackend DEF BuildInv, Over
  <2>3. misused' = misused
    BY <2>1, <2>2 DEF Free, HeapLasts
  <2>4. Ahead' \subseteq Ahead \ {b}
    <3>1. /\ DOMAIN backends = 1 .. Len(backends) /\ Len(backends) \in Nat
          /\ \A k \in DOMAIN backends : backends[k] \in Nat
      BY <1>0, LifecycleAssumption DEF Backend
    <3>2. \A k \in DOMAIN backends : k >= n + 1 => backends[k] # b /\ k >= n
      BY <1>0, <2>1, <3>1 DEF BuildInv, LoopInv
    <3>3. QED
      BY <2>1, <3>2 DEF Ahead
  <2>5. HeapLasts'
    <3>1. \A c \in Ahead' : driver(c) \in heap' /\ iomap(c) \in heap'
      BY <2>1, <2>4 DEF Free, HeapLasts, driver, iomap, buffers
    <3>2. \A d \in 1 .. device_count : device(d) \in heap'
      BY <2>1 DEF Free, HeapLasts, device, driver, iomap, buffers
    <3>3. runtime \in heap' /\ (plc_vars \in heap => plc_vars \in heap')
      BY <2>1 DEF Free, HeapLasts, runtime, plc_vars, driver, iomap, buffers
    <3>4. QED
      BY <1>0, <2>1, <3>1, <3>2, <3>3 DEF HeapLasts, Constructing, Over
  <2>6. QED
    BY <2>1, <2>3, <2>5 DEF MisuseIsKnown
<1>2. CASE DestroyDevice
  <2>1. /\ main = "release" /\ main' = main /\ n' = n + 1 /\ n <= device_count
        /\ UNCHANGED <<device_count, requests, device_of>>
        /\ Free({}, {device(n)})
    BY <1>2, LoopGoesTo DEF DestroyDevice, NextRound
  <2>2. misused' = misused
    BY <1>0, <2>1 DEF Free, HeapLasts
  <2>3. \A d \in n + 1 .. device_count : d \in n .. device_count /\ d # n
    BY <1>0
  <2>4. HeapLasts'
    BY <1>0, <2>1, <2>3
       DEF Free, HeapLasts, device, runtime, plc_vars, Constructing, Over
  <2>5. QED
    BY <2>1, <2>2, <2>4 DEF MisuseIsKnown
<1>3. CASE FreeRuntime
  <2>1. /\ main = "free" /\ main' = "cleaned" /\ UNCHANGED <<requests, device_of>>
        /\ Free({}, {plc_vars, runtime})
    BY <1>3 DEF FreeRuntime, Goto
  <2>2. misused' \subseteq misused \cup (IF NoneUnknown THEN {} ELSE {plc_vars})
    BY <2>1 DEF Free, HeapLasts, Constructing, Over
  <2>3. QED
    BY <2>1, <2>2 DEF HeapLasts, MisuseIsKnown, NoneUnknown, Over
<1>4. QED
  BY <1>1, <1>2, <1>3

LEMMA WorkKeepsMisuseInv ==
  ASSUME IInv, MisuseInv, Work
  PROVE  MisuseInv'
<1> USE DEF IInv, MisuseInv
<1>1. /\ UNCHANGED <<main, n, backends, device_count, requests, device_of>>
      /\ heap' = heap
  BY WorkIsTyped DEF Work, LoopInv, counts, devices, config, console
<1>2. PICK t \in alive :
        IF t = Scheduler
        THEN Use({runtime, plc_vars} \cup {device(d) : d \in 1 .. device_count}
                     \cup UNION {Image(b) : b \in Registered})
        ELSE Use({iomap(t)} \cup Image(t))
  BY DEF Work, ThreadWorks
<1>3. main \notin Constructing \cup {"stopped"} \cup Dismantling
  BY <1>2 DEF AliveInv
<1>4. \A b \in Registered : {iomap(b)} \cup Image(b) \subseteq heap
  <2> SUFFICES ASSUME NEW b \in Registered
               PROVE  {iomap(b)} \cup Image(b) \subseteq heap
    OBVIOUS
  <2>1. slaves[b] \subseteq 1 .. device_count
    BY SchedulerIsNoBackend DEF BuildInv
  <2>2. QED
    BY <1>3, <2>1 DEF HeapHas, Image, Constructing
<1>5. /\ runtime \in heap /\ \A d \in 1 .. device_count : device(d) \in heap
      /\ NoneUnknown => plc_vars \in heap
  BY <1>3 DEF HeapHas, HeapLasts, Constructing, Dismantling, Over
<1>6. misused' \subseteq misused \cup (IF NoneUnknown THEN {} ELSE {plc_vars})
  <2>1. CASE t = Scheduler
    BY <1>2, <1>4, <1>5, <2>1 DEF Use, Free
  <2>2. CASE t # Scheduler
    BY <1>2, <1>4, <2>2 DEF Use, Free, AliveInv
  <2>3. QED
    BY <2>1, <2>2
<1>7. HeapLasts'
  BY <1>1 DEF HeapLasts, Ahead, NoneUnknown
<1>8. QED
  BY <1>1, <1>6, <1>7 DEF MisuseIsKnown, NoneUnknown

\* Where main goes without building or freeing.
LEMMA MovesOnTop ==
  ASSUME IInv, Main /\ (Turn \/ Move \/ StartStop)
  PROVE  \/ main' = main /\ n' = n
         \/ main' \in Constructing \cup {"cleaned"} \cup Over
         \/ /\ main' \notin Constructing \cup Dismantling
            /\ main \notin Constructing \cup {"cleaned"} \cup Over
         \/ main = "stopped" /\ main' = "destroy" /\ n' = 1
         \/ main = "destroy" /\ main' = "release" /\ n' = 1
         \/ main = "release" /\ main' = "free"
<1> USE DEF Constructing, Dismantling, Over
<1>1. CASE Turn
  BY <1>1 DEF Turn, MarkRunning, MarkStarted, MarkStopped, Mark, Enter
<1>2. CASE Move
  BY <1>2, LoopEnds DEF Move, LeaveLoop, Exit, Goto
<1>3. CASE StartStop
  BY <1>3, LoopGoesTo
     DEF StartStop, StartBackend, StartScheduler, StopScheduler, JoinScheduler,
         StopBackend, JoinBackend, Goto, Enter, NextRound
<1>4. QED
  BY <1>1, <1>2, <1>3

LEMMA StepKeepsMisuseInv ==
  ASSUME IInv, MisuseInv, [Next]_vars
  PROVE  MisuseInv'
<1> USE DEF IInv, MisuseInv
<1>1. CASE Main /\ Build
  BY <1>1, TagsKeepMisuseInv DEF Main
<1>2. CASE Main /\ Cleanup
  BY <1>2, CleanupKeepsMisuseInv DEF Main
<1>3. CASE Work
  BY <1>3, WorkKeepsMisuseInv
<1>4. CASE Handler
  <2>1. UNCHANGED <<main, n, backends, device_count, device_of>>
    BY <1>4 DEF Handler, config, counts, devices
  <2>2. requests \in Nat
    BY DEF LoopInv, TypeOK
  <2>3. CASE StopRequest
    BY <2>1, <2>3 DEF StopRequest, memory, HeapLasts, Ahead, NoneUnknown, MisuseIsKnown
  <2>4. CASE ClearRunning
    <3>1. heap' = heap /\ requests' > 0 /\ misused' \subseteq misused \cup {runtime}
      BY <2>2, <2>4 DEF ClearRunning, Use, Free
    <3>2. HeapLasts'
      BY <2>1, <3>1 DEF HeapLasts, Ahead, NoneUnknown
    <3>3. QED
      BY <2>1, <3>1, <3>2 DEF MisuseIsKnown
  <2>5. QED
    BY <1>4, <2>3, <2>4 DEF Handler
<1>5. CASE Kill
  BY <1>5 DEF Kill, Terminate, Goto, HeapLasts, MisuseIsKnown, Over, config, console
<1>6. CASE End \/ UNCHANGED vars
  BY <1>6 DEF End, vars, HeapLasts, MisuseIsKnown, Ahead, NoneUnknown, config,
              counts, devices, console, memory
<1>7. CASE Main /\ (Turn \/ Move \/ StartStop)
  <2>1. /\ UNCHANGED <<backends, device_count, requests, device_of, heap, misused>>
    BY <1>7 DEF Main, Turn, Move, StartStop, config, console, devices, memory
  <2>2. \/ main' = main /\ n' = n
        \/ main' \in Constructing \cup {"cleaned"} \cup Over
        \/ /\ main' \notin Constructing \cup Dismantling
           /\ main \notin Constructing \cup {"cleaned"} \cup Over
        \/ main = "stopped" /\ main' = "destroy" /\ n' = 1
        \/ main = "destroy" /\ main' = "release" /\ n' = 1
        \/ main = "release" /\ main' = "free"
    BY <1>7, MovesOnTop
  <2>3. CASE main = "stopped" /\ main' = "destroy" /\ n' = 1
    <3>1. Ahead' = Registered
      BY <2>1, <2>3, AheadShrinks
    <3>2. QED
      BY <2>1, <2>3, <3>1
         DEF HeapLasts, HeapHas, MisuseIsKnown, NoneUnknown, Constructing,
             Dismantling, Over
  <2>4. CASE ~(main = "stopped" /\ main' = "destroy" /\ n' = 1)
    BY <2>1, <2>2, <2>4
       DEF HeapLasts, MisuseIsKnown, NoneUnknown, Ahead, Constructing,
           Dismantling, Over
  <2>5. QED
    BY <2>3, <2>4
<1>8. QED
  BY <1>1, <1>2, <1>3, <1>4, <1>5, <1>6, <1>7 DEF Next, Main

\* The runtime, by the console handler, and a tag table a failed tag gave up are
\* all that is ever used or freed while it is not allocated, for any
\* configuration and whatever fails.
THEOREM OnlyKnownMisuse == Spec => []MisuseIsKnown
<1>1. Init => MisuseInv
  BY DEF Init, MisuseInv, HeapLasts, MisuseIsKnown, Constructing
<1>2. IInv /\ MisuseInv /\ [Next]_vars => MisuseInv'
  BY StepKeepsMisuseInv
<1>3. MisuseInv => MisuseIsKnown
  BY DEF MisuseInv
<1>4. QED
  BY <1>1, <1>2, <1>3, Invariance, PTL DEF Spec

-----------------------------------------------------------------------------
\* The tracker of AllocationTracker beside the life cycle.

\* A set of n elements has subsets of every size up to n.
LEMMA SubsetOfSize ==
  ASSUME NEW T, IsFiniteSet(T), NEW k \in Nat, k <= Cardinality(T)
  PROVE  \E S \in SUBSET T : Cardinality(S) = k
<1>1. Cardinality(T) \in Nat /\ ExistsBijection(1 .. Cardinality(T), T)
  BY FS_CardinalityType
<1>2. PICK f \in Bijection(1 .. Cardinality(T), T) : TRUE
  BY <1>1 DEF ExistsBijection
<1> DEFINE S == {f[i] : i \in 1 .. k}
           g == [i \in 1 .. k |-> f[i]]
<1>3. f \in [1 .. Cardinality(T) -> T]
      /\ \A a, b \in 1 .. Cardinality(T) : f[a] = f[b] => a = b
  BY <1>2 DEF Bijection, Injection, IsInjective
<1>4. 1 .. k \subseteq 1 .. Cardinality(T)
  BY <1>1
<1>5. S \in SUBSET T
  BY <1>3, <1>4
<1>6. g \in Bijection(1 .. k, S)
  BY <1>3, <1>4 DEF Bijection, Injection, IsInjective, Surjection
<1>7. IsFiniteSet(1 .. k) /\ Cardinality(1 .. k) = k
  BY FS_Interval
<1>8. Cardinality(S) = k
  BY <1>6, <1>7, FS_Bijection DEF ExistsBijection
<1>9. QED
  BY <1>5, <1>8

\* Only so many objects exist.
LEMMA ObjectsAreFinite == IsFiniteSet(Objects)
<1>1. IsFiniteSet(Backend) /\ IsFiniteSet(Device)
  BY LifecycleAssumption, FS_Interval DEF Backend, Device
<1>2. IsFiniteSet({driver(b) : b \in Backend})
  <2> DEFINE f == [b \in Backend |-> driver(b)]
  <2>1. f \in Surjection(Backend, {driver(b) : b \in Backend})
    BY DEF Surjection
  <2>2. QED
    BY <1>1, <2>1, FS_Surjection
<1>3. IsFiniteSet({iomap(b) : b \in Backend})
  <2> DEFINE f == [b \in Backend |-> iomap(b)]
  <2>1. f \in Surjection(Backend, {iomap(b) : b \in Backend})
    BY DEF Surjection
  <2>2. QED
    BY <1>1, <2>1, FS_Surjection
<1>4. IsFiniteSet({device(d) : d \in Device})
  <2> DEFINE f == [d \in Device |-> device(d)]
  <2>1. f \in Surjection(Device, {device(d) : d \in Device})
    BY DEF Surjection
  <2>2. QED
    BY <1>1, <2>1, FS_Surjection
<1>5. IsFiniteSet({buffers(d) : d \in Device})
  <2> DEFINE f == [d \in Device |-> buffers(d)]
  <2>1. f \in Surjection(Device, {buffers(d) : d \in Device})
    BY DEF Surjection
  <2>2. QED
    BY <1>1, <2>1, FS_Surjection
<1>6. IsFiniteSet({runtime, plc_vars})
  <2>1. IsFiniteSet({runtime}) /\ IsFiniteSet({plc_vars})
    BY FS_Singleton
  <2>2. IsFiniteSet({runtime} \cup {plc_vars})
    BY <2>1, FS_Union
  <2>3. {runtime, plc_vars} = {runtime} \cup {plc_vars}
    OBVIOUS
  <2>4. QED
    BY <2>2, <2>3
<1>7. QED
  BY <1>2, <1>3, <1>4, <1>5, <1>6, FS_Union DEF Objects

\* The tracker's count is that of its entries, all entries are allocated but
\* for a tag table that was given up, and the runtime is among them from the
\* first allocation to the last release.
CountIsSize ==
    /\ IsFiniteSet(allocs) /\ Cardinality(allocs) <= MAX_ALLOCS
    /\ alloc_count = Cardinality(allocs)

EntriesAreHeld ==
    main # "killed" =>
        /\ allocs \subseteq heap \cup {plc_vars}
        /\ main \in Constructing => plc_vars \notin allocs
        /\ heap = {} => allocs = {}
        /\ heap # {} => runtime \in heap /\ runtime \in allocs

TrackInv == CountIsSize /\ EntriesAreHeld

\* What ec_calloc enters: as many of the blocks as there are entries left.
LEMMA EnteredFits ==
  ASSUME CountIsSize, IsFiniteSet(Taken)
  PROVE  /\ Entered \in SUBSET Taken
         /\ Cardinality(allocs) + Cardinality(Entered) <= MAX_ALLOCS
         /\ Cardinality(allocs) = 0 /\ Cardinality(Taken) = 1 => Cardinality(Entered) = 1
<1> DEFINE left == MAX_ALLOCS - Cardinality(allocs)
           size == Min({Cardinality(Taken), left})
<1>1. /\ Cardinality(Taken) \in Nat /\ Cardinality(allocs) \in Nat
      /\ MAX_ALLOCS \in Nat /\ MAX_ALLOCS > 0
  BY FS_CardinalityType, TrackerAssumption DEF CountIsSize
<1>2. left \in Nat
  BY <1>1 DEF CountIsSize
<1>3. /\ size \in {Cardinality(Taken), left}
      /\ size <= Cardinality(Taken) /\ size <= left
  <2>1. \E x \in {Cardinality(Taken), left} :
           \A y \in {Cardinality(Taken), left} : x <= y
    <3>1. CASE Cardinality(Taken) <= left
      BY <1>1, <1>2, <3>1
    <3>2. CASE left <= Cardinality(Taken)
      BY <1>1, <1>2, <3>2
    <3>3. QED
      BY <1>1, <1>2, <3>1, <3>2
  <2>2. QED
    BY <2>1, Zenon DEF Min
<1>4. \E S \in SUBSET Taken : Cardinality(S) = size
  BY <1>1, <1>2, <1>3, SubsetOfSize
<1>5. Entered \in SUBSET Taken /\ Cardinality(Entered) = size
  BY <1>4 DEF Entered
<1>6. QED
  BY <1>1, <1>2, <1>3, <1>5

\* Main never acts once it is over, and only building leads on to building.
LEMMA MainIsNotOver ==
  ASSUME TypeOK, Main
  PROVE  /\ main \notin Over
         /\ main' # "killed"
         /\ main' \in Constructing => main \in Constructing
<1> USE DEF Constructing, Over
<1>1. CASE Build
  BY <1>1 DEF Build, CreateRuntime, CreateBackend, CreateDevice, Finalize,
              CreateTags, InLoop, Goto, NextRound
<1>2. CASE Turn
  BY <1>2 DEF Turn, MarkRunning, MarkStarted, MarkStopped, Mark, Enter
<1>3. CASE Move
  BY <1>3, LoopEnds DEF Move, LeaveLoop, Exit, Goto
<1>4. CASE StartStop
  BY <1>4 DEF StartStop, StartBackend, StartScheduler, StopScheduler,
              JoinScheduler, StopBackend, JoinBackend, InLoop, Goto, Enter,
              NextRound
<1>5. CASE Cleanup
  BY <1>5 DEF Cleanup, DestroyBackend, DestroyDevice, FreeRuntime, InLoop,
              Goto, NextRound
<1>6. QED
  BY <1>1, <1>2, <1>3, <1>4, <1>5 DEF Main

\* What a step of main does to the heap: it grows while things are built, with
\* the runtime first; afterwards it shrinks, and the runtime goes last.
Grows ==
    /\ main \in Constructing /\ heap \subseteq heap'
    /\ plc_vars \in heap' \ heap => main = "tags" /\ main' = "start"
    /\ main = "create" => heap' \subseteq {runtime}

Shrinks ==
    /\ main \notin Constructing /\ heap' \subseteq heap
    /\ main # "free" /\ runtime \in heap => runtime \in heap'
    /\ main = "free" => heap' = {}

LEMMA HeapOfMain ==
  ASSUME IInv, Main
  PROVE  Grows \/ Shrinks
<1> USE DEF Constructing
<1>1. CASE Build
  <2>1. main \in Constructing
    BY <1>1 DEF Build, CreateRuntime, CreateBackend, CreateDevice, Finalize,
                CreateTags, InLoop
  <2>2. CASE CreateRuntime
    <3>1. main = "create" /\ heap' \subseteq {runtime} /\ heap = {}
      BY <2>2 DEF CreateRuntime, Alloc, memory, IInv, HeapBound
    <3>2. plc_vars # runtime
      BY DEF plc_vars, runtime
    <3>3. QED
      BY <3>1, <3>2 DEF Grows
  <2>3. CASE CreateBackend
    <3>1. main # "create" /\ heap \subseteq heap'
          /\ heap' \subseteq heap \cup {driver(n), iomap(n)}
      BY <2>3, CreateBackendDoes DEF IInv
    <3>2. plc_vars # driver(n) /\ plc_vars # iomap(n)
      BY DEF plc_vars, driver, iomap
    <3>3. QED
      BY <2>1, <3>1, <3>2 DEF Grows
  <2>4. CASE CreateDevice
    <3>1. main # "create" /\ heap \subseteq heap'
          /\ heap' \subseteq heap \cup {device(n)}
      BY <2>4, CreateDeviceDoes DEF IInv
    <3>2. plc_vars # device(n)
      BY DEF plc_vars, device
    <3>3. QED
      BY <2>1, <3>1, <3>2 DEF Grows
  <2>5. CASE Finalize
    <3>1. main # "create" /\ heap \subseteq heap'
          /\ \A x \in heap' \ heap : \E d \in slaves[backends[n]] : x = buffers(d)
      BY <2>5, FinalizeDoes DEF IInv
    <3>2. plc_vars \notin heap' \ heap
      BY <3>1 DEF plc_vars, buffers
    <3>3. QED
      BY <2>1, <3>1, <3>2 DEF Grows
  <2>6. CASE CreateTags
    BY <2>6 DEF CreateTags, Goto, Alloc, memory, Grows
  <2>7. QED
    BY <1>1, <2>2, <2>3, <2>4, <2>5, <2>6 DEF Build
<1>2. CASE Turn \/ Move \/ StartStop
  <2>1. heap' = heap
    BY <1>2 DEF Turn, Move, StartStop, memory
  <2>2. main # "create" /\ main # "free"
    BY <1>2, LoopEnds
       DEF Turn, MarkRunning, MarkStarted, MarkStopped, Mark, Move, LeaveLoop,
           Exit, StartStop, StartBackend, StartScheduler, StopScheduler,
           JoinScheduler, StopBackend, JoinBackend, InLoop
  <2>3. QED
    BY <2>1, <2>2 DEF Grows, Shrinks
<1>3. CASE DestroyBackend
  <2>1. main = "destroy" /\ heap' \subseteq heap
    BY <1>3, LoopGoesTo DEF DestroyBackend, Free
  <2>2. runtime \in heap => runtime \in heap'
    BY <1>3 DEF DestroyBackend, Free, runtime, driver, iomap, buffers
  <2>3. QED
    BY <2>1, <2>2 DEF Shrinks
<1>4. CASE DestroyDevice
  <2>1. main = "release" /\ heap' = heap \ {device(n)}
    BY <1>4, LoopGoesTo DEF DestroyDevice, Free
  <2>2. QED
    BY <2>1 DEF Shrinks, runtime, device
<1>5. CASE FreeRuntime
  BY <1>5 DEF FreeRuntime, Free, IInv, HeapBound, Shrinks
<1>6. QED
  BY <1>1, <1>2, <1>3, <1>4, <1>5 DEF Main, Cleanup

\* While things are built, entries are only added.
LEMMA GrowthKeepsTrackInv ==
  ASSUME IInv, IInv', TrackInv, Main, Grows, Track
  PROVE  TrackInv'
<1>1. main # "killed" /\ main' # "killed" /\ main # "free"
  BY MainIsNotOver DEF IInv, LoopInv, Grows, Constructing, Over
<1>2. Given = {}
  BY <1>1 DEF Given, Grows
<1>3. Taken \subseteq (heap' \ heap) \cup {plc_vars}
      /\ (plc_vars \in Taken => main = "tags" /\ main' = "start")
      /\ heap' \ heap \subseteq Taken
  BY DEF Taken, Grows
<1>4. IsFiniteSet(Taken)
  <2>1. plc_vars \in Objects
    BY DEF Objects
  <2>2. Taken \in SUBSET Objects
    BY <1>3, <2>1 DEF IInv, LoopInv, TypeOK
  <2>3. QED
    BY <2>2, ObjectsAreFinite, FS_Subset
<1>5. /\ Entered \in SUBSET Taken
      /\ Cardinality(allocs) + Cardinality(Entered) <= MAX_ALLOCS
      /\ Cardinality(allocs) = 0 /\ Cardinality(Taken) = 1 => Cardinality(Entered) = 1
  BY <1>4, EnteredFits DEF TrackInv
<1>6. plc_vars \notin allocs /\ allocs \cap Taken = {}
  BY <1>1, <1>3 DEF TrackInv, EntriesAreHeld, Grows
<1>7. allocs' = allocs \cup Entered
      /\ alloc_count' = alloc_count + Cardinality(Entered) - Cardinality({})
  BY <1>2 DEF Track, Removed
<1>8. CountIsSize'
  <2>1. IsFiniteSet(allocs) /\ IsFiniteSet(Entered)
    BY <1>4, <1>5, FS_Subset DEF TrackInv, CountIsSize
  <2>2. allocs \cap Entered = {}
    BY <1>5, <1>6
  <2>3. /\ IsFiniteSet(allocs')
        /\ Cardinality(allocs') =
              Cardinality(allocs) + Cardinality(Entered) - Cardinality({})
    BY <1>7, <2>1, <2>2, FS_Union
  <2>4. Cardinality({}) = 0 /\ Cardinality(allocs) \in Nat
        /\ Cardinality(Entered) \in Nat
    BY <2>1, FS_EmptySet, FS_CardinalityType
  <2>5. QED
    BY <1>5, <1>7, <2>3, <2>4 DEF TrackInv, CountIsSize
<1>9. EntriesAreHeld'
  <2>1. allocs' \subseteq heap' \cup {plc_vars}
    BY <1>1, <1>3, <1>5, <1>7 DEF TrackInv, EntriesAreHeld, Grows
  <2>2. main' \in Constructing => plc_vars \notin allocs'
    BY <1>3, <1>5, <1>6, <1>7 DEF Constructing
  <2>3. main # "create" => runtime \in heap
    BY DEF IInv, HeapHas, Grows, Constructing, Dismantling
  <2>4. CASE heap # {}
    BY <1>1, <1>7, <2>1, <2>2, <2>4 DEF TrackInv, EntriesAreHeld, Grows
  <2>5. CASE heap = {}
    <3>1. main = "create" /\ allocs = {} /\ heap' \subseteq {runtime}
      BY <1>1, <2>3, <2>5 DEF TrackInv, EntriesAreHeld, Grows
    <3>2. Taken = heap'
      BY <1>3, <2>5, <3>1
    <3>3. CASE heap' = {}
      BY <1>5, <1>7, <2>2, <3>1, <3>2, <3>3 DEF EntriesAreHeld
    <3>4. CASE heap' # {}
      <4>1. Taken = {runtime} /\ Cardinality({runtime}) = 1
        BY <3>1, <3>2, <3>4, FS_Singleton
      <4>2. Cardinality(Entered) = 1
        BY <1>5, <3>1, <4>1, FS_EmptySet
      <4>3. Entered # {}
        BY <4>2, FS_EmptySet
      <4>4. runtime \in Entered
        BY <1>5, <4>1, <4>3
      <4>5. QED
        BY <1>7, <2>1, <2>2, <3>1, <3>2, <4>1, <4>4 DEF EntriesAreHeld
    <3>5. QED
      BY <3>3, <3>4
  <2>6. QED
    BY <2>4, <2>5
<1>10. QED
  BY <1>8, <1>9 DEF TrackInv

\* Afterwards they are only removed, and what is removed was entered or is
\* counted for nothing.
LEMMA ShrinkingKeepsTrackInv ==
  ASSUME IInv, TrackInv, Main, Shrinks, Track
  PROVE  TrackInv'
<1>1. main # "killed" /\ main' # "killed" /\ main' \notin Constructing
  BY MainIsNotOver DEF IInv, LoopInv, Shrinks, Over
<1>2. Taken = {}
  BY DEF Taken, Shrinks, Constructing
<1>3. Cardinality({}) = 0 /\ IsFiniteSet(Taken)
  BY <1>2, FS_EmptySet
<1>4. Entered = {}
  BY <1>2, <1>3, EnteredFits DEF TrackInv
<1>5. /\ allocs' = allocs \ Given
      /\ alloc_count' = alloc_count + 0 - Cardinality(allocs \cap Given)
  <2>1. Removed = allocs \cap Given
    BY DEF Removed
  <2>2. QED
    BY <1>3, <1>4, <2>1 DEF Track
<1>6. CountIsSize'
  <2>1. IsFiniteSet(allocs) /\ Cardinality(allocs) \in Nat
    BY FS_CardinalityType DEF TrackInv, CountIsSize
  <2>2. /\ IsFiniteSet(allocs') /\ Cardinality(allocs') \in Nat
        /\ Cardinality(allocs') = Cardinality(allocs) - Cardinality(allocs \cap Given)
    BY <1>5, <2>1, FS_Difference, FS_CardinalityType
  <2>3. Cardinality(allocs \cap Given) \in Nat
    BY <2>1, FS_Subset, FS_CardinalityType
  <2>4. MAX_ALLOCS \in Nat
    BY TrackerAssumption
  <2>5. QED
    BY <1>5, <2>1, <2>2, <2>3, <2>4 DEF TrackInv, CountIsSize
<1>7. heap \ heap' \subseteq Given
      /\ (main = "free" => Given = heap \cup {plc_vars})
      /\ (main # "free" => Given = heap \ heap')
  BY DEF Given, Shrinks
<1>8. EntriesAreHeld'
  <2>1. CASE main = "free"
    BY <1>1, <1>5, <1>7, <2>1 DEF TrackInv, EntriesAreHeld, Shrinks
  <2>2. CASE main # "free"
    BY <1>1, <1>5, <1>7, <2>2 DEF TrackInv, EntriesAreHeld, Shrinks
  <2>3. QED
    BY <2>1, <2>2
<1>9. QED
  BY <1>6, <1>8 DEF TrackInv

LEMMA StepKeepsTrackInv ==
  ASSUME IInv, IInv', TrackInv, [TrackedNext]_trackedVars
  PROVE  TrackInv'
<1>1. CASE Main /\ Track
  BY <1>1, HeapOfMain, GrowthKeepsTrackInv, ShrinkingKeepsTrackInv
<1>2. CASE (Handler \/ End \/ Work) /\ UNCHANGED <<allocs, alloc_count>>
  <2>1. UNCHANGED <<main, heap, allocs, alloc_count>>
    BY <1>2, WorkIsTyped
       DEF Handler, StopRequest, ClearRunning, Use, Free, End, Work, counts,
           memory, IInv, LoopInv
  <2>2. QED
    BY <2>1 DEF TrackInv, CountIsSize, EntriesAreHeld
<1>3. CASE Kill /\ UNCHANGED <<allocs, alloc_count>>
  BY <1>3 DEF Kill, Terminate, Goto, TrackInv, CountIsSize, EntriesAreHeld
<1>4. CASE UNCHANGED trackedVars
  BY <1>4 DEF trackedVars, vars, counts, memory, TrackInv, CountIsSize,
              EntriesAreHeld
<1>5. QED
  BY <1>1, <1>2, <1>3, <1>4 DEF TrackedNext

\* The tracker only observes: every behaviour of the build with EC_MEM_DEBUG is
\* one of the life cycle, so all theorems above hold for it too.
THEOREM TrackerObserves == TrackedSpec => Spec
<1>1. TrackedInit => Init
  BY DEF TrackedInit
<1>2. [TrackedNext]_trackedVars => [Next]_vars
  BY DEF TrackedNext, Next, trackedVars
<1>3. QED
  BY <1>1, <1>2, PTL DEF TrackedSpec, Spec

\* What the runs check with the tracker, for any configuration.
THEOREM TrackedIsSafe ==
  TrackedSpec =>
      [](/\ TypeOK /\ MemoryOutlivesThreads /\ SchedulerEndsFirst
         /\ StartedIsFinalized /\ CleanupIsComplete /\ SlavesAreReleased
         /\ MisuseIsKnown)
BY TrackerObserves, TypeCorrect, MemoryIsHeld, SchedulerIsFirst, MappedBeforeStart,
   NothingIsLeft, NoSlaveIsLeft, OnlyKnownMisuse, PTL

\* ec_mem_report says "No leaks detected" exactly when nothing is allocated, for
\* any configuration, any size of the table and whatever fails.
THEOREM ReportsAreRight == TrackedSpec => []ReportIsRight
<1>1. TrackedInit => TrackInv
  BY FS_EmptySet, TrackerAssumption
     DEF TrackedInit, Init, TrackInv, CountIsSize, EntriesAreHeld
<1>2. TrackedSpec => []IInv
  BY TrackerObserves, Invariance, PTL
<1>3. IInv /\ IInv' /\ TrackInv /\ [TrackedNext]_trackedVars => TrackInv'
  BY StepKeepsTrackInv
<1>4. TrackInv => ReportIsRight
  BY FS_EmptySet DEF TrackInv, CountIsSize, EntriesAreHeld, ReportIsRight
<1>5. QED
  BY <1>1, <1>2, <1>3, <1>4, PTL DEF TrackedSpec
=============================================================================
