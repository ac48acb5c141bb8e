------------------------------ MODULE Lifecycle -----------------------------
(***************************************************************************)
(* The life of the program: main builds the runtime from the configuration, *)
(* starts the backends and the scheduler, waits for a stop request of the  *)
(* console handler (a thread of Windows), stops everything and frees it.   *)
(* Every step of the construction may fail, and a closed console window    *)
(* has Windows end the process under way.                                  *)
(*                                                                         *)
(* The threads of a backend count as one here (DriverThreads has both), and *)
(* of each thread only whether it is alive matters.  An action names what  *)
(* it changes; what all actions of a group leave alone is said once, where *)
(* they are put together.                                                  *)
(***************************************************************************)
EXTENDS Naturals, Sequences, SequencesExt

CONSTANTS
    BackendCount,   \* backends of the configuration
    DeviceCount,    \* devices of the configuration
    TagCount,       \* I/O tags of the configuration
    MAX_BACKENDS,
    ECAT_MAX_SLAVES,
    MaxRequests     \* bound: stop requests

Backend == 1 .. BackendCount

Device == 1 .. DeviceCount

Tag == 1 .. TagCount

\* A name or an address that the configuration uses and does not define.
Unknown == 0

\* With more devices, arrays would be written or read past their end.
ASSUME LifecycleAssumption ==
    /\ BackendCount \in Nat /\ DeviceCount \in Nat /\ TagCount \in Nat
    /\ MAX_BACKENDS \in Nat /\ ECAT_MAX_SLAVES \in Nat
    /\ BackendCount <= MAX_BACKENDS
    /\ DeviceCount <= MAX_BACKENDS /\ DeviceCount <= ECAT_MAX_SLAVES
    /\ MaxRequests \in Nat

VARIABLES
    backend_of,         \* configuration: backend named by each device
    device_of,          \* configuration: device addressed by each tag
    main, n,            \* main thread: where it is, loop index
    backends,           \* runtime->backends
    device_count,       \* runtime->devices holds devices 1 .. device_count
    slaves,             \* of each driver
    finalized,          \* backends whose slaves are mapped
    asked,              \* state the master last asked of a backend's slaves
    running,            \* threads told to run
    alive,              \* threads that exist
    system_is_running,
    handler,            \* console handler: "idle" or "seen" p_runtime
    requests,           \* stop requests so far
    closed,             \* the console window was closed
    heap,               \* what is allocated
    misused             \* history: what was used or freed while not allocated

config == <<backend_of, device_of>>
counts == <<main, n>>
devices == <<device_count, slaves>>
console == <<handler, requests, closed>>
memory == <<heap, misused>>
vars == <<config, counts, backends, devices, finalized, asked, running, alive,
          system_is_running, console, memory>>

Scheduler == 0
Thread == Backend \cup {Scheduler}

runtime == <<"runtime", 0>>
plc_vars == <<"plc_vars", 0>>
driver(b) == <<"driver", b>>
iomap(b) == <<"iomap", b>>
device(d) == <<"device", d>>
buffers(d) == <<"buffers", d>>

Objects ==
    {runtime, plc_vars}
        \cup {driver(b) : b \in Backend} \cup {iomap(b) : b \in Backend}
        \cup {device(d) : d \in Device} \cup {buffers(d) : d \in Device}

Alloc(S) == heap' = heap \cup S /\ UNCHANGED misused

\* The objects in used are accessed and those in freed given back.
Free(used, freed) ==
    /\ heap' = heap \ freed
    /\ misused' = misused \cup ((used \cup freed) \ heap)

Use(used) == Free(used, {})

Init ==
    /\ backend_of \in [Device -> Backend \cup {Unknown}]
    /\ device_of \in [Tag -> Device \cup {Unknown}]
    /\ main = "create" /\ n = 1
    /\ backends = <<>>
    /\ device_count = 0
    /\ slaves = [b \in Backend |-> {}]
    /\ finalized = {}
    /\ asked = [b \in Backend |-> "PRE_OP"]
    /\ running = {} /\ alive = {}
    /\ system_is_running = 0
    /\ handler = "idle" /\ requests = 0 /\ closed = FALSE
    /\ heap = {} /\ misused = {}

\* What runtime_find_backend searches.
Registered == ToSet(backends)

Over == {"exited", "killed"}

\* main sets p_runtime first, and nobody clears it.
p_runtime == main # "create"

Goto(p) == main' = p /\ UNCHANGED n

Enter(p) == main' = p /\ n' = 1

\* A loop over the entries of an array: as many rounds, then on to the next.
Rounds(to_finalize) ==
    [create_backends |-> BackendCount, create_devices |-> DeviceCount,
     finalize |-> to_finalize, start |-> Len(backends), stop |-> Len(backends),
     destroy |-> Len(backends), release |-> device_count]

\* Slip: the last round of finalize is left out.
LimitOneShort == Rounds(DeviceCount - 1)

Limit == Rounds(DeviceCount)

Follows ==
    [create_backends |-> "create_devices", create_devices |-> "finalize",
     finalize |-> "tags", start |-> "start_scheduler", stop |-> "stopped",
     destroy |-> "release", release |-> "free"]

EndLoop ==
    /\ main \in DOMAIN Limit
    /\ n > Limit[main]
    /\ Enter(Follows[main])

InLoop(p) == main = p /\ n <= Limit[p]

NextRound == n' = n + 1 /\ UNCHANGED main

-----------------------------------------------------------------------------
\* main, up to runtime_init.

CreateRuntime ==
    /\ main = "create"
    /\ \/ Goto("exited") /\ UNCHANGED memory
       \/ Goto("mark") /\ Alloc({runtime})
    /\ UNCHANGED <<backends, devices, finalized, asked>>

\* A driver that cannot be created is passed over; one that finds no slaves
\* ends the program, and stays allocated.
CreateBackend ==
    /\ InLoop("create_backends")
    /\ \/ NextRound /\ UNCHANGED <<backends, memory>>
       \/ Goto("exited") /\ Alloc({driver(n)}) /\ UNCHANGED backends
       \/ /\ NextRound
          /\ Alloc({driver(n), iomap(n)})
          /\ backends' = Append(backends, n)
    /\ UNCHANGED <<devices, finalized, asked>>

\* A device without a backend ends the program; one whose bind is refused
\* (position, identity) is kept like any other.
CreateDevice ==
    /\ InLoop("create_devices")
    /\ LET b == backend_of[n]
       IN  \/ /\ b \in Registered
              /\ NextRound
              /\ Alloc({device(n)})
              /\ device_count' = device_count + 1
              /\ \/ slaves' = [slaves EXCEPT ![b] = @ \cup {n}]
                 \/ UNCHANGED slaves
           \/ b \notin Registered /\ Goto("exited") /\ Alloc({device(n)})
                 /\ UNCHANGED devices
           \/ Goto("exited") /\ UNCHANGED <<devices, memory>>
    /\ UNCHANGED <<backends, finalized, asked>>

\* The loop runs to the number of devices over the array of backends.  The
\* mapping, or the buffers of one of the slaves, may fail: that ends the
\* program.  Whether the slaves reach SAFE_OP makes no difference.
Finalize ==
    /\ InLoop("finalize")
    /\ IF n > Len(backends)
       THEN NextRound /\ UNCHANGED <<finalized, asked, memory>>
       ELSE LET b == backends[n]
            IN  \/ /\ NextRound
                   /\ finalized' = finalized \cup {b}
                   /\ asked' = [asked EXCEPT ![b] = "SAFE_OP"]
                   /\ Alloc({buffers(d) : d \in slaves[b]})
                \/ Goto("exited") /\ UNCHANGED <<finalized, asked, memory>>
                \/ \E failed \in slaves[b] :
                      /\ Goto("exited")
                      /\ Alloc({buffers(d) : d \in {e \in slaves[b] : e < failed}})
                      /\ UNCHANGED <<finalized, asked>>
    /\ UNCHANGED <<backends, devices>>

\* Some I/O tag addresses a device that does not exist.
GivenUp == \E t \in Tag : device_of[t] \notin 1 .. device_count

\* runtime_create_plc_tag: a table that was given up is freed again, and the
\* pointer kept; that is no error.
CreateTags ==
    /\ main = "tags"
    /\ \/ Goto("exited") /\ UNCHANGED memory
       \/ Goto("start") /\ Alloc(IF GivenUp THEN {} ELSE {plc_vars})
    /\ UNCHANGED <<backends, devices, finalized, asked>>

-----------------------------------------------------------------------------
\* The flag of the program.  A stop request that came before is lost when
\* main sets it, and when runtime_start sets it again.

Mark(at, value, next) ==
    /\ main = at
    /\ system_is_running' = value
    /\ Enter(next)

MarkRunning == Mark("mark", 1, "create_backends")

MarkStarted == Mark("started", 1, "loop")

MarkStopped == Mark("stopped", 0, "destroy")

LeaveLoop ==
    /\ main = "loop"
    /\ system_is_running = 0
    /\ Goto("stop_scheduler")

-----------------------------------------------------------------------------
\* runtime_start.

\* The slaves are asked for OPERATIONAL.  A backend that does not get there has
\* no threads, and nobody asks; nor does anybody look whether threads were
\* created.
StartBackend ==
    /\ InLoop("start")
    /\ NextRound
    /\ asked' = [asked EXCEPT ![backends[n]] = "OPERATIONAL"]
    /\ \/ UNCHANGED <<running, alive>>
       \/ /\ running' = running \cup {backends[n]}
          /\ alive' \in {alive, alive \cup {backends[n]}}

StartScheduler ==
    /\ main = "start_scheduler"
    /\ Goto("started")
    /\ running' = running \cup {Scheduler}
    /\ alive' \in {alive, alive \cup {Scheduler}}
    /\ UNCHANGED asked

-----------------------------------------------------------------------------
\* runtime_stop: each thread is told to end and waited for; the slaves of a
\* backend are then asked for SAFE_OP.

\* Slip: nobody waits for the thread.
StopSchedulerUnjoined ==
    /\ main = "stop_scheduler"
    /\ running' = running \ {Scheduler}
    /\ Enter("stop")
    /\ UNCHANGED <<alive, asked>>

StopScheduler ==
    /\ main = "stop_scheduler"
    /\ running' = running \ {Scheduler}
    /\ Goto("join_scheduler")
    /\ UNCHANGED <<alive, asked>>

JoinScheduler ==
    /\ main = "join_scheduler"
    /\ Scheduler \notin alive
    /\ Enter("stop")
    /\ UNCHANGED <<running, alive, asked>>

\* Slip: the join is forgotten.
StopWithoutJoin ==
    /\ InLoop("stop")
    /\ running' = running \ {backends[n]}
    /\ NextRound
    /\ asked' = [asked EXCEPT ![backends[n]] = "SAFE_OP"]
    /\ UNCHANGED alive

\* Slip: the threads are waited for but never told.
JoinUntold ==
    /\ InLoop("stop")
    /\ Goto("join")
    /\ UNCHANGED <<running, alive, asked>>

\* Slip: a backend that never became operational is passed over.
StopIfOperational ==
    /\ InLoop("stop")
    /\ IF backends[n] \in running THEN Goto("join") ELSE NextRound
    /\ running' = running \ {backends[n]}
    /\ UNCHANGED <<alive, asked>>

StopBackend ==
    /\ InLoop("stop")
    /\ running' = running \ {backends[n]}
    /\ Goto("join")
    /\ UNCHANGED <<alive, asked>>

JoinBackend ==
    /\ main = "join"
    /\ backends[n] \notin alive
    /\ main' = "stop" /\ n' = n + 1
    /\ asked' = [asked EXCEPT ![backends[n]] = "SAFE_OP"]
    /\ UNCHANGED <<running, alive>>

-----------------------------------------------------------------------------
\* runtime_cleanup.

\* Slip: the image of the process stays allocated.
DestroyButIomap ==
    LET b == backends[n]
    IN  /\ InLoop("destroy")
        /\ Free({device(d) : d \in slaves[b]},
                {driver(b)} \cup ({buffers(d) : d \in slaves[b]} \cap heap))
        /\ NextRound

\* The driver frees the buffers that hang on its slaves, which are devices.
DestroyBackend ==
    LET b == backends[n]
    IN  /\ InLoop("destroy")
        /\ Free({device(d) : d \in slaves[b]},
                {driver(b), iomap(b)}
                    \cup ({buffers(d) : d \in slaves[b]} \cap heap))
        /\ NextRound

\* Slip: the buffers are freed with the device as well.
DestroyDeviceAndBuffers ==
    InLoop("release") /\ Free({}, {device(n), buffers(n)}) /\ NextRound

DestroyDevice == InLoop("release") /\ Free({}, {device(n)}) /\ NextRound

FreeRuntime == main = "free" /\ Free({}, {plc_vars, runtime}) /\ Goto("cleaned")

Exit == main = "cleaned" /\ Goto("exited")

-----------------------------------------------------------------------------
\* The other threads.

\* What a pass over the slaves of a backend touches: their buffers too, once
\* they have some.
Image(b) ==
    {driver(b)} \cup {device(d) : d \in slaves[b]}
        \cup (IF b \in finalized THEN {buffers(d) : d \in slaves[b]} ELSE {})

\* A cycle of the driver's threads, or a tick of the scheduler: a task goes
\* through the tag table to any device, then every backend is synchronised.
\* The tags of a refused device have no driver and end at the device.
ThreadWorks ==
    \E t \in alive :
        IF t = Scheduler
        THEN Use({runtime, plc_vars} \cup {device(d) : d \in 1 .. device_count}
                     \cup UNION {Image(b) : b \in Registered})
        ELSE Use({iomap(t)} \cup Image(t))

\* The threads of a backend, or the scheduler's, see that they are to end.
ThreadEnds == \E t \in alive \ running : alive' = alive \ {t}

\* console_ctrl_handler: Ctrl-C or the window closed.
StopRequest ==
    /\ main \notin Over
    /\ handler = "idle"
    /\ requests < MaxRequests
    /\ p_runtime
    /\ handler' = "seen"
    /\ UNCHANGED <<system_is_running, requests, closed, memory>>

\* Slip: counted down instead of cleared.
DecrementRunning ==
    /\ main \notin Over
    /\ handler = "seen"
    /\ system_is_running' = system_is_running - 1
    /\ Use({runtime})
    /\ handler' = "idle"
    /\ requests' = requests + 1
    /\ UNCHANGED closed

ClearRunning ==
    /\ main \notin Over
    /\ handler = "seen"
    /\ system_is_running' = 0
    /\ Use({runtime})
    /\ handler' = "idle"
    /\ requests' = requests + 1
    /\ closed' \in {closed, TRUE}

\* Once the handler has returned from CTRL_CLOSE_EVENT, Windows ends the
\* process wherever it is; the slaves keep the state they were asked for.
Terminate ==
    /\ closed /\ main \notin Over
    /\ Goto("killed")
    /\ alive' = {} /\ heap' = {}

Build ==
    /\ CreateRuntime \/ CreateBackend \/ CreateDevice \/ Finalize \/ CreateTags
    /\ UNCHANGED <<running, alive, system_is_running>>

Turn ==
    /\ MarkRunning \/ MarkStarted \/ MarkStopped
    /\ UNCHANGED <<backends, devices, finalized, asked, running, alive, memory>>

Move ==
    /\ EndLoop \/ LeaveLoop \/ Exit
    /\ UNCHANGED <<backends, devices, finalized, asked, running, alive,
                   system_is_running, memory>>

StartStop ==
    /\ StartBackend \/ StartScheduler \/ StopScheduler \/ JoinScheduler
           \/ StopBackend \/ JoinBackend
    /\ UNCHANGED <<backends, devices, finalized, system_is_running, memory>>

Cleanup ==
    /\ DestroyBackend \/ DestroyDevice \/ FreeRuntime
    /\ UNCHANGED <<backends, devices, finalized, asked, running, alive,
                   system_is_running>>

Main ==
    /\ Build \/ Turn \/ Move \/ StartStop \/ Cleanup
    /\ UNCHANGED <<config, console>>

Handler ==
    /\ StopRequest \/ ClearRunning
    /\ UNCHANGED <<config, counts, backends, devices, finalized, asked, running,
                   alive>>

End ==
    /\ ThreadEnds
    /\ UNCHANGED <<config, counts, backends, devices, finalized, asked, running,
                   system_is_running, console, memory>>

Kill ==
    /\ Terminate
    /\ UNCHANGED <<config, backends, devices, finalized, asked, running,
                   system_is_running, console, misused>>

Work ==
    /\ ThreadWorks
    /\ UNCHANGED <<config, counts, backends, devices, finalized, asked, running,
                   alive, system_is_running, console>>

Next == Main \/ Handler \/ End \/ Work \/ Kill

\* Windows schedules each runnable thread again and again, and the threads
\* look at their flag in every round; nothing forces a stop request.
Fairness ==
    /\ WF_vars(Main) /\ WF_vars(End)
    /\ WF_vars(Handler /\ handler = "seen") /\ WF_vars(Kill)

Spec == Init /\ [][Next]_vars /\ Fairness

-----------------------------------------------------------------------------
TypeOK ==
    /\ backend_of \in [Device -> Backend \cup {Unknown}]
    /\ device_of \in [Tag -> Device \cup {Unknown}]
    /\ main \in DOMAIN Limit \cup Over \cup
          {"create", "mark", "tags", "start_scheduler", "started", "loop",
           "stop_scheduler", "join_scheduler", "join", "stopped", "free",
           "cleaned"}
    /\ n \in Nat
    /\ backends \in Seq(Backend)
    /\ device_count \in 0 .. DeviceCount
    /\ slaves \in [Backend -> SUBSET Device]
    /\ finalized \subseteq Backend
    /\ asked \in [Backend -> {"PRE_OP", "SAFE_OP", "OPERATIONAL"}]
    /\ running \subseteq Thread /\ alive \subseteq Thread
    /\ system_is_running \in {0, 1}
    /\ handler \in {"idle", "seen"}
    /\ requests \in 0 .. MaxRequests
    /\ closed \in BOOLEAN
    /\ heap \subseteq Objects /\ misused \subseteq Objects

\* What a thread works on is allocated as long as the thread lives, whatever
\* failed on the way up: the drivers with their images and bound devices, and
\* for the scheduler everything that a task can reach, except the tag table
\* when it was given up.
MemoryOutlivesThreads ==
    /\ \A b \in alive \ {Scheduler} : {iomap(b)} \cup Image(b) \subseteq heap
    /\ Scheduler \in alive =>
          {runtime} \cup {device(d) : d \in 1 .. device_count}
                    \cup UNION {Image(b) : b \in Registered} \subseteq heap

\* The scheduler, which calls sync of every backend, ends before any backend
\* is stopped or freed.
SchedulerEndsFirst ==
    main \in {"stop", "join", "stopped", "destroy", "release", "free", "cleaned"}
        => Scheduler \notin alive

\* With at least as many devices as backends, a backend runs only with its
\* slaves mapped and their buffers allocated ("Finalize backend mappings").
StartedIsFinalized ==
    BackendCount <= DeviceCount =>
        \A b \in alive \ {Scheduler} :
            b \in finalized /\ {buffers(d) : d \in slaves[b]} \subseteq heap

\* Nothing is used or freed while it is not allocated, but for two cases: the
\* console handler may hold on to the runtime when it is freed, and a tag table
\* that was given up is used by the tasks and freed again.
MisuseIsKnown ==
    misused \subseteq
        (IF requests > 0 THEN {runtime} ELSE {})
          \cup (IF \E t \in Tag : device_of[t] = Unknown THEN {plc_vars} ELSE {})

\* After runtime_cleanup, which a fatal failure of runtime_init never reaches,
\* nothing is left, whatever was refused or failed to start.
CleanupIsComplete == main = "cleaned" => heap = {}

\* A program that ends by itself leaves no slave asked to be OPERATIONAL and
\* without a master: also not the slaves of a backend whose start failed half
\* way, and not when the construction of another part fails.
SlavesAreReleased ==
    main = "exited" => \A b \in Backend : asked[b] # "OPERATIONAL"

\* Once main is in its loop a stop request ends the program, whatever threads
\* there are.
StopCompletes == (main = "loop" /\ system_is_running = 0) ~> (main \in Over)

\* The handler announces "Arret demande" and returns TRUE: the request of the
\* user ends the program.
RequestIsHonoured == (requests > 0) ~> (main \in Over)
=============================================================================
