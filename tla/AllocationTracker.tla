-------------------------- MODULE AllocationTracker --------------------------
(***************************************************************************)
(* Lifecycle in a build with EC_MEM_DEBUG, where MALLOC, CALLOC and FREE   *)
(* keep a table of the blocks that are allocated and count them.  The      *)
(* table has a fixed size, and one release goes past it: the tag table     *)
(* that runtime_create_plc_tag gives up is freed by free itself.  The      *)
(* project does not define EC_MEM_DEBUG, and nothing calls ec_mem_report.  *)
(***************************************************************************)
EXTENDS Lifecycle, FiniteSetsExt

CONSTANT MAX_ALLOCS

ASSUME TrackerAssumption == MAX_ALLOCS \in Nat \ {0}

VARIABLES
    allocs,         \* blocks entered in the table
    alloc_count

trackedVars == <<vars, allocs, alloc_count>>

\* What the last step of main took from CALLOC, and what it gave to FREE.
Taken == (heap' \ heap) \cup (IF main = "tags" /\ main' = "start" THEN {plc_vars} ELSE {})

Given == (heap \ heap') \cup (IF main = "free" THEN {plc_vars} ELSE {})

\* ec_calloc: a block for which there is no free entry is not entered.  Which of
\* the blocks of one step find the last entries makes no difference here.
Entered ==
    CHOOSE S \in SUBSET Taken :
        Cardinality(S) = Min({Cardinality(Taken), MAX_ALLOCS - Cardinality(allocs)})

\* Slip: a block that is not in the table is counted out as well.
RemovedAnyway == Given

\* ec_free: what is counted out was found in the table.
Removed == Given \cap allocs

Track ==
    /\ allocs' = (allocs \ Given) \cup Entered
    /\ alloc_count' = alloc_count + Cardinality(Entered) - Cardinality(Removed)

TrackedInit == Init /\ allocs = {} /\ alloc_count = 0

\* When Windows ends the process, nothing is left to keep a table of.
TrackedNext ==
    \/ Main /\ Track
    \/ (Handler \/ End \/ Work) /\ UNCHANGED <<allocs, alloc_count>>
    \/ Kill /\ UNCHANGED <<allocs, alloc_count>>

TrackedSpec == TrackedInit /\ [][TrackedNext]_trackedVars /\ Fairness

-----------------------------------------------------------------------------
\* ec_mem_report would tell "No leaks detected" exactly when nothing is allocated:
\* whatever the table had no room for and whatever was freed past it, the
\* runtime is entered first and removed last.
ReportIsRight == main # "killed" => (alloc_count = 0 <=> heap = {})
=============================================================================
