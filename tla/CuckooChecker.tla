---------------------------- MODULE CuckooChecker ---------------------------
(***************************************************************************)
(* The memory of dropped traces of the cuckoo sent cache: two filters,     *)
(* current and future, that Maintain cycles, and the monitor goroutine     *)
(* that calls Maintain and that Resize replaces (collect/cache/cuckoo.go,  *)
(* cuckooSentCache.go).                                                    *)
(*                                                                         *)
(* A filter is the set of the additions it holds, numbered in the order    *)
(* they were made, and its number of slots; a filter of no slots is nil.   *)
(* False positives are left out: they add IDs and never lose one.          *)
(***************************************************************************)
EXTENDS Naturals, FiniteSets

CONSTANTS
    StartSize,   \* DroppedSize at Start
    Sizes,       \* DroppedSize after a reload
    MaxBurst,    \* bound: additions between two readings of the load factor
    MaxAdds,     \* bound: additions
    MaxResizes   \* bound: reloads that reach Resize

ASSUME SizesAssumption ==
    /\ StartSize \in Nat \ {0} /\ Sizes \subseteq Nat \ {0}
    /\ MaxBurst \in Nat \ {0}
    /\ MaxAdds \in Nat /\ MaxResizes \in Nat

Monitors == 0..MaxResizes
Filters == [els : SUBSET (1..MaxAdds), size : Nat]
Nil == [els |-> {}, size |-> 0]
NewFilter(n) == [els |-> {}, size |-> n]

VARIABLES
    current, future,
    capacity,
    adds,      \* additions made so far
    since,     \* additions since the load factor was last read
    monitor,   \* of each monitor goroutine: "none" is not started, "done" ended
    load,      \* what the running Maintain has read: "low", "half" or "full"
    resizing,  \* the collector is inside Resize, before its send on done
    resizes,
    closed     \* Stop has closed the done channel

filterVars == <<current, future, capacity, adds, since, monitor, load, resizing, resizes, closed>>

FilterTypeOK ==
    /\ current \in Filters /\ current.size > 0
    /\ future \in Filters
    /\ capacity \in Nat \ {0}
    /\ adds \in 0..MaxAdds /\ since \in 0..MaxBurst
    /\ monitor \in [Monitors -> {"none", "select", "grow", "cycle", "done"}]
    /\ load \in {"low", "half", "full"}
    /\ resizing \in BOOLEAN /\ closed \in BOOLEAN
    /\ resizes \in Monitors

NewCuckooTraceChecker ==
    /\ current = NewFilter(StartSize) /\ future = Nil
    /\ capacity = StartSize

FilterInit ==
    /\ NewCuckooTraceChecker
    /\ adds = 0 /\ since = 0
    /\ monitor = [m \in Monitors |-> IF m = 0 THEN "select" ELSE "none"]
    /\ load = "low"
    /\ resizing = FALSE /\ resizes = 0 /\ closed = FALSE

(* filter.Insert: once the slots are taken, some fingerprint is displaced  *)
(* for good.                                                               *)
Insert(f, x) ==
    IF Cardinality(f.els) < f.size
    THEN {[els |-> f.els \cup {x}, size |-> f.size]}
    ELSE {[els |-> (f.els \cup {x}) \ {y}, size |-> f.size] : y \in f.els \cup {x}}

(* filter.LoadFactor against the two thresholds of Maintain.               *)
LoadFactor(f) ==
    IF 100 * Cardinality(f.els) > 99 * f.size THEN "full"
    ELSE IF 2 * Cardinality(f.els) > f.size THEN "half" ELSE "low"

(* Variant: once there is a future filter, it alone is filled.             *)
AddToFuture ==
    /\ adds < MaxAdds /\ since < MaxBurst /\ ~resizing
    /\ adds' = adds + 1 /\ since' = since + 1
    /\ IF future = Nil
       THEN current' \in Insert(current, adds') /\ UNCHANGED future
       ELSE future' \in Insert(future, adds') /\ UNCHANGED current
    /\ UNCHANGED <<capacity, monitor, load, resizing, resizes, closed>>

(* Record of a trace that was not kept, by the collector goroutine.        *)
Add ==
    /\ adds < MaxAdds /\ since < MaxBurst /\ ~resizing
    /\ adds' = adds + 1 /\ since' = since + 1
    /\ current' \in Insert(current, adds')
    /\ IF future = Nil THEN UNCHANGED future
                       ELSE future' \in Insert(future, adds')
    /\ UNCHANGED <<capacity, monitor, load, resizing, resizes, closed>>

(* Maintain, in the three parts its lock divides it into: read the load    *)
(* factor; make the future filter; cycle the filters.                      *)
MaintainRead(m) ==
    /\ monitor[m] = "select"
    /\ load' = LoadFactor(current)
    /\ since' = 0
    /\ monitor' = [monitor EXCEPT ![m] = "grow"]
    /\ UNCHANGED <<current, future, capacity, adds, resizing, resizes, closed>>

MaintainGrow(m) ==
    /\ monitor[m] = "grow"
    /\ future' = IF future = Nil /\ load # "low" THEN NewFilter(capacity) ELSE future
    /\ monitor' = [monitor EXCEPT ![m] = IF load = "full" THEN "cycle" ELSE "select"]
    /\ UNCHANGED <<current, capacity, adds, since, load, resizing, resizes, closed>>

(* Variant: the filter is never cycled.                                    *)
MaintainNoCycle(m) ==
    /\ monitor[m] = "cycle"
    /\ monitor' = [monitor EXCEPT ![m] = "select"]
    /\ UNCHANGED <<current, future, capacity, adds, since, load, resizing, resizes, closed>>

MaintainCycle(m) ==
    /\ monitor[m] = "cycle"
    /\ current' = future
    /\ future' = NewFilter(capacity)
    /\ monitor' = [monitor EXCEPT ![m] = "select"]
    /\ UNCHANGED <<capacity, adds, since, load, resizing, resizes, closed>>

(* Resize sets the capacity of filters to come, then blocks until the      *)
(* monitor takes its message from done, and starts another monitor.        *)
SetNextCapacity ==
    /\ ~resizing /\ ~closed /\ resizes < MaxResizes
    /\ capacity' \in Sizes
    /\ resizing' = TRUE
    /\ UNCHANGED <<current, future, adds, since, monitor, load, resizes, closed>>

(* Variant: nothing tells the old monitor to end.                          *)
ReplaceMonitorOnly(m) ==
    /\ resizing /\ ~closed
    /\ monitor[m] = "select"
    /\ resizing' = FALSE /\ resizes' = resizes + 1
    /\ monitor' = [monitor EXCEPT ![resizes + 1] = "select"]
    /\ UNCHANGED <<current, future, capacity, adds, since, load, closed>>

ReplaceMonitor(m) ==
    /\ resizing /\ ~closed
    /\ monitor[m] = "select"
    /\ resizing' = FALSE /\ resizes' = resizes + 1
    /\ monitor' = [monitor EXCEPT ![m] = "done", ![resizes + 1] = "select"]
    /\ UNCHANGED <<current, future, capacity, adds, since, load, closed>>

(* Stop, at a time when no Resize is under way (in the other case the      *)
(* collector panics: see EndReload there), and the monitor's answer to it. *)
Stop ==
    /\ ~closed /\ ~resizing
    /\ closed' = TRUE
    /\ UNCHANGED <<current, future, capacity, adds, since, monitor, load, resizing, resizes>>

MonitorEnds(m) ==
    /\ closed /\ monitor[m] = "select"
    /\ monitor' = [monitor EXCEPT ![m] = "done"]
    /\ UNCHANGED <<current, future, capacity, adds, since, load, resizing, resizes, closed>>

Maintain(m) == MaintainRead(m) \/ MaintainGrow(m) \/ MaintainCycle(m)

FilterNext ==
    \/ Add \/ SetNextCapacity \/ Stop
    \/ \E m \in Monitors : Maintain(m) \/ ReplaceMonitor(m) \/ MonitorEnds(m)

FilterSpec == FilterInit /\ [][FilterNext]_filterVars

(* A monitor is a goroutine with a ticker, and its select chooses at       *)
(* random among the cases that are ready.                                  *)
FilterFairness ==
    \A m \in Monitors : WF_filterVars(Maintain(m)) /\ SF_filterVars(ReplaceMonitor(m))

FilterFairSpec == FilterSpec /\ FilterFairness
-----------------------------------------------------------------------------
(* Drops are forgotten oldest first: a filter that has not overflowed      *)
(* holds an unbroken run of the latest additions, whatever was added       *)
(* while Maintain made and cycled filters around it.                       *)
OldestForgottenFirst ==
    \A f \in {current, future} :
        Cardinality(f.els) < f.size => f.els = (adds - Cardinality(f.els) + 1)..adds

(* Resizing never leaves two monitor goroutines, whose Maintain calls      *)
(* would cycle the filters twice for one full reading.                     *)
OneMonitor ==
    Cardinality({m \in Monitors : monitor[m] \notin {"none", "done"}}) <= 1

(* Filters are cycled for fullness only: the load factor that Maintain     *)
(* read before it took the write lock still holds when it cycles, whatever *)
(* was added, resized or replaced since, and there is a future filter.     *)
CycledWhenFull ==
    [][\A m \in Monitors : monitor[m] = "cycle" /\ monitor'[m] # "cycle"
         => LoadFactor(current) = "full" /\ current'.size # 0]_filterVars

(* Until Stop a full filter is replaced, and a Resize comes to its end.    *)
FullIsCycled ==
    /\ LoadFactor(current) = "full" ~> (LoadFactor(current) # "full" \/ closed)
    /\ resizing ~> ~resizing
=============================================================================
