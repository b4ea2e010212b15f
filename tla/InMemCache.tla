----------------------------- MODULE InMemCache -----------------------------
(***************************************************************************)
(* DefaultInMemCache (collect/cache/cache.go): the live traces of the      *)
(* collector, held in a map from trace ID to trace and in a ring that      *)
(* remembers the order of insertion.  A full ring ejects its oldest trace. *)
(*                                                                         *)
(* A *types.Trace is a pointer.  The collector makes one trace object for  *)
(* each span that finds neither a live trace nor a remembered decision, so *)
(* the object is named by that span: the ring and the map hold spans, or   *)
(* Nil for a nil pointer.  Every operation below is a step of its only     *)
(* caller, the collector goroutine (module Collector).                     *)
(***************************************************************************)
EXTENDS Traces

CONSTANT DefaultCapacity  \* DefaultInMemCacheCapacity (10000)

ASSUME DefaultAssumption == DefaultCapacity \in Nat \ {0}

VARIABLES
    cache,           \* map from trace ID to trace object
    insertionOrder,  \* the ring, indexed from 0 as in the code
    insertPoint,     \* next slot to write; may point one past the end
    capacity         \* len(insertionOrder), what GetCacheSize returns

cacheVars == <<cache, insertionOrder, insertPoint, capacity>>

Slots == 0 .. capacity - 1

Cached == {insertionOrder[i] : i \in Slots} \ {Nil}

CacheTypeOK ==
    /\ capacity \in Nat \ {0}
    /\ cache \in [TraceIDs -> Spans \cup {Nil}]
    /\ insertionOrder \in [Slots -> Spans \cup {Nil}]
    /\ insertPoint \in 0 .. capacity

-----------------------------------------------------------------------------
Effective(n) == IF n = 0 THEN DefaultCapacity ELSE n

NewInMemCache(n) ==
    /\ capacity = Effective(n)
    /\ cache = [id \in TraceIDs |-> Nil]
    /\ insertionOrder = [i \in 0 .. Effective(n) - 1 |-> Nil]
    /\ insertPoint = 0

(* The slot Set writes, and the trace it pushes out of the ring.           *)
SetPoint == IF insertPoint >= capacity THEN 0 ELSE insertPoint

Overwritten == insertionOrder[SetPoint]

(* Set stores the map entry before it deletes the one of the overwritten   *)
(* trace, in that order.                                                   *)
Set(t) ==
    LET stored == [cache EXCEPT ![TraceOf[t]] = t]
    IN  /\ cache' = IF Overwritten = Nil
                    THEN stored
                    ELSE [stored EXCEPT ![TraceOf[Overwritten]] = Nil]
        /\ insertionOrder' = [insertionOrder EXCEPT ![SetPoint] = t]
        /\ insertPoint' = SetPoint + 1
        /\ UNCHANGED capacity

(* TakeExpiredTraces: empty the slots of the expired traces S and delete   *)
(* their map entries; the insert point stays where it is.                  *)
Take(S) ==
    /\ insertionOrder' = [i \in Slots |-> IF insertionOrder[i] \in S
                                          THEN Nil ELSE insertionOrder[i]]
    /\ cache' = [id \in TraceIDs |-> IF \E t \in S : TraceOf[t] = id
                                     THEN Nil ELSE cache[id]]
    /\ UNCHANGED <<insertPoint, capacity>>

RemoveTraces(ids) == Take({t \in Cached : TraceOf[t] \in ids})

(* All the ways to list the set S without repetition ...                   *)
Listings(S) ==
    UNION {{f \in [1 .. n -> S] : /\ \A t \in S : \E i \in 1 .. n : f[i] = t
                                  /\ \A i, j \in 1 .. n : f[i] = f[j] => i = j}
             : n \in 0 .. capacity}

(* ... and the one that lists it in ring order, as GetAll and              *)
(* TakeExpiredTraces do.                                                   *)
InRingOrder(S) ==
    {f \in Listings(S) :
        \A i, j \in DOMAIN f : i < j =>
            \E a, b \in Slots : /\ a < b
                                /\ insertionOrder[a] = f[i]
                                /\ insertionOrder[b] = f[j]}

(* A fresh cache of size n into which the traces of the sequence kept are  *)
(* Set one after the other.                                                *)
Refill(n, kept) ==
    /\ capacity' = Effective(n)
    /\ insertionOrder' = [i \in 0 .. Effective(n) - 1 |->
                             IF i < Len(kept) THEN kept[i + 1] ELSE Nil]
    /\ insertPoint' = Len(kept)
    /\ cache' = [id \in TraceIDs |->
                    IF \E i \in DOMAIN kept : TraceOf[kept[i]] = id
                    THEN kept[CHOOSE i \in DOMAIN kept : TraceOf[kept[i]] = id]
                    ELSE Nil]

-----------------------------------------------------------------------------
(* The map and the ring of the cache agree: every ring entry is the trace  *)
(* the map gives for its ID, so no ID is in the ring twice, and every map  *)
(* entry is in the ring.  Set, TakeExpiredTraces, RemoveTraces and the     *)
(* rebuilding on reload and on memory overrun all have to keep it.         *)
RingMatchesMap ==
    /\ \A i \in Slots : insertionOrder[i] # Nil =>
          cache[TraceOf[insertionOrder[i]]] = insertionOrder[i]
    /\ \A i, j \in Slots :
          insertionOrder[i] = insertionOrder[j] /\ insertionOrder[i] # Nil => i = j
    /\ \A id \in TraceIDs : cache[id] # Nil =>
          cache[id] \in Cached /\ TraceOf[cache[id]] = id
=============================================================================
