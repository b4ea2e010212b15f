------------------------------ MODULE SentCache -----------------------------
(***************************************************************************)
(* The memory of sampling decisions (collect/cache/traceSentCache.go) in   *)
(* its two implementations, as the collector goroutine uses it:            *)
(*   "legacy"  one LRU holds a record for kept and for dropped traces;     *)
(*   "cuckoo"  an LRU holds the kept traces and a filter the dropped ones. *)
(*                                                                         *)
(* The LRU is a function from the remembered trace IDs to their records;   *)
(* rank counts the IDs used more recently.  The filter is the set of IDs   *)
(* it recognises; how its two halves are cycled is module CuckooChecker,   *)
(* and here cycling is the loss of any part of the set.                    *)
(***************************************************************************)
EXTENDS Traces

CONSTANTS
    SentCacheType,  \* SampleCache.Type: "legacy" or "cuckoo"
    StartSentSize   \* LRU size at Start: 5 * CacheCapacity, or KeptSize

ASSUME SentCacheAssumption ==
    /\ SentCacheType \in {"legacy", "cuckoo"}
    /\ StartSentSize \in Nat \ {0}

VARIABLES
    lru,       \* records of the LRU
    sentSize,  \* its size
    dropped    \* IDs the current cuckoo filter recognises

sentVars == <<lru, sentSize, dropped>>

SentTypeOK ==
    /\ DOMAIN lru \subseteq TraceIDs
    /\ \A id \in DOMAIN lru : lru[id] \in [keep : BOOLEAN, rank : Nat]
    /\ sentSize \in Nat \ {0}
    /\ dropped \subseteq TraceIDs

NewSentCache ==
    /\ lru = [id \in {} |-> [keep |-> FALSE, rank |-> 0]]
    /\ sentSize = StartSentSize
    /\ dropped = {}

-----------------------------------------------------------------------------
(* The ranks after id is used, the least recently used ID falling off.     *)
Rank(id, j) ==
    IF j = id THEN 0
    ELSE IF id \notin DOMAIN lru \/ lru[j].rank < lru[id].rank
         THEN lru[j].rank + 1
         ELSE lru[j].rank

Use(id, keep) ==
    [j \in {k \in DOMAIN lru \cup {id} : Rank(id, k) < sentSize} |->
        [keep |-> IF j = id THEN keep ELSE lru[j].keep, rank |-> Rank(id, j)]]

Record(id, keep) ==
    /\ lru' = IF SentCacheType = "cuckoo" /\ ~keep THEN lru ELSE Use(id, keep)
    /\ dropped' = IF SentCacheType = "cuckoo" /\ ~keep
                  THEN dropped \cup {id} ELSE dropped
    /\ UNCHANGED sentSize

(* Variant: only kept traces are found.                                    *)
FoundIfKept(id) == id \in DOMAIN lru /\ lru[id].keep

(* The second result of Check.  The cuckoo cache answers false, "not       *)
(* found", for a trace that its filter recognises as dropped.              *)
Found(id) ==
    /\ id \in DOMAIN lru
    /\ SentCacheType = "cuckoo" => id \notin dropped

(* A hit renews the record: lru.Get moves it to the front.                 *)
CheckHit(id) ==
    /\ lru' = Use(id, lru[id].keep)
    /\ UNCHANGED <<sentSize, dropped>>

(* Resize is a no-op for the legacy cache.  The cuckoo cache copies the    *)
(* newest records that fit into an LRU of the new size; lru.New refuses    *)
(* size 0, and Resize then returns with nothing changed.                   *)
Resize(n) ==
    /\ IF SentCacheType = "legacy" \/ n = 0
       THEN UNCHANGED <<lru, sentSize>>
       ELSE /\ sentSize' = n
            /\ lru' = [j \in {k \in DOMAIN lru : lru[k].rank < n} |-> lru[j]]
    /\ UNCHANGED dropped

(* The monitor goroutine cycles the filter: older IDs are forgotten.       *)
Cycle ==
    /\ SentCacheType = "cuckoo"
    /\ dropped' \in SUBSET dropped \ {dropped}
    /\ UNCHANGED <<lru, sentSize>>
=============================================================================
