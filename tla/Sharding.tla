------------------------------ MODULE Sharding ------------------------------
(***************************************************************************)
(* Which peer is responsible for a trace: the two strategies of the        *)
(* deterministic sharder (sharder/deterministic.go), and what happens to   *)
(* one trace when the peer list changes.                                   *)
(*                                                                         *)
(* A peer is a number, its place in the order of SortableShardList.  The   *)
(* hashes are parameters: UHash is what GetHashesFor computes for the      *)
(* k-th partition of a peer, score what wyhash makes of the trace ID       *)
(* seeded with that, word the first bytes of the SHA1 of the trace ID.     *)
(***************************************************************************)
EXTENDS Naturals, FiniteSets, SequencesExt

CONSTANTS
    AllPeers,        \* the peers that may be in a list
    PartitionCount,  \* partitionCount, 50 in the code
    MaxWord,         \* math.MaxUint32 in the code
    UHash,           \* by <<peer, k>>
    MaxScore,        \* bound: values of the trace hash
    MinPeers         \* bound: peers in a list (fewer peers make more partitions)

ASSUME ShardingAssumption ==
    /\ AllPeers \subseteq Nat /\ IsFiniteSet(AllPeers)
    /\ PartitionCount \in Nat /\ MaxScore \in Nat
    /\ MinPeers \in Nat \ {0} /\ Cardinality(AllPeers) <= MaxWord

VARIABLES
    peers,  \* d.peers
    score   \* of the trace, by <<peer, k>>

vars == <<peers, score>>

partitionsPerPeer(S) == PartitionCount \div Cardinality(S) + 1

Partitions(S) == S \X (1..partitionsPerPeer(S))

PeerLists == {S \in SUBSET AllPeers : Cardinality(S) >= MinPeers}
AllPartitions == UNION {Partitions(S) : S \in PeerLists}

TypeOK == peers \in PeerLists /\ score \in [AllPartitions -> 0..MaxScore]

Init == TypeOK

(* The members of a set in the order of their keys, which are distinct.    *)
InOrder(S, key(_)) ==
    [i \in 1..Cardinality(S) |->
        CHOOSE p \in S : Cardinality({q \in S : key(q) < key(p)}) = i - 1]

(* The peer list, as SortableShardList orders it, and d.hashes: the        *)
(* partitions of all its peers in the order of their hashes.               *)
shards(S) == InOrder(S, LAMBDA p : p)
hashes(S) == InOrder(Partitions(S), LAMBDA p : UHash[p])

(* Variant: a peer's hashes come from its place in the list.               *)
WhichShardByPlace(S) ==
    shards(S)[FoldLeft(LAMBDA best, p :
                          IF score[p] > best[2] THEN <<p[1], score[p]>> ELSE best,
                       <<1, 0>>, hashes(1..Cardinality(S)))[1]]

(* The loop keeps the peer of the first partition with the highest score;  *)
(* bestix starts at the first peer of the list and maxHash at zero.        *)
WhichShardHashed(S) ==
    FoldLeft(LAMBDA best, p :
                IF score[p] > best[2] THEN <<p[1], score[p]>> ELSE best,
             <<shards(S)[1], 0>>, hashes(S))[1]

(* Variant: an index past the end becomes the last one.                    *)
LegacyIndexClamped(n, word) ==
    LET index == word \div (MaxWord \div n)
    IN  IF index >= n THEN n - 1 ELSE index

LegacyIndex(n, word) ==
    LET portion == MaxWord \div n
        index == word \div portion
    IN  IF index >= n THEN 0 ELSE index

WhichShardLegacy(S, word) ==
    shards(S)[LegacyIndex(Cardinality(S), word) + 1]

(* The sharder loads another list; the trace keeps its hashes.             *)
loadPeerList(S) ==
    /\ S # peers
    /\ peers' = S
    /\ UNCHANGED score

Next == \E S \in PeerLists : loadPeerList(S)

Spec == Init /\ [][Next]_vars
-----------------------------------------------------------------------------
(* The loop finds the highest of all partition scores, ties going to the   *)
(* partition with the smallest hash: nodes with the same list agree on the *)
(* owner, whatever order they met the peers in.                            *)
HashedIsHighest ==
    LET P == Partitions(peers)
        beats(p, q) == \/ score[p] > score[q]
                       \/ score[p] = score[q] /\ UHash[p] <= UHash[q]
        winner == CHOOSE p \in P : \A q \in P : beats(p, q)
    IN  WhichShardHashed(peers) = IF score[winner] = 0 THEN shards(peers)[1] ELSE winner[1]

(* The legacy strategy gives every peer of the list one run of words of    *)
(* the same length, but for the words past the last run, at most as many   *)
(* as there are peers, that wrap around to the first one.                  *)
LegacyEven ==
    \A p \in peers :
        LET n == Cardinality(peers)
            share == Cardinality({w \in 0..MaxWord : WhichShardLegacy(peers, w) = p})
        IN  IF p = shards(peers)[1] THEN share \in (MaxWord \div n)..(MaxWord \div n + n)
                                ELSE share = MaxWord \div n

(* What the two strategies compute is what they are meant to.              *)
SharesAsDefined == HashedIsHighest /\ LegacyEven

(* Between two lists that differ by one peer, the trace moves only to the  *)
(* peer that joined, or away from the one that left.                       *)
MovesWith(joined, fewer, more) ==
    WhichShardHashed(more) \in {joined, WhichShardHashed(fewer)}

(* As long as every peer keeps its number of partitions, and some score is *)
(* not zero, a peer that joins or leaves moves no trace between others.    *)
(* (When the number of peers changes that of partitions, it may.)          *)
StableShares ==
    [][\A x \in AllPeers :
         /\ partitionsPerPeer(peers) = partitionsPerPeer(peers')
         /\ \A p \in AllPartitions : score[p] > 0
         => /\ (x \notin peers /\ peers' = peers \cup {x}) => MovesWith(x, peers, peers')
            /\ (x \notin peers' /\ peers = peers' \cup {x}) => MovesWith(x, peers', peers)]_vars
=============================================================================
