------------------------------ MODULE PeerWatch -----------------------------
(***************************************************************************)
(* How one node learns who its peers are.  The watcher goroutine of        *)
(* internal/peer (redis.go with redimem.go, or file.go) polls for members  *)
(* and starts a callback goroutine for every change it sees; each callback *)
(* runs the sharder's loadPeerList (sharder/deterministic.go), which Start *)
(* also runs while it looks for this node in the list.                     *)
(*                                                                         *)
(* A peer is its place in sorted order, so a sorted list without           *)
(* duplicates is a set.  NoName is the empty string that make([]string, 1) *)
(* leaves in a list that was never filled.                                 *)
(***************************************************************************)
EXTENDS Naturals, FiniteSets

CONSTANTS
    Nodes,          \* all peers: positive numbers
    Self,           \* this node
    Configured,     \* PeerManagement.Peers, for "file"
    Tries,          \* attempts of Start to find itself, 5 in the code
    MaxCalls,       \* bound: callback goroutines at one time
    MaxChanges      \* bound: peers that come and go

ASSUME PeerWatchAssumption ==
    /\ Nodes \subseteq Nat \ {0} /\ IsFiniteSet(Nodes)
    /\ Self \in Nodes /\ Configured \subseteq Nodes /\ Configured # {}
    /\ Tries \in Nat \ {0} /\ MaxCalls \in Nat \ {0} /\ MaxChanges \in Nat

NoName == 0
Lists == SUBSET (Nodes \cup {NoName})

VARIABLES
    peerType,     \* PeerManagement.Type: "redis" or "file"
    members,      \* the keys in redis; for "file", the peers that answer as active
    changes,
    watch,        \* the watcher: "tick", "again" (second scan), "compare", "ended"
    found,        \* currentPeers, so far
    broken,       \* a SCAN of this turn broke off with part of the keys
    peers,        \* p.peers
    oldPeerList,
    first,        \* firstOccurrencesOfGetPeers
    call,         \* loadPeerList calls: 0 is Start's, the others callbacks'
    shards,       \* d.peers, and with it d.hashes
    outdated,     \* history: the sharder was left with an older list than the published one
    start,        \* the sharder's Start: "new", "load", "find", "set", "up", "failed"
    tries,
    selfIndex,    \* the place in the list where Start found itself
    myShard

storeVars == <<peerType, members, changes>>
watchVars == <<watch, found, broken, peers, oldPeerList>>
startVars == <<start, tries, selfIndex, myShard>>
loadVars == <<first, call, shards, outdated>>
vars == <<storeVars, watchVars, loadVars, startVars>>

NoCall == [at |-> "none", list |-> {}]

TypeOK ==
    /\ peerType \in {"redis", "file"} /\ broken \in BOOLEAN
    /\ members \subseteq Nodes /\ changes \in 0..MaxChanges
    /\ watch \in {"tick", "again", "compare", "ended"}
    /\ found \subseteq Nodes
    /\ peers \in Lists /\ oldPeerList \in Lists /\ shards \in Lists
    /\ first \in BOOLEAN /\ outdated \in BOOLEAN
    /\ call \in [0..MaxCalls -> [at : {"none", "get", "compare", "swap"}, list : Lists]]
    /\ start \in {"new", "load", "find", "set", "up", "failed"}
    /\ tries \in 0..Tries
    /\ selfIndex \in 0..Cardinality(Nodes)
    /\ myShard \in Nodes \cup {NoName}

(* newRedisPeers has registered this node and tried to read the list once; *)
(* newFilePeers has done neither, and this node does not answer yet.       *)
Init ==
    /\ peerType \in {"redis", "file"}
    /\ members \in SUBSET Nodes /\ (Self \in members <=> peerType = "redis")
    /\ changes = 0
    /\ watch = "tick" /\ found = {} /\ broken = FALSE
    /\ peers \in {{NoName}} \cup (IF peerType = "redis" THEN SUBSET members ELSE {})
    /\ oldPeerList = IF peerType = "redis" THEN peers ELSE Configured
    /\ first = FALSE
    /\ call = [i \in 0..MaxCalls |-> NoCall]
    /\ shards = {} /\ outdated = FALSE
    /\ start = "new" /\ tries = 0 /\ selfIndex = 0 /\ myShard = NoName

(* A node registers, or its registration ends or expires; for "file", it   *)
(* answers as active or no longer does, and this node only when its peer   *)
(* server runs, which is started after the sharder.                        *)
Change(n) ==
    /\ changes < MaxChanges
    /\ peerType = "file" /\ n = Self => start = "up"
    /\ changes' = changes + 1
    /\ members' = IF n \in members THEN members \ {n} ELSE members \cup {n}
    /\ UNCHANGED <<peerType, watchVars, loadVars, startVars>>

-----------------------------------------------------------------------------
(* getMembersOnce logs an error of the scan and returns the keys it has.   *)
getMembersOnce == SUBSET members

(* The ticker fires, and the first of the RepeatCount scans returns; when  *)
(* redis cannot be reached the watcher goes back to its ticker, unchanged. *)
(* The file watcher does not wait for this node's peer server to listen:   *)
(* grpc.NewClient connects only when it is used, and succeeds at once.     *)
Look ==
    /\ watch = "tick"
    /\ \/ /\ peerType = "redis"
          /\ \E S \in getMembersOnce : found' = S /\ broken' = (S # members)
          /\ watch' = "again"
       \/ /\ peerType = "file"
          /\ found' = members \cap Configured
          /\ watch' = "compare"
          /\ UNCHANGED broken
    /\ UNCHANGED <<storeVars, peers, oldPeerList, loadVars, startVars>>

(* Variant: only what the earlier scan did not return is kept.             *)
LookAgainNew ==
    /\ watch = "again"
    /\ \E S \in getMembersOnce :
          found' = S \ found /\ broken' = (broken \/ S # members)
    /\ watch' = "compare"
    /\ UNCHANGED <<storeVars, peers, oldPeerList, loadVars, startVars>>

(* GetMembers returns the union of the scans.                              *)
LookAgain ==
    /\ watch = "again"
    /\ \E S \in getMembersOnce :
          found' = found \cup S /\ broken' = (broken \/ S # members)
    /\ watch' = "compare"
    /\ UNCHANGED <<storeVars, peers, oldPeerList, loadVars, startVars>>

(* What a turn of the watcher found goes out of scope.                     *)
EndTurn ==
    /\ watch' = "tick" /\ found' = {} /\ broken' = FALSE
    /\ UNCHANGED storeVars

(* A changed list is published, and a goroutine started for the sharder's  *)
(* callback if it is registered by now.                                    *)
Publish(registered) ==
    /\ peers' = found /\ oldPeerList' = found
    /\ IF registered
       THEN /\ outdated' = FALSE
            /\ \E i \in 1..MaxCalls :
                  /\ call[i].at = "none"
                  /\ \A j \in 1..i - 1 : call[j].at # "none"
                  /\ call' = [call EXCEPT ![i] = [at |-> "get", list |-> {}]]
       ELSE UNCHANGED <<call, outdated>>

(* Variant: Start registers the callback when it is done.                  *)
CompareLate ==
    /\ watch = "compare" /\ EndTurn
    /\ \/ found # oldPeerList /\ Publish(start = "up")
       \/ found = oldPeerList /\ UNCHANGED <<peers, oldPeerList, call, outdated>>
    /\ UNCHANGED <<first, shards, startVars>>

(* Start registers it before it loads the list.                            *)
Compare ==
    /\ watch = "compare" /\ EndTurn
    /\ \/ found # oldPeerList /\ Publish(start # "new")
       \/ found = oldPeerList /\ UNCHANGED <<peers, oldPeerList, call, outdated>>
    /\ UNCHANGED <<first, shards, startVars>>

(* The watcher of redis peers empties the list when the process ends.      *)
Done ==
    /\ peerType = "redis" /\ watch = "tick"
    /\ watch' = "ended"
    /\ peers' = {}
    /\ UNCHANGED <<storeVars, found, broken, oldPeerList, loadVars, startVars>>

-----------------------------------------------------------------------------
(* The file peers answer with the configured list once, to whoever asks    *)
(* first.                                                                  *)
GetPeers == IF peerType = "file" /\ ~first THEN Configured ELSE peers

(* Variant: an empty list is loaded like any other.                        *)
LoadGetEmpty(i) ==
    /\ call[i].at = "get"
    /\ first' = TRUE
    /\ call' = [call EXCEPT ![i] = [at |-> "compare", list |-> GetPeers]]
    /\ UNCHANGED <<storeVars, watchVars, shards, outdated, startVars>>

(* A load that has the published list, or has still to read it.            *)
Fresh(i) ==
    \/ call[i].at = "get"
    \/ call[i].at \in {"compare", "swap"} /\ call[i].list = peers

(* loadPeerList, in the parts its locks divide it into: read the list,     *)
(* refusing an empty one; compare it with the one in use; replace that.    *)
LoadGet(i) ==
    /\ call[i].at = "get"
    /\ first' = TRUE
    /\ call' = [call EXCEPT ![i] = IF GetPeers = {} THEN NoCall
                                   ELSE [at |-> "compare", list |-> GetPeers]]
    /\ start' = IF i = 0 /\ GetPeers = {} THEN "failed" ELSE start
    /\ UNCHANGED <<storeVars, watchVars, shards, outdated, tries, selfIndex, myShard>>

LoadCompare(i) ==
    /\ call[i].at = "compare"
    /\ call' = [call EXCEPT ![i] = IF call[i].list = shards THEN NoCall
                                   ELSE [at |-> "swap", list |-> call[i].list]]
    /\ UNCHANGED <<storeVars, watchVars, first, shards, outdated, startVars>>

LoadSwap(i) ==
    /\ call[i].at = "swap"
    /\ shards' = call[i].list
    /\ call' = [call EXCEPT ![i] = NoCall]
    /\ outdated' = (call[i].list # peers /\ \A j \in 0..MaxCalls : ~Fresh(j))
    /\ UNCHANGED <<storeVars, watchVars, first, startVars>>

loadPeerList(i) == LoadGet(i) \/ LoadCompare(i) \/ LoadSwap(i)

-----------------------------------------------------------------------------
Place(n, S) == Cardinality({m \in S : m <= n})

(* Start registers the callback and loads the list for the first time.     *)
StartLoad ==
    /\ start \in {"new", "load"}
    /\ call[0].at = "none"
    /\ start' = "find"
    /\ call' = [call EXCEPT ![0] = [at |-> "get", list |-> {}]]
    /\ UNCHANGED <<storeVars, watchVars, first, shards, outdated, tries, selfIndex, myShard>>

LastTry(n) == n = Tries

(* It fails if there is no list or a peer without a name in it (which does *)
(* not resolve), and tries again, 5 seconds later, if it is not in it.     *)
StartFind ==
    /\ start = "find" /\ call[0].at = "none"
    /\ \/ /\ shards = {} \/ NoName \in shards
          /\ start' = "failed"
          /\ UNCHANGED <<tries, selfIndex>>
       \/ /\ shards # {} /\ NoName \notin shards
          /\ Self \in shards
          /\ start' = "set" /\ selfIndex' = Place(Self, shards)
          /\ UNCHANGED tries
       \/ /\ shards # {} /\ NoName \notin shards
          /\ Self \notin shards
          /\ tries' = tries + 1
          /\ start' = IF LastTry(tries') THEN "failed" ELSE "load"
          /\ UNCHANGED selfIndex
    /\ UNCHANGED <<storeVars, watchVars, loadVars, myShard>>

(* d.myShard = d.peers[selfIndexIntoPeerList] reads d.peers once more; the *)
(* process panics when the index is past its end.  The locals of Start go  *)
(* out of scope.                                                           *)
StartSet ==
    /\ start = "set"
    /\ tries' = 0 /\ selfIndex' = 0
    /\ IF selfIndex > Cardinality(shards)
       THEN start' = "failed" /\ UNCHANGED myShard
       ELSE start' = "up" /\ myShard' = CHOOSE n \in shards : Place(n, shards) = selfIndex
    /\ UNCHANGED <<storeVars, watchVars, loadVars>>

(* A Start that fails ends the process.                                    *)
Alive == start # "failed"

Next ==
    /\ Alive
    /\ \/ \E n \in Nodes : Change(n)
       \/ Look \/ LookAgain \/ Compare \/ Done
       \/ \E i \in 0..MaxCalls : loadPeerList(i)
       \/ StartLoad \/ StartFind \/ StartSet

Spec == Init /\ [][Next]_vars

(* The watcher, the callbacks and Start are goroutines; the process is not *)
(* told to end.                                                            *)
Fairness ==
    /\ WF_vars(Alive /\ (Look \/ LookAgain \/ Compare))
    /\ \A i \in 0..MaxCalls : WF_vars(Alive /\ loadPeerList(i))
    /\ WF_vars(StartLoad) /\ WF_vars(StartFind) /\ WF_vars(StartSet)

FairSpec == Spec /\ Fairness
-----------------------------------------------------------------------------
(* A node that is up always has a peer list to choose an owner from: the   *)
(* empty list of a store that lost every key, or of a watcher that ended,  *)
(* is not loaded (WhichShard would divide by its length).                  *)
NeverWithoutPeers ==
    start = "up" => shards # {}

(* When no load of a list is under way the sharder has the published one,  *)
(* although callbacks run in goroutines of their own beside Start and      *)
(* loadPeerList compares and swaps under different locks.  The exception   *)
(* is outdated: a load that was overtaken by a newer one, or was given the *)
(* configured list by the first GetPeers, was the last to swap.            *)
SharderCurrent ==
    /\ start \in {"set", "up"} /\ \A i \in 0..MaxCalls : call[i].at = "none"
    /\ peers \notin {{}, {NoName}} /\ ~outdated
    => shards = peers

(* The peers to be found: registered in redis, or configured and active.   *)
Known(S) == IF peerType = "file" THEN S \cap Configured ELSE S

(* The sharder of a node that is up comes to use exactly the members, and  *)
(* stays with them.                                                        *)
Follows ==
    \/ start # "up" \/ watch = "ended"
    \/ Known(members) = {} \/ shards = Known(members)

(* Once membership no longer changes and scans are complete, the sharder   *)
(* follows it, unless it was left with an outdated list.                   *)
SharderFollows ==
    <>[]~broken => <>[](Follows \/ outdated)

(* The same without the exception: a callback is triggered whenever the    *)
(* list changes.                                                           *)
AlwaysFollows ==
    <>[]~broken => <>[]Follows
=============================================================================
