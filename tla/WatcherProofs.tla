------------------------------ MODULE WatcherProofs -------------------------
(***************************************************************************)
(* Proofs about the goroutines that watch something in the background: the *)
(* watcher of the peers, the watchers of the two configuration files, and  *)
(* the monitor of the cuckoo filters.  They hold for any set of nodes,     *)
(* consumers, edits, filter sizes and numbers of callbacks and resizes.    *)
(***************************************************************************)
EXTENDS PeerWatch, FileConfig, CuckooChecker, FiniteSetTheorems, TLAPS

-----------------------------------------------------------------------------
(* How a node learns its peers.                                            *)

(* The inductive invariant.  A load that is past its test of an empty list *)
(* has one to put in the place of the sharder's; a Start that has found    *)
(* this node has a list it is in.                                          *)
ListsOK ==
    /\ members \subseteq Nodes /\ found \subseteq Nodes
    /\ peers \in Lists /\ shards \in Lists
    /\ call \in [0..MaxCalls -> [at : {"none", "get", "compare", "swap"}, list : Lists]]

LoadsFilled ==
    /\ \A i \in 0..MaxCalls : call[i].at \in {"compare", "swap"} => call[i].list # {}
    /\ start \in {"set", "up"} => shards # {}

(* Before the first read of a list nothing has been loaded.                *)
Unread == ~first => shards = {} /\ \A i \in 0..MaxCalls : call[i].at \in {"none", "get"}

(* A load that will put its list in the place of the sharder's.            *)
Replacing(i) ==
    \/ call[i].at = "swap"
    \/ call[i].at = "compare" /\ call[i].list # shards

(* A published list is the sharder's, or a load is still to put it there   *)
(* or to leave the sharder with an outdated one.                           *)
ListComing ==
    \/ start = "new" \/ peers \in {{}, {NoName}} \/ outdated
    \/ shards = peers
    \/ \E i \in 0..MaxCalls : Fresh(i) \/ Replacing(i)

PeerInv == ListsOK /\ LoadsFilled /\ Unread /\ ListComing

(* What the steps of the watcher, of Start and of membership leave alone   *)
(* in the loads.                                                           *)
Aside == UNCHANGED <<first, call, shards, outdated>>

(* The watcher starts with the lists of the configuration or of redis.     *)
LEMMA PeerInit == Init => PeerInv
<1> SUFFICES ASSUME Init PROVE PeerInv
    OBVIOUS
<1>1. ListsOK
  <2>1. NoCall \in [at : {"none", "get", "compare", "swap"}, list : Lists]
    BY DEF NoCall, Lists
  <2>2. members \subseteq Nodes /\ peers \in Lists /\ shards \in Lists /\ found = {}
    BY DEF Init, Lists
  <2>3. call \in [0..MaxCalls -> [at : {"none", "get", "compare", "swap"}, list : Lists]]
    BY <2>1 DEF Init
  <2> QED
    BY <2>2, <2>3 DEF ListsOK
<1>2. LoadsFilled /\ Unread
    BY DEF Init, LoadsFilled, Unread, NoCall
<1>3. ListComing
    BY Zenon DEF Init, ListComing
<1> QED
    BY <1>1, <1>2, <1>3 DEF PeerInv

(* A step that does not touch the loads, nor what is published, and leaves *)
(* Start where it has registered its callback.                             *)
LEMMA AsideKeeps ==
    ASSUME PeerInv, Aside, peers' = peers,
           members' \subseteq Nodes, found' \subseteq Nodes,
           start' = start \/ (start \notin {"new", "set", "up"} /\ (start' = "set" => shards # {}))
                         \/ (start = "set" /\ start' # "new"),
           start' = "up" => start \in {"set", "up"}
    PROVE  PeerInv'
<1>1. UNCHANGED <<first, call, shards, outdated, peers>>
    BY DEF Aside
<1>2. ListsOK'
    BY <1>1 DEF PeerInv, ListsOK
<1>3. LoadsFilled' /\ Unread'
    BY <1>1 DEF PeerInv, LoadsFilled, Unread
<1>4. ListComing'
    BY <1>1 DEF PeerInv, ListComing, Fresh, Replacing
<1> QED
    BY <1>2, <1>3, <1>4 DEF PeerInv

(* Membership changes under the watcher.                                   *)
LEMMA ChangeKeeps ==
    ASSUME PeerInv, NEW n \in Nodes, Change(n)
    PROVE  PeerInv'
<1>1. members' \subseteq Nodes
    BY DEF Change, PeerInv, ListsOK
<1>2. Aside /\ peers' = peers /\ start' = start /\ found' = found
    BY DEF Change, Aside, watchVars, loadVars, startVars
<1>3. found \subseteq Nodes
    BY DEF PeerInv, ListsOK
<1> QED
    BY <1>1, <1>2, <1>3, AsideKeeps

(* A callback that has been started will read the published list.          *)
LEMMA CalledKeeps ==
    ASSUME PeerInv, NEW i \in 0..MaxCalls, call[i].at = "none",
           call' = [call EXCEPT ![i] = [at |-> "get", list |-> {}]],
           UNCHANGED <<first, shards>>, members' \subseteq Nodes, found' \subseteq Nodes,
           peers' \in Lists, start' \in {"set", "up"} => start \in {"set", "up"}
    PROVE  PeerInv'
<1> DEFINE T == [at : {"none", "get", "compare", "swap"}, list : Lists]
<1>1. [at |-> "get", list |-> {}] \in T
    BY DEF Lists
<1>2. call \in [0..MaxCalls -> T] /\ shards \in Lists
    BY DEF PeerInv, ListsOK
<1>3. call' \in [0..MaxCalls -> T]
    BY Zenon, <1>1, <1>2
<1>4. ListsOK'
    BY Zenon, <1>2, <1>3 DEF ListsOK
<1>5. /\ call'[i] = [at |-> "get", list |-> {}]
      /\ \A j \in 0..MaxCalls : j # i => call'[j] = call[j]
    BY Zenon, <1>2
<1>6. LoadsFilled' /\ Unread'
    BY <1>5 DEF PeerInv, LoadsFilled, Unread
<1>7. Fresh(i)'
    BY <1>5 DEF Fresh
<1>8. ListComing'
    BY Zenon, <1>7 DEF ListComing
<1> QED
    BY <1>4, <1>6, <1>8 DEF PeerInv

(* The steps of the watcher.                                               *)
LEMMA WatchKeeps ==
    ASSUME PeerInv, Look \/ LookAgain \/ Compare \/ Done
    PROVE  PeerInv'
<1>1. members' = members /\ start' = start /\ members \subseteq Nodes /\ found \subseteq Nodes
    BY DEF Look, LookAgain, Compare, Done, EndTurn, storeVars, startVars, PeerInv, ListsOK
<1>2. found' \subseteq Nodes
    BY Zenon, <1>1 DEF Look, LookAgain, Compare, Done, EndTurn, getMembersOnce
<1>3. CASE Look \/ LookAgain
  <2>1. Aside /\ peers' = peers
    BY <1>3 DEF Look, LookAgain, Aside, loadVars
  <2> QED
    BY <1>1, <1>2, <2>1, AsideKeeps
<1>4. CASE Compare
  <2>1. CASE UNCHANGED <<peers, oldPeerList, call, outdated>>
    <3>1. Aside /\ peers' = peers
      BY <1>4, <2>1 DEF Compare, Aside
    <3> QED
      BY <1>1, <1>2, <3>1, AsideKeeps
  <2>2. CASE Publish(start # "new")
    <3>1. peers' = found /\ UNCHANGED <<first, shards>> /\ peers' \in Lists
      BY <1>1, <1>4, <2>2 DEF Publish, Compare, Lists
    <3>2. CASE start # "new"
      <4>1. PICK i \in 1..MaxCalls : /\ call[i].at = "none"
                                     /\ call' = [call EXCEPT ![i] = [at |-> "get", list |-> {}]]
        BY Zenon, <2>2, <3>2 DEF Publish
      <4>2. i \in 0..MaxCalls
        BY PeerWatchAssumption
      <4> QED
        BY Zenon, <1>1, <1>2, <3>1, <4>1, <4>2, CalledKeeps
    <3>3. CASE start = "new"
      <4>1. UNCHANGED <<first, call, shards, outdated>>
        BY <2>2, <3>1, <3>3 DEF Publish
      <4>2. ListsOK'
        BY <1>1, <1>2, <3>1, <4>1 DEF PeerInv, ListsOK
      <4>3. LoadsFilled' /\ Unread'
        BY <1>1, <4>1 DEF PeerInv, LoadsFilled, Unread
      <4>4. ListComing'
        BY <1>1, <3>3 DEF ListComing
      <4> QED
        BY <4>2, <4>3, <4>4 DEF PeerInv
    <3> QED
      BY <3>2, <3>3
  <2> QED
    BY Zenon, <1>4, <2>1, <2>2 DEF Compare
<1>5. CASE Done
  <2>1. Aside /\ peers' = {}
    BY <1>5 DEF Done, Aside, loadVars
  <2>2. ListsOK'
    BY <1>1, <1>2, <2>1 DEF PeerInv, ListsOK, Aside, Lists
  <2>3. LoadsFilled' /\ Unread'
    BY <1>1, <2>1 DEF PeerInv, LoadsFilled, Unread, Aside
  <2>4. ListComing'
    BY <2>1 DEF ListComing
  <2> QED
    BY <2>2, <2>3, <2>4 DEF PeerInv
<1> QED
    BY <1>3, <1>4, <1>5

(* What a part of loadPeerList does to the load itself.                    *)
LEMMA LoadTyped ==
    ASSUME PeerInv, NEW i \in 0..MaxCalls, loadPeerList(i)
    PROVE  /\ \E r \in [at : {"none", "get", "compare", "swap"}, list : Lists] :
                 /\ call' = [call EXCEPT ![i] = r]
                 /\ r.at \in {"compare", "swap"} => r.list # {}
           /\ call[i].at # "none"
<1> DEFINE T == [at : {"none", "get", "compare", "swap"}, list : Lists]
<1>1. call[i] \in T /\ call[i].list \in Lists /\ peers \in Lists
    BY DEF PeerInv, ListsOK
<1>2. GetPeers \in Lists
    BY <1>1, PeerWatchAssumption DEF GetPeers, Lists
<1>3. NoCall \in T /\ NoCall.at = "none"
    BY DEF NoCall, Lists
<1>4. CASE LoadGet(i)
  <2>1. [at |-> "compare", list |-> GetPeers] \in T
    BY <1>2
  <2> QED
    BY Zenon, <1>3, <1>4, <2>1 DEF LoadGet
<1>5. CASE LoadCompare(i)
  <2>1. [at |-> "swap", list |-> call[i].list] \in T
    BY <1>1
  <2>2. call[i].list # {}
    BY <1>5 DEF LoadCompare, PeerInv, LoadsFilled
  <2> QED
    BY Zenon, <1>3, <1>5, <2>1, <2>2 DEF LoadCompare
<1>6. CASE LoadSwap(i)
    BY Zenon, <1>3, <1>6 DEF LoadSwap
<1> QED
    BY <1>4, <1>5, <1>6 DEF loadPeerList

(* The first part of a load reads the published list, or the configured    *)
(* one before anything was loaded.                                         *)
LEMMA LoadGetComing ==
    ASSUME PeerInv, NEW i \in 0..MaxCalls, LoadGet(i)
    PROVE  ListComing'
<1>1. /\ call[i].at = "get" /\ UNCHANGED <<shards, peers, outdated>>
      /\ call' = [call EXCEPT ![i] = IF GetPeers = {} THEN NoCall
                                     ELSE [at |-> "compare", list |-> GetPeers]]
    BY DEF LoadGet, watchVars
<1>2. call \in [0..MaxCalls -> [at : {"none", "get", "compare", "swap"}, list : Lists]]
    BY DEF PeerInv, ListsOK
<1>3. CASE GetPeers = {}
  <2>1. GetPeers = peers
    BY Zenon, <1>3, PeerWatchAssumption DEF GetPeers
  <2> QED
    BY <1>1, <1>3, <2>1 DEF ListComing
<1>4. CASE GetPeers # {}
  <2>1. call'[i] = [at |-> "compare", list |-> GetPeers]
    BY Zenon, <1>1, <1>2, <1>4
  <2>2. call'[i].at = "compare" /\ call'[i].list = GetPeers
    BY <2>1
  <2>3. CASE GetPeers = peers
    <3>1. Fresh(i)'
      BY <1>1, <2>2, <2>3 DEF Fresh
    <3> QED
      BY Zenon, <3>1 DEF ListComing
  <2>4. CASE GetPeers # peers
    <3>1. ~first
      BY <2>4 DEF GetPeers
    <3>2. shards = {}
      BY <3>1 DEF PeerInv, Unread
    <3>3. Replacing(i)'
      BY <1>1, <1>4, <2>2, <3>2 DEF Replacing
    <3> QED
      BY Zenon, <3>3 DEF ListComing
  <2> QED
    BY <2>3, <2>4
<1> QED
    BY <1>3, <1>4

(* The comparison ends a load only if the sharder has its list already.    *)
LEMMA LoadCompareComing ==
    ASSUME PeerInv, NEW i \in 0..MaxCalls, LoadCompare(i)
    PROVE  ListComing'
<1>1. /\ call[i].at = "compare" /\ UNCHANGED <<shards, peers, outdated, start>>
      /\ call' = [call EXCEPT ![i] = IF call[i].list = shards THEN NoCall
                                     ELSE [at |-> "swap", list |-> call[i].list]]
    BY DEF LoadCompare, watchVars, startVars
<1>2. call \in [0..MaxCalls -> [at : {"none", "get", "compare", "swap"}, list : Lists]]
    BY DEF PeerInv, ListsOK
<1>3. \A j \in 0..MaxCalls : j # i => call'[j] = call[j]
    BY Zenon, <1>1, <1>2
<1>4. CASE call[i].list # shards
  <2>1. call'[i] = [at |-> "swap", list |-> call[i].list]
    BY Zenon, <1>1, <1>2, <1>4
  <2>2. Replacing(i)'
    BY <2>1 DEF Replacing
  <2> QED
    BY Zenon, <2>2 DEF ListComing
<1>5. CASE call[i].list = shards
  <2>1. CASE start = "new" \/ peers \in {{}, {NoName}} \/ outdated \/ shards = peers
    BY <1>1, <2>1 DEF ListComing
  <2>2. ASSUME NEW j \in 0..MaxCalls, Fresh(j) \/ Replacing(j), shards # peers
        PROVE  ListComing'
    <3>1. j # i
      BY <1>1, <1>5, <2>2 DEF Fresh, Replacing
    <3>2. call'[j] = call[j]
      BY <1>3, <3>1
    <3>3. (Fresh(j) \/ Replacing(j))'
      BY <1>1, <2>2, <3>2 DEF Fresh, Replacing
    <3> QED
      BY Zenon, <3>3 DEF ListComing
  <2> QED
    BY Zenon, <2>1, <2>2 DEF PeerInv, ListComing
<1> QED
    BY <1>4, <1>5

(* A swap puts the published list in place, or one that a fresh load will  *)
(* replace, or leaves an outdated one.                                     *)
LEMMA LoadSwapComing ==
    ASSUME PeerInv, NEW i \in 0..MaxCalls, LoadSwap(i)
    PROVE  ListComing'
<1>1. /\ call[i].at = "swap" /\ peers' = peers /\ shards' = call[i].list
      /\ outdated' = (call[i].list # peers /\ \A j \in 0..MaxCalls : ~Fresh(j))
      /\ call' = [call EXCEPT ![i] = NoCall]
    BY Zenon DEF LoadSwap, watchVars
<1>2. call \in [0..MaxCalls -> [at : {"none", "get", "compare", "swap"}, list : Lists]]
    BY DEF PeerInv, ListsOK
<1>3. \A j \in 0..MaxCalls : j # i => call'[j] = call[j]
    BY Zenon, <1>1, <1>2
<1>4. CASE call[i].list = peers
    BY <1>1, <1>4 DEF ListComing
<1>5. ASSUME call[i].list # peers, NEW j \in 0..MaxCalls, Fresh(j) PROVE ListComing'
  <2>1. j # i
    BY <1>1, <1>5 DEF Fresh
  <2>2. call'[j] = call[j]
    BY <1>3, <2>1
  <2>3. Fresh(j)'
    BY <1>1, <1>5, <2>2 DEF Fresh
  <2> QED
    BY Zenon, <2>3 DEF ListComing
<1>6. CASE call[i].list # peers /\ \A j \in 0..MaxCalls : ~Fresh(j)
    BY Zenon, <1>1, <1>6 DEF ListComing
<1> QED
    BY Zenon, <1>4, <1>5, <1>6

(* loadPeerList: what a load holds after its first part is a list that is  *)
(* not empty, and no other list becomes the sharder's.                     *)
LEMMA LoadKeeps ==
    ASSUME PeerInv, NEW i \in 0..MaxCalls, loadPeerList(i)
    PROVE  PeerInv'
<1> DEFINE T == [at : {"none", "get", "compare", "swap"}, list : Lists]
<1>1. call \in [0..MaxCalls -> T] /\ shards \in Lists /\ call[i].list \in Lists
    BY DEF PeerInv, ListsOK
<1>2. PICK r \in T : /\ call' = [call EXCEPT ![i] = r]
                     /\ r.at \in {"compare", "swap"} => r.list # {}
    BY Zenon, LoadTyped
<1>3. UNCHANGED <<members, found, peers>>
    BY DEF loadPeerList, LoadGet, LoadCompare, LoadSwap, storeVars, watchVars
<1>4. shards' = shards \/ (shards' \in Lists /\ shards' # {})
    BY <1>1 DEF loadPeerList, LoadGet, LoadCompare, LoadSwap, PeerInv, LoadsFilled
<1>5. start' = start \/ start' = "failed"
    BY DEF loadPeerList, LoadGet, LoadCompare, LoadSwap, startVars
<1>6. ListsOK'
    BY <1>1, <1>2, <1>3, <1>4 DEF ListsOK, PeerInv
<1>7. LoadsFilled'
  <2>1. \A j \in 0..MaxCalls : call'[j].at \in {"compare", "swap"} => call'[j].list # {}
    BY <1>1, <1>2 DEF PeerInv, LoadsFilled
  <2> QED
    BY <1>4, <1>5, <2>1 DEF LoadsFilled, PeerInv
<1>8. Unread'
  <2>1. first'
    BY DEF loadPeerList, LoadGet, LoadCompare, LoadSwap, PeerInv, Unread
  <2> QED
    BY <2>1 DEF Unread
<1>9. ListComing'
    BY Zenon, LoadGetComing, LoadCompareComing, LoadSwapComing DEF loadPeerList
<1> QED
    BY <1>6, <1>7, <1>8, <1>9 DEF PeerInv

(* The sharder's Start goes on only with a list that is not empty.         *)
LEMMA StartKeeps ==
    ASSUME PeerInv, StartLoad \/ StartFind \/ StartSet
    PROVE  PeerInv'
<1>1. UNCHANGED <<members, found, peers, first, shards, outdated>>
    BY DEF StartLoad, StartFind, StartSet, storeVars, watchVars, loadVars
<1>2. members \subseteq Nodes /\ found \subseteq Nodes /\ peers \in Lists
    BY DEF PeerInv, ListsOK
<1>3. CASE StartLoad
  <2>1. /\ call[0].at = "none" /\ start' = "find"
        /\ call' = [call EXCEPT ![0] = [at |-> "get", list |-> {}]]
    BY <1>3 DEF StartLoad
  <2>2. 0 \in 0..MaxCalls
    BY PeerWatchAssumption
  <2> QED
    BY Zenon, <1>1, <1>2, <2>1, <2>2, CalledKeeps
<1>4. CASE StartFind \/ StartSet
  <2>1. call' = call
    BY <1>4 DEF StartFind, StartSet, loadVars
  <2>2. Aside
    BY <1>1, <2>1 DEF Aside
  <2>3. start' = "set" => shards # {}
    BY <1>4 DEF StartFind, StartSet
  <2>4. /\ start = "find" \/ (start = "set" /\ start' # "new")
        /\ start' = "up" => start = "set"
    BY <1>4 DEF StartFind, StartSet
  <2> QED
    BY <1>1, <1>2, <2>2, <2>3, <2>4, AsideKeeps
<1> QED
    BY <1>3, <1>4

(* Every step keeps the lists of the watcher, the loads and the sharder    *)
(* in order.                                                               *)
LEMMA PeerStep == PeerInv /\ [Next]_vars => PeerInv'
<1> SUFFICES ASSUME PeerInv, [Next]_vars PROVE PeerInv'
    OBVIOUS
<1>1. CASE UNCHANGED vars
  <2>1. Aside /\ UNCHANGED <<members, found, peers, start>>
    BY <1>1 DEF vars, storeVars, watchVars, loadVars, startVars, Aside
  <2>2. members \subseteq Nodes /\ found \subseteq Nodes
    BY DEF PeerInv, ListsOK
  <2> QED
    BY <2>1, <2>2, AsideKeeps
<1>2. CASE Next
    BY <1>2, ChangeKeeps, WatchKeeps, LoadKeeps, StartKeeps DEF Next
<1> QED
    BY <1>1, <1>2

(* A node that is up always has a peer to choose an owner from, however    *)
(* members come and go, scans fail and loads overlap: loadPeerList keeps   *)
(* the old list rather than an empty one.                                  *)
THEOREM PeersAlwaysThere == Spec => []NeverWithoutPeers
<1>1. PeerInv => NeverWithoutPeers
    BY DEF PeerInv, LoadsFilled, NeverWithoutPeers
<1> QED
    BY PeerInit, PeerStep, <1>1, PTL DEF Spec

(* For any number of callbacks that overlap each other and Start: when all *)
(* are done the sharder has the published list, unless the last to swap    *)
(* had been overtaken, or had the configured list.                         *)
THEOREM PublishedIsLoaded == Spec => []SharderCurrent
<1>1. PeerInv => SharderCurrent
    BY DEF PeerInv, ListComing, Fresh, Replacing, SharderCurrent
<1> QED
    BY PeerInit, PeerStep, <1>1, PTL DEF Spec

-----------------------------------------------------------------------------
(* The watchers of the two configuration files: every consumer of the      *)
(* configuration has looked at the settings in use once both are done.     *)

(* Before the last registration nothing has changed, unless some edit was  *)
(* early, so an onChange that is running finds every consumer registered.  *)
Prepared ==
    \/ callbacks = Consumers
    \/ \A f \in Files : pc[f] = "watch" /\ events[f] = 0

(* A consumer that has not looked at conf yet still has a call coming.     *)
CallComing(c) ==
    \E f \in Files : pc[f] = "notify" \/ (pc[f] = "call" /\ c \in todo[f])

Informed ==
    \A c \in Consumers : seen[c] = conf \/ CallComing(c)

ConfigInv ==
    ConfigTypeOK /\ (~early => Prepared /\ Informed)

(* The configuration that NewConfig returns satisfies the invariant.       *)
LEMMA ConfigInvInit == ConfigInit => ConfigInv
  <1> SUFFICES ASSUME ConfigInit PROVE ConfigInv
    OBVIOUS
  <1>e. edits = 0 /\ early = FALSE
    BY DEF ConfigInit
  <1>0. early \in BOOLEAN
    BY Zenon, <1>e
  <1>1. ConfigTypeOK
    BY <1>0, <1>e, ContentsAssumption DEF ConfigInit, ConfigTypeOK, Both
  <1>2. Prepared /\ Informed
    BY ZenonT(40), SMT DEF ConfigInit, Prepared, Informed
  <1> QED
    BY <1>1, <1>2 DEF ConfigInv

(* Every step of a watcher, a consumer or an editor preserves the types.   *)
LEMMA ConfigTypeStep == ConfigTypeOK /\ [ConfigNext]_configVars => ConfigTypeOK'
  <1> SUFFICES ASSUME ConfigTypeOK, [ConfigNext]_configVars PROVE ConfigTypeOK'
    BY Zenon
  <1> USE DEF ConfigTypeOK, Both
  <1>1. ASSUME NEW f \in Files, NEW x \in Contents, Edit(f, x) PROVE ConfigTypeOK'
    BY SMT, Z3, <1>1, ContentsAssumption DEF Edit
  <1>2. ASSUME NEW c \in Consumers, ReadAtStart(c) PROVE ConfigTypeOK'
    BY Zenon, <1>2 DEF ReadAtStart
  <1>3. ASSUME NEW c \in Consumers, RegisterReloadCallback(c) PROVE ConfigTypeOK'
    BY Zenon, <1>3 DEF RegisterReloadCallback
  <1>4. ASSUME NEW f \in Files, ReadInConfig(f) PROVE ConfigTypeOK'
    BY SMT, Z3, <1>4 DEF ReadInConfig
  <1>5. ASSUME NEW f \in Files, validate(f) PROVE ConfigTypeOK'
    BY Zenon, <1>5 DEF validate
  <1>6. ASSUME NEW f \in Files, unmarshal(f) PROVE ConfigTypeOK'
    BY Zenon, <1>6 DEF unmarshal, Files
  <1>7. ASSUME NEW f \in Files, RangeCallbacks(f) PROVE ConfigTypeOK'
    BY Zenon, <1>7 DEF RangeCallbacks
  <1>8. ASSUME NEW f \in Files, Callback(f) PROVE ConfigTypeOK'
    BY <1>8 DEF Callback
  <1>9. ASSUME NEW f \in Files, EndOnChange(f) PROVE ConfigTypeOK'
    BY <1>9 DEF EndOnChange
  <1>10. CASE UNCHANGED configVars
    BY ZenonT(40), SMT, <1>10 DEF configVars
  <1> QED
    BY Zenon, <1>1, <1>2, <1>3, <1>4, <1>5, <1>6, <1>7, <1>8, <1>9, <1>10
    DEF ConfigNext, onChange

(* Once an edit was early it stays so.                                     *)
LEMMA EarlyStays == ConfigTypeOK /\ ~early' /\ [ConfigNext]_configVars => ~early
  <1> SUFFICES ASSUME ConfigTypeOK, ~early', [ConfigNext]_configVars PROVE ~early
    OBVIOUS
  <1>1. ASSUME NEW f \in Files, NEW x \in Contents, Edit(f, x) PROVE ~early
    BY Zenon, <1>1 DEF Edit
  <1>2. CASE early' = early
    BY <1>2
  <1> QED
    BY <1>1, <1>2 DEF ConfigNext, onChange, ReadAtStart, RegisterReloadCallback, ReadInConfig,
       validate, unmarshal, RangeCallbacks, Callback, EndOnChange, configVars

(* An onChange only runs, and an event only waits, once every consumer is  *)
(* registered.                                                             *)
LEMMA PreparedStep == ConfigTypeOK /\ ~early' /\ Prepared /\ [ConfigNext]_configVars => Prepared'
  <1> SUFFICES ASSUME ConfigTypeOK, ~early', Prepared, [ConfigNext]_configVars
               PROVE  Prepared'
    OBVIOUS
  <1> USE DEF Prepared
  <1>1. ASSUME NEW f \in Files, NEW x \in Contents, Edit(f, x) PROVE Prepared'
    BY ZenonT(40), SMT, <1>1 DEF Edit
  <1>2. ASSUME NEW c \in Consumers, ReadAtStart(c) PROVE Prepared'
    BY <1>2 DEF ReadAtStart
  <1>3. ASSUME NEW c \in Consumers, RegisterReloadCallback(c) PROVE Prepared'
    BY <1>3 DEF RegisterReloadCallback, ConfigTypeOK
  <1>4. ASSUME NEW f \in Files, ReadInConfig(f) PROVE Prepared'
    BY SMT, Z3, <1>4 DEF ReadInConfig
  <1>5. ASSUME NEW f \in Files, onChange(f) PROVE Prepared'
    BY Zenon, <1>5 DEF onChange, validate, unmarshal, RangeCallbacks, Callback, EndOnChange
  <1>6. CASE UNCHANGED configVars
    BY <1>6 DEF configVars
  <1> QED
    BY Zenon, <1>1, <1>2, <1>3, <1>4, <1>5, <1>6 DEF ConfigNext

(* A step that changes conf leaves a call coming for every consumer, and a *)
(* call that has been made has shown the consumer the conf in use.         *)
LEMMA InformedStep == ConfigTypeOK /\ Prepared /\ Informed /\ [ConfigNext]_configVars => Informed'
  <1> SUFFICES ASSUME ConfigTypeOK, Prepared, Informed, [ConfigNext]_configVars,
                      NEW c \in Consumers
               PROVE  (seen[c] = conf)' \/ CallComing(c)'
    BY DEF Informed
  <1>0. seen[c] = conf \/ CallComing(c)
    BY DEF Informed
  <1> USE DEF CallComing, ConfigTypeOK
  <1>1. ASSUME NEW f \in Files, NEW x \in Contents, Edit(f, x)
        PROVE  (seen[c] = conf)' \/ CallComing(c)'
    BY <1>0, <1>1 DEF Edit
  <1>2. ASSUME NEW d \in Consumers, ReadAtStart(d)
        PROVE  (seen[c] = conf)' \/ CallComing(c)'
    BY <1>0, <1>2 DEF ReadAtStart
  <1>3. ASSUME NEW d \in Consumers, RegisterReloadCallback(d)
        PROVE  (seen[c] = conf)' \/ CallComing(c)'
    BY <1>0, <1>3 DEF RegisterReloadCallback
  <1>4. ASSUME NEW f \in Files, ReadInConfig(f)
        PROVE  (seen[c] = conf)' \/ CallComing(c)'
    BY <1>0, <1>4 DEF ReadInConfig
  <1>5. ASSUME NEW f \in Files, validate(f)
        PROVE  (seen[c] = conf)' \/ CallComing(c)'
    BY <1>0, <1>5 DEF validate
  <1>6. ASSUME NEW f \in Files, unmarshal(f)
        PROVE  (seen[c] = conf)' \/ CallComing(c)'
    BY <1>6 DEF unmarshal
  <1>7. ASSUME NEW f \in Files, RangeCallbacks(f)
        PROVE  (seen[c] = conf)' \/ CallComing(c)'
    <2>1. callbacks = Consumers
      BY Zenon, <1>7 DEF RangeCallbacks, Prepared
    <2> QED
      BY <1>7, <2>1 DEF RangeCallbacks
  <1>8. ASSUME NEW f \in Files, Callback(f)
        PROVE  (seen[c] = conf)' \/ CallComing(c)'
    <2>1. PICK d \in todo[f] : /\ todo' = [todo EXCEPT ![f] = @ \ {d}]
                               /\ seen' = [seen EXCEPT ![d] = conf]
      BY Zenon, <1>8 DEF Callback
    <2>2. conf' = conf /\ pc' = pc
      BY <1>8 DEF Callback
    <2>3. CASE c = d
      BY <2>1, <2>2, <2>3
    <2>4. CASE c # d
      BY <1>0, <2>1, <2>2, <2>4
    <2> QED
      BY <2>3, <2>4
  <1>9. ASSUME NEW f \in Files, EndOnChange(f)
        PROVE  (seen[c] = conf)' \/ CallComing(c)'
    BY <1>0, <1>9 DEF EndOnChange
  <1>10. CASE UNCHANGED configVars
    BY <1>0, <1>10 DEF configVars
  <1> QED
    BY ZenonT(40), SMT, <1>1, <1>2, <1>3, <1>4, <1>5, <1>6, <1>7, <1>8, <1>9, <1>10
    DEF ConfigNext, onChange

(* The types and the two facts about announcements hold in every state the *)
(* configuration reaches.                                                  *)
THEOREM ConfigInvariance == ConfigSpec => []ConfigInv
  <1>1. ConfigInv /\ [ConfigNext]_configVars => ConfigInv'
    BY ConfigTypeStep, PreparedStep, InformedStep, EarlyStays DEF ConfigInv
  <1> QED
    BY ConfigInvInit, <1>1, PTL DEF ConfigSpec

(* For any number of consumers and edits: if the files stay as they are    *)
(* until every consumer has registered, then whenever both watchers are    *)
(* idle every consumer has looked at the settings in use.                  *)
THEOREM ConsumersInformed == ConfigSpec => []ConsumersCurrent
  <1>1. ConfigInv => ConsumersCurrent
    BY DEF ConfigInv, Informed, CallComing, ConsumersCurrent, Quiet
  <1> QED
    BY ConfigInvariance, <1>1, PTL

-----------------------------------------------------------------------------
(* The two cuckoo filters and their monitor.  The invariant says that only *)
(* the latest monitor runs, so that nobody cycles the filters between its  *)
(* reading of the load factor and its own cycling.                         *)

(* A filter holds additions that were made, and the run of the latest ones *)
(* unless it has overflowed.                                               *)
HeldIn(f) == f.els \subseteq 1..adds
RunOf(f) == Cardinality(f.els) < f.size => f.els = (adds - Cardinality(f.els) + 1)..adds

(* The monitor that runs is the one the last Resize started, and a Resize  *)
(* under way has a number left to start the next.                          *)
Latest ==
    /\ \A m \in Monitors : monitor[m] \notin {"none", "done"} => m = resizes
    /\ resizing => resizes < MaxResizes

(* What Maintain has read still holds where it relies on it.               *)
Loaded ==
    \A m \in Monitors :
        /\ monitor[m] = "grow" /\ load = "full" => LoadFactor(current) = "full"
        /\ monitor[m] = "cycle" => LoadFactor(current) = "full" /\ future.size > 0

FilterInv ==
    /\ FilterTypeOK /\ HeldIn(current) /\ HeldIn(future) /\ (future = Nil \/ future.size > 0)
    /\ RunOf(current) /\ RunOf(future)
    /\ Latest /\ Loaded

-----------------------------------------------------------------------------
(* A set of additions is finite.                                           *)
LEMMA HeldFinite ==
    ASSUME NEW n \in Nat, NEW S \in SUBSET (1..n)
    PROVE IsFiniteSet(S) /\ Cardinality(S) \in Nat
<1>1. IsFiniteSet(1..n)
  BY FS_Interval
<1>2. IsFiniteSet(S)
  BY Zenon, <1>1, FS_Subset
<1> QED
  BY <1>2, FS_CardinalityType

(* What filter.Insert does to a filter: it grows by the addition, or stays *)
(* as large as it was if it was full.                                      *)
LEMMA InsertAdds ==
    ASSUME NEW n \in Nat, n + 1 <= MaxAdds, MaxAdds \in Nat,
           NEW f \in Filters, f.els \subseteq 1..n, NEW g \in Insert(f, n + 1)
    PROVE /\ g \in Filters /\ g.els \subseteq 1..(n + 1) /\ g.size = f.size
          /\ Cardinality(f.els) \in Nat
          /\ IF Cardinality(f.els) < f.size
             THEN g.els = f.els \cup {n + 1} /\ Cardinality(g.els) = Cardinality(f.els) + 1
             ELSE Cardinality(g.els) = Cardinality(f.els)
<1> DEFINE more == f.els \cup {n + 1}
<1>1. IsFiniteSet(f.els) /\ Cardinality(f.els) \in Nat /\ f.size \in Nat
  BY Zenon, HeldFinite DEF Filters
<1>2. n + 1 \notin f.els
  BY SMT, Z3
<1>3. IsFiniteSet(more) /\ Cardinality(more) = Cardinality(f.els) + 1
  BY Zenon, <1>1, <1>2, FS_AddElement
<1>4. more \subseteq 1..(n + 1) /\ more \subseteq 1..MaxAdds
  BY SMT, Z3
<1>5. CASE Cardinality(f.els) < f.size
  <2>1. g = [els |-> more, size |-> f.size]
    BY Zenon, <1>5 DEF Insert
  <2> QED
    BY Zenon, <1>1, <1>3, <1>4, <1>5, <2>1 DEF Filters
<1>6. CASE ~(Cardinality(f.els) < f.size)
  <2>1. PICK y \in more : g = [els |-> more \ {y}, size |-> f.size]
    BY Zenon, <1>6 DEF Insert
  <2>2. Cardinality(more \ {y}) = Cardinality(f.els)
    <3> HIDE DEF more
    <3>1. Cardinality(more \ {y}) = Cardinality(more) - 1
      BY Zenon, <1>3, <2>1, FS_RemoveElement
    <3> QED
      BY <1>1, <1>3, <3>1
  <2> QED
    BY <1>1, <1>4, <1>6, <2>1, <2>2 DEF Filters
<1> QED
  BY <1>5, <1>6

(* Additions keep a filter full, and its run of latest additions unbroken. *)
LEMMA InsertKeeps ==
    ASSUME NEW n \in Nat, n + 1 <= MaxAdds, MaxAdds \in Nat,
           NEW f \in Filters, f.els \subseteq 1..n, NEW g \in Insert(f, n + 1)
    PROVE /\ LoadFactor(f) = "full" => LoadFactor(g) = "full"
          /\ (Cardinality(f.els) < f.size => f.els = (n - Cardinality(f.els) + 1)..n)
             => (Cardinality(g.els) < g.size =>
                   g.els = ((n + 1) - Cardinality(g.els) + 1)..(n + 1))
<1>1. /\ g.size = f.size /\ f.size \in Nat /\ Cardinality(f.els) \in Nat
      /\ IF Cardinality(f.els) < f.size
         THEN g.els = f.els \cup {n + 1} /\ Cardinality(g.els) = Cardinality(f.els) + 1
         ELSE Cardinality(g.els) = Cardinality(f.els)
  BY ZenonT(40), SMT, InsertAdds DEF Filters
<1>2. ASSUME LoadFactor(f) = "full"
      PROVE LoadFactor(g) = "full"
  <2>1. 100 * Cardinality(f.els) > 99 * f.size
    BY <1>2 DEF LoadFactor
  <2>2. 100 * Cardinality(g.els) > 99 * g.size
    BY <1>1, <2>1
  <2> QED
    BY <2>2 DEF LoadFactor
<1>3. ASSUME Cardinality(f.els) < f.size => f.els = (n - Cardinality(f.els) + 1)..n,
             Cardinality(g.els) < g.size
      PROVE g.els = ((n + 1) - Cardinality(g.els) + 1)..(n + 1)
  <2> DEFINE k == Cardinality(f.els)
  <2>1. k < f.size
    BY Zenon, <1>1, <1>3
  <2>2. g.els = ((n - k + 1)..n) \cup {n + 1} /\ Cardinality(g.els) = k + 1
    BY <1>1, <1>3, <2>1
  <2>3. k \in Nat
    BY <1>1
  <2> HIDE DEF k
  <2>4. ((n - k + 1)..n) \cup {n + 1} = ((n + 1) - (k + 1) + 1)..(n + 1)
    BY <2>3
  <2> QED
    BY Zenon, <2>2, <2>4
<1> QED
  BY Zenon, <1>2, <1>3

(* An empty filter holds an empty run.                                     *)
LEMMA EmptyFilter ==
    ASSUME NEW n \in Nat, adds \in Nat
    PROVE /\ NewFilter(n) \in Filters /\ NewFilter(n).els = {} /\ NewFilter(n).size = n
          /\ HeldIn(NewFilter(n)) /\ RunOf(NewFilter(n)) /\ Nil = NewFilter(0)
<1>1. NewFilter(n).els = {} /\ NewFilter(n).size = n /\ NewFilter(n) \in Filters
  BY DEF NewFilter, Filters
<1>2. Cardinality({}) = 0
  BY FS_EmptySet
<1>3. (adds - 0 + 1)..adds = {}
  OBVIOUS
<1> QED
  BY Zenon, <1>1, <1>2, <1>3 DEF HeldIn, RunOf, Nil, NewFilter

(* A new pair of filters, with its monitor waiting, has the invariant.     *)
LEMMA FilterInvInit == FilterInit => FilterInv
<1> SUFFICES ASSUME FilterInit PROVE FilterInv
  OBVIOUS
<1> USE SizesAssumption DEF FilterInit, NewCuckooTraceChecker
<1>1. /\ current \in Filters /\ current.size = StartSize /\ HeldIn(current) /\ RunOf(current)
      /\ future \in Filters /\ future = Nil /\ HeldIn(future) /\ RunOf(future)
  <2>1. StartSize \in Nat /\ 0 \in Nat /\ adds \in Nat
    OBVIOUS
  <2> QED
    BY <2>1, EmptyFilter
<1>2. FilterTypeOK
  <2>1. monitor \in [Monitors -> {"none", "select", "grow", "cycle", "done"}]
    OBVIOUS
  <2>2. /\ current \in Filters /\ current.size > 0 /\ future \in Filters
        /\ capacity \in Nat \ {0}
    BY <1>1
  <2>3. adds \in 0..MaxAdds /\ since \in 0..MaxBurst /\ resizes \in Monitors
    BY DEF Monitors
  <2>4. load \in {"low", "half", "full"}
    OBVIOUS
  <2>5. resizing \in BOOLEAN /\ closed \in BOOLEAN
    BY Zenon
  <2> QED
    BY <2>1, <2>2, <2>3, <2>4, <2>5 DEF FilterTypeOK
<1>3. Latest /\ Loaded
  BY DEF Latest, Loaded, Monitors
<1> QED
  BY Zenon, <1>1, <1>2, <1>3 DEF FilterInv

(* Every step of the collector and of the monitor keeps the invariant.     *)
LEMMA FilterInvNext == FilterInv /\ [FilterNext]_filterVars => FilterInv'
<1> SUFFICES ASSUME FilterInv, [FilterNext]_filterVars PROVE FilterInv'
  OBVIOUS
<1> USE SizesAssumption
<1>0. /\ FilterTypeOK /\ HeldIn(current) /\ HeldIn(future) /\ (future = Nil \/ future.size > 0)
      /\ RunOf(current) /\ RunOf(future) /\ Latest /\ Loaded
  BY DEF FilterInv
<1>1. CASE Add
  <2>1. /\ adds \in Nat /\ adds' = adds + 1 /\ adds' \in 0..MaxAdds /\ adds + 1 <= MaxAdds
        /\ since' \in 0..MaxBurst
    BY SMT, Z3, <1>0, <1>1 DEF Add, FilterTypeOK
  <2>2. /\ current' \in Filters /\ current'.size = current.size /\ HeldIn(current)'
        /\ RunOf(current)' /\ (LoadFactor(current) = "full" => LoadFactor(current)' = "full")
    <3>1. current' \in Insert(current, adds + 1) /\ current \in Filters
      BY <1>0, <1>1, <2>1 DEF Add, FilterTypeOK
    <3>2. adds + 1 <= MaxAdds /\ MaxAdds \in Nat /\ current.els \subseteq 1..adds
      BY Zenon, <1>0, <2>1 DEF HeldIn
    <3>3. current' \in Filters /\ current'.els \subseteq 1..(adds + 1) /\ current'.size = current.size
      BY Zenon, <2>1, <3>1, <3>2, InsertAdds
    <3>4. /\ LoadFactor(current) = "full" => LoadFactor(current') = "full"
          /\ (Cardinality(current.els) < current.size => current.els = (adds - Cardinality(current.els) + 1)..adds)
             => (Cardinality(current'.els) < current'.size =>
                   current'.els = ((adds + 1) - Cardinality(current'.els) + 1)..(adds + 1))
      BY Zenon, <2>1, <3>1, <3>2, InsertKeeps
    <3> QED
      BY Zenon, <1>0, <2>1, <3>3, <3>4 DEF HeldIn, RunOf, LoadFactor
  <2>3. /\ future' \in Filters /\ future'.size = future.size /\ HeldIn(future)' /\ RunOf(future)'
        /\ (future' = Nil \/ future'.size > 0)
    <3>1. CASE future = Nil
      <4>1. future' = future
        BY Zenon, <1>1, <3>1 DEF Add
      <4>2. Nil \in Filters /\ Nil.els = {} /\ Nil.size = 0
        BY DEF Nil, Filters
      <4>3. Cardinality({}) = 0
        BY ZenonT(40), SMT, FS_EmptySet
      <4> QED
        BY <3>1, <4>1, <4>2, <4>3 DEF HeldIn, RunOf
    <3>2. CASE future # Nil
      <4>1. future' \in Insert(future, adds + 1) /\ future \in Filters
        BY <1>0, <1>1, <2>1, <3>2 DEF Add, FilterTypeOK
      <4>2. adds + 1 <= MaxAdds /\ MaxAdds \in Nat /\ future.els \subseteq 1..adds
        BY Zenon, <1>0, <2>1 DEF HeldIn
      <4>3. future' \in Filters /\ future'.els \subseteq 1..(adds + 1) /\ future'.size = future.size
        BY Zenon, <2>1, <4>1, <4>2, InsertAdds
      <4>4. /\ LoadFactor(future) = "full" => LoadFactor(future') = "full"
            /\ (Cardinality(future.els) < future.size => future.els = (adds - Cardinality(future.els) + 1)..adds)
               => (Cardinality(future'.els) < future'.size =>
                     future'.els = ((adds + 1) - Cardinality(future'.els) + 1)..(adds + 1))
        BY Zenon, <2>1, <4>1, <4>2, InsertKeeps
      <4> QED
        BY SMT, Z3, <1>0, <2>1, <3>2, <4>3, <4>4 DEF HeldIn, RunOf
    <3> QED
      BY <3>1, <3>2
  <2>4. UNCHANGED <<capacity, monitor, load, resizing, resizes, closed>>
    BY Zenon, <1>1 DEF Add
  <2>5. FilterTypeOK'
    BY Zenon, <1>0, <2>1, <2>2, <2>3, <2>4 DEF FilterTypeOK
  <2>6. Latest' /\ Loaded'
    BY Zenon, <1>0, <2>2, <2>3, <2>4 DEF Latest, Loaded
  <2> QED
    BY ZenonT(40), SMT, <2>2, <2>3, <2>5, <2>6 DEF FilterInv
<1>2. ASSUME NEW m \in Monitors, MaintainRead(m)
      PROVE FilterInv'
  <2>1. UNCHANGED <<current, future, capacity, adds, resizing, resizes, closed>>
    BY <1>2 DEF MaintainRead
  <2>2. load' \in {"low", "half", "full"} /\ load' = LoadFactor(current)
    BY Zenon, <1>2 DEF MaintainRead, LoadFactor
  <2>3. FilterTypeOK'
    BY SMT, Z3, <1>0, <1>2, <2>1, <2>2 DEF FilterTypeOK, MaintainRead
  <2>4. Latest' /\ Loaded'
    BY <1>0, <1>2, <2>1, <2>2 DEF Latest, Loaded, MaintainRead, FilterTypeOK, LoadFactor
  <2> QED
    BY Zenon, <1>0, <2>1, <2>3, <2>4 DEF FilterInv, HeldIn, RunOf
<1>3. ASSUME NEW m \in Monitors, MaintainGrow(m)
      PROVE FilterInv'
  <2>1. UNCHANGED <<current, capacity, adds, since, load, resizing, resizes, closed>>
    BY <1>3 DEF MaintainGrow
  <2>2. /\ future' \in Filters /\ HeldIn(future)' /\ RunOf(future)'
        /\ (future' = Nil \/ future'.size > 0)
        /\ load # "low" => future'.size > 0
    <3>1. CASE future' = future
      BY <1>0, <1>3, <2>1, <3>1, EmptyFilter DEF MaintainGrow, HeldIn, RunOf, FilterTypeOK
    <3>2. CASE future' = NewFilter(capacity)
      <4>1. capacity \in Nat \ {0} /\ adds \in Nat
        BY SMT, Z3, <1>0, <2>1 DEF FilterTypeOK
      <4>2. /\ NewFilter(capacity) \in Filters /\ NewFilter(capacity).size = capacity
            /\ HeldIn(NewFilter(capacity)) /\ RunOf(NewFilter(capacity))
        BY Zenon, <4>1, EmptyFilter
      <4>3. HeldIn(future)' /\ RunOf(future)'
        BY Zenon, <2>1, <3>2, <4>2 DEF HeldIn, RunOf
      <4> QED
        BY SMT, Z3, <3>2, <4>1, <4>2, <4>3
    <3> QED
      BY ZenonT(40), SMT, <1>3, <3>1, <3>2 DEF MaintainGrow
  <2>3. FilterTypeOK'
    BY ZenonT(40), SMT, <1>0, <1>3, <2>1, <2>2 DEF FilterTypeOK, MaintainGrow
  <2>4. Latest' /\ Loaded'
    BY SMT, Z3, <1>0, <1>3, <2>1, <2>2 DEF Latest, Loaded, MaintainGrow, FilterTypeOK, LoadFactor
  <2> QED
    BY Zenon, <1>0, <2>1, <2>2, <2>3, <2>4 DEF FilterInv, HeldIn, RunOf
<1>4. ASSUME NEW m \in Monitors, MaintainCycle(m)
      PROVE FilterInv'
  <2>1. /\ current' = future /\ future' = NewFilter(capacity)
        /\ UNCHANGED <<capacity, adds, since, load, resizing, resizes, closed>>
    BY Zenon, <1>4 DEF MaintainCycle
  <2>2. capacity \in Nat \ {0} /\ adds \in Nat
    BY SMT, Z3, <1>0, <2>1 DEF FilterTypeOK
  <2>3. future' \in Filters /\ HeldIn(future)' /\ RunOf(future)' /\ future'.size > 0
    BY SMT, Z3, <2>1, <2>2, EmptyFilter DEF HeldIn, RunOf
  <2>4. current'.size > 0
    BY Zenon, <1>0, <1>4, <2>1 DEF MaintainCycle, Loaded
  <2>5. FilterTypeOK'
    BY ZenonT(40), SMT, <1>0, <1>4, <2>1, <2>3, <2>4 DEF FilterTypeOK, MaintainCycle
  <2>6. Latest' /\ Loaded'
    BY <1>0, <1>4, <2>1 DEF Latest, Loaded, MaintainCycle, FilterTypeOK
  <2> QED
    BY Zenon, <1>0, <2>1, <2>3, <2>5, <2>6 DEF FilterInv, HeldIn, RunOf
<1>5. CASE SetNextCapacity
  BY Zenon, <1>0, <1>5 DEF SetNextCapacity, FilterInv, FilterTypeOK, HeldIn, RunOf, Latest, Loaded, LoadFactor, Monitors
<1>6. ASSUME NEW m \in Monitors, ReplaceMonitor(m)
      PROVE FilterInv'
  <2>1. /\ monitor' = [monitor EXCEPT ![m] = "done", ![resizes + 1] = "select"]
        /\ resizes' = resizes + 1 /\ resizing' = FALSE
        /\ UNCHANGED <<current, future, capacity, adds, since, load, closed>>
    BY Zenon, <1>6 DEF ReplaceMonitor
  <2>2. m = resizes /\ resizes + 1 \in Monitors
    BY <1>0, <1>6 DEF ReplaceMonitor, Latest, FilterTypeOK, Monitors
  <2>3. FilterTypeOK'
    BY ZenonT(40), SMT, <1>0, <2>1, <2>2 DEF FilterTypeOK
  <2>4. Latest' /\ Loaded'
    BY <1>0, <2>1, <2>2 DEF Latest, Loaded, FilterTypeOK, LoadFactor
  <2> QED
    BY Zenon, <1>0, <2>1, <2>3, <2>4 DEF FilterInv, HeldIn, RunOf
<1>7. CASE Stop
  BY Zenon, <1>0, <1>7 DEF Stop, FilterInv, FilterTypeOK, HeldIn, RunOf, Latest, Loaded, LoadFactor
<1>8. ASSUME NEW m \in Monitors, MonitorEnds(m)
      PROVE FilterInv'
  BY ZenonT(40), SMT, <1>0, <1>8 DEF MonitorEnds, FilterInv, FilterTypeOK, HeldIn, RunOf, Latest, Loaded, LoadFactor
<1>9. CASE UNCHANGED filterVars
  BY ZenonT(40), SMT, <1>0, <1>9 DEF filterVars, FilterInv, FilterTypeOK, HeldIn, RunOf, Latest, Loaded, LoadFactor
<1> QED
  BY Zenon, <1>1, <1>2, <1>3, <1>4, <1>5, <1>6, <1>7, <1>8, <1>9 DEF FilterNext, Maintain

(* IInv holds in every state that can be reached.                          *)
LEMMA FilterInvHolds == FilterSpec => []FilterInv
  BY FilterInvInit, FilterInvNext, PTL DEF FilterSpec

-----------------------------------------------------------------------------
(* Drops are forgotten oldest first, whatever is added while Maintain      *)
(* makes and cycles filters around it (CuckooTraceChecker).                *)
THEOREM ForgottenInOrder == FilterSpec => []OldestForgottenFirst
<1>1. FilterInv => OldestForgottenFirst
  BY DEF FilterInv, RunOf, OldestForgottenFirst
<1> QED
  BY <1>1, FilterInvHolds, PTL

(* Resize never leaves two monitor goroutines.                             *)
THEOREM SingleMonitor == FilterSpec => []OneMonitor
<1>1. ASSUME FilterInv PROVE OneMonitor
  <2> DEFINE running == {m \in Monitors : monitor[m] \notin {"none", "done"}}
  <2>1. running \in SUBSET {resizes}
    BY <1>1 DEF FilterInv, Latest
  <2>2. IsFiniteSet({resizes}) /\ Cardinality({resizes}) = 1
    BY Zenon, FS_Singleton
  <2>3. Cardinality(running) <= 1
    BY <2>1, <2>2, FS_Subset
  <2> QED
    BY <2>3 DEF OneMonitor
<1> QED
  BY <1>1, FilterInvHolds, PTL

(* Maintain cycles the filters only when the current one is full, although *)
(* it takes the write lock after it has read the load factor, and never    *)
(* makes nil the current one.                                              *)
THEOREM CycledForFullness == FilterSpec => CycledWhenFull
<1>1. ASSUME FilterInv, FilterInv', [FilterNext]_filterVars
      PROVE [\A m \in Monitors : monitor[m] = "cycle" /\ monitor'[m] # "cycle"
               => LoadFactor(current) = "full" /\ current'.size # 0]_filterVars
  <2>1. \A m \in Monitors : monitor[m] = "cycle" => LoadFactor(current) = "full"
    BY Zenon, <1>1 DEF FilterInv, Loaded
  <2>2. current'.size # 0
    BY <1>1 DEF FilterInv, FilterTypeOK, Filters
  <2> QED
    BY Zenon, <2>1, <2>2
<1> QED
  BY <1>1, FilterInvHolds, PTL DEF CycledWhenFull, FilterSpec
=============================================================================
