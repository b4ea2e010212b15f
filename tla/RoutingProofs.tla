---------------------------- MODULE RoutingProofs ----------------------------
(***************************************************************************)
(* What the routers guarantee, for any number of nodes, requests, spans    *)
(* and changes of the sharders' lists, from an invariant on the spans: an  *)
(* event that is still to be processed is with its client only.            *)
(***************************************************************************)
EXTENDS Routing, TLAPS

(* Spans still to be processed are the client's, and in one request once.  *)
Pending ==
    \A r \in Requests :
        /\ \A i \in DOMAIN todo[r] : /\ Request[todo[r][i]] = r
                                     /\ where[todo[r][i]] = "client"
        /\ \A i, j \in DOMAIN todo[r] : todo[r][i] = todo[r][j] => i = j

(* A span that is with its client is at the node of its request and has    *)
(* not been passed on; one on its way has been passed on once.             *)
Placed ==
    \A s \in Spans :
        /\ where[s] = "client" => hops[s] = 0 /\ node[s] = At[Request[s]]
        /\ hops[s] <= 1

(* While no list has changed, all nodes hold the same one, and a span that *)
(* is collected or on its way is at, or goes to, the owner in that list.   *)
Agreed ==
    changes = 0 =>
        /\ \A m, n \in Nodes : view[m] = view[n]
        /\ \A s \in Spans : where[s] \in {"queued", "collected"} =>
              TraceOf[s] # NoTrace /\ view[node[s]][TraceOf[s]] = node[s]

SpanInv ==
    /\ view \in [Nodes -> Views] /\ changes \in Nat
    /\ todo \in [Requests -> Seq(Spans)]
    /\ reply \in [Spans -> {"none", "accepted", "refused"}]
    /\ where \in [Spans -> Places] /\ node \in [Spans -> Nodes] /\ hops \in [Spans -> Nat]
    /\ Pending /\ Placed /\ Agreed /\ AnswerIsFate

-----------------------------------------------------------------------------
(* Each span has the request that carries it.                              *)
LEMMA RequestOfSpan ==
    /\ Request \in [Spans -> Requests]
    /\ \A r \in Requests : \A i \in DOMAIN Events[r] : Request[Events[r][i]] = r
<1>1. \A s \in Spans : /\ Request[s] \in Requests
                       /\ \E i \in DOMAIN Events[Request[s]] : Events[Request[s]][i] = s
  BY Zenon, RequestsAssumption DEF Request
<1>2. Request \in [Spans -> Requests]
  BY <1>1 DEF Request
<1>3. ASSUME NEW r \in Requests, NEW i \in DOMAIN Events[r] PROVE Request[Events[r][i]] = r
  <2> DEFINE q == Request[Events[r][i]]
  <2>1. Events[r][i] \in Spans
    BY RequestsAssumption
  <2>2. q \in Requests /\ \E j \in DOMAIN Events[q] : Events[q][j] = Events[r][i]
    BY <1>1, <2>1
  <2> HIDE DEF q
  <2>3. PICK j \in DOMAIN Events[q] : Events[q][j] = Events[r][i]
    BY <2>2
  <2>4. q = r
    BY <2>2, <2>3, RequestsAssumption
  <2> QED
    BY <2>4 DEF q
<1> QED
  BY <1>2, <1>3

-----------------------------------------------------------------------------
(* A step that leaves the spans and the lists of peers as they are.         *)
Still == UNCHANGED <<view, changes, todo, spanVars>>

(* What a step of a handler does to the spans.                             *)
LEMMA HandleSteps ==
    ASSUME NEW r \in Requests, Handle(r)
    PROVE Still \/ Refuse(r) \/ processEvent(r)
<1>1. CASE event(r) \/ batch(r)
  BY <1>1 DEF event, batch, getEnvironmentName, Goto, Accept, Still
<1>2. CASE Export(r) \/ Respond(r)
  BY <1>2 DEF Export, Respond, Goto, Accept, Still
<1>3. CASE get(r) \/ lookupEnvironment(r)
  BY <1>3 DEF get, lookupEnvironment, Goto, Accept, Still
<1> QED
  BY <1>1, <1>2, <1>3 DEF Handle

(* A request that is refused as a whole keeps the invariant on the spans.  *)
LEMMA RefuseSpans ==
    ASSUME SpanInv, NEW r \in Requests, Refuse(r) PROVE SpanInv'
<1> USE RequestsAssumption, RequestOfSpan DEF Refuse
<1>1. /\ view' \in [Nodes -> Views] /\ changes' \in Nat /\ todo' \in [Requests -> Seq(Spans)]
      /\ node' \in [Spans -> Nodes] /\ hops' \in [Spans -> Nat]
  BY DEF SpanInv
<1>2. /\ reply' \in [Spans -> {"none", "accepted", "refused"}] /\ where' \in [Spans -> Places]
  BY ZenonT(40), SMT DEF SpanInv, Places
<1>3. Pending'
  <2>1. ASSUME NEW q \in Requests, q # r, NEW i \in DOMAIN todo[q]
        PROVE where'[todo[q][i]] = where[todo[q][i]]
    BY <2>1 DEF SpanInv, Pending
  <2>2. ASSUME NEW q \in Requests, q # r PROVE todo'[q] = todo[q]
    BY <2>2 DEF SpanInv
  <2>3. todo'[r] = <<>>
    BY DEF SpanInv
  <2> QED
    BY <2>1, <2>2, <2>3 DEF SpanInv, Pending
<1>4. Placed'
  BY DEF SpanInv, Placed
<1>5. Agreed'
  BY DEF SpanInv, Agreed
<1>6. AnswerIsFate'
  BY DEF SpanInv, AnswerIsFate
<1> QED
  BY <1>1, <1>2, <1>3, <1>4, <1>5, <1>6 DEF SpanInv

(* What processEvent does with the event that is next: its place, what the *)
(* client is told, and where it is.                                        *)
Fate(r, s, place, told) ==
    /\ Outcome(r, s, place, told)
    /\ told = "refused" <=> place = "refused"
    /\ \/ /\ place \in {"upstream", "collected", "refused"} /\ node' = node /\ hops' = hops
          /\ place = "collected" => TraceOf[s] # NoTrace /\ view[At[r]][TraceOf[s]] = At[r]
       \/ /\ place \in {"queued", "lost"} /\ TraceOf[s] # NoTrace
          /\ node' = [node EXCEPT ![s] = view[At[r]][TraceOf[s]]]
          /\ hops' = [hops EXCEPT ![s] = hops[s] + 1]

(* The ways of processEvent have such a fate.                              *)
LEMMA ProcessFate ==
    ASSUME NEW r \in Requests, processEvent(r)
    PROVE \E place \in Places, told \in {"accepted", "refused"} : Fate(r, Head(todo[r]), place, told)
<1> DEFINE s == Head(todo[r])
<1>1. CASE ToUpstream(r, s)
  <2>1. Fate(r, s, "upstream", "accepted")
    BY <1>1 DEF ToUpstream, Fate
  <2> QED
    BY <2>1 DEF Places
<1>2. CASE ToPeer(r, s)
  <2>1. PICK place \in {"queued", "lost"} : Outcome(r, s, place, "accepted")
    BY <1>2 DEF ToPeer
  <2>2. Fate(r, s, place, "accepted")
    BY <1>2, <2>1 DEF ToPeer, Fate
  <2> QED
    BY <2>2 DEF Places
<1>3. CASE ToCollector(r, s)
  <2>1. Fate(r, s, "collected", "accepted") \/ Fate(r, s, "refused", "refused")
    BY <1>3 DEF ToCollector, Fate
  <2> QED
    BY <2>1 DEF Places
<1>4. CASE Unconverted(r, s)
  <2>1. Fate(r, s, "refused", "refused")
    BY <1>4 DEF Unconverted, Fate
  <2> QED
    BY <2>1 DEF Places
<1> QED
  BY <1>1, <1>2, <1>3, <1>4 DEF processEvent

(* An event keeps the invariant on the spans wherever processEvent puts it. *)
LEMMA ProcessSpans ==
    ASSUME SpanInv, NEW r \in Requests, processEvent(r) PROVE SpanInv'
<1> DEFINE s == Head(todo[r])
<1>0. /\ Request \in [Spans -> Requests] /\ At \in [Requests -> Nodes]
      /\ Views \subseteq [Traces -> Nodes] /\ TraceOf \in [Spans -> Traces \cup {NoTrace}]
  BY RequestsAssumption, RequestOfSpan
<1>1. /\ s \in Spans /\ s = todo[r][1] /\ 1 \in DOMAIN todo[r] /\ todo[r] \in Seq(Spans)
      /\ Tail(todo[r]) \in Seq(Spans) /\ todo[r] # <<>>
  BY DEF processEvent, SpanInv
<1>2. Request[s] = r /\ where[s] = "client" /\ node[s] = At[r] /\ hops[s] = 0
  BY <1>1 DEF SpanInv, Pending, Placed
<1>3. PICK place \in Places, told \in {"accepted", "refused"} : Fate(r, s, place, told)
  BY ProcessFate
<1> HIDE DEF s
<1>4. /\ todo' = [todo EXCEPT ![r] = Tail(todo[r])] /\ where' = [where EXCEPT ![s] = place]
      /\ reply' = [reply EXCEPT ![s] = IF Kind[r] = "otlp" THEN "accepted" ELSE told]
      /\ view' = view /\ changes' = changes
  BY <1>3 DEF Fate, Outcome
<1>5. /\ view[At[r]] \in [Traces -> Nodes]
      /\ TraceOf[s] # NoTrace => view[At[r]][TraceOf[s]] \in Nodes
  BY <1>0, <1>1 DEF SpanInv
<1>6. view' \in [Nodes -> Views] /\ changes' \in Nat /\ todo' \in [Requests -> Seq(Spans)]
  BY <1>1, <1>4 DEF SpanInv
<1>7. node' \in [Spans -> Nodes] /\ hops' \in [Spans -> Nat]
  <2>1. node \in [Spans -> Nodes] /\ hops \in [Spans -> Nat] /\ hops[s] + 1 \in Nat
    BY <1>2 DEF SpanInv
  <2>2. CASE node' = node /\ hops' = hops
    BY <2>1, <2>2
  <2>3. CASE /\ TraceOf[s] # NoTrace
             /\ node' = [node EXCEPT ![s] = view[At[r]][TraceOf[s]]]
             /\ hops' = [hops EXCEPT ![s] = hops[s] + 1]
    BY Zenon, <1>5, <2>1, <2>3
  <2> QED
    BY <1>3, <2>2, <2>3 DEF Fate
<1>8. reply' \in [Spans -> {"none", "accepted", "refused"}] /\ where' \in [Spans -> Places]
  BY <1>1, <1>3, <1>4 DEF SpanInv
<1>9. \A x \in Spans : x # s => /\ where'[x] = where[x] /\ reply'[x] = reply[x]
                                /\ node'[x] = node[x] /\ hops'[x] = hops[x]
  BY <1>1, <1>3, <1>4 DEF SpanInv, Fate
<1>10. /\ where'[s] = place /\ place # "client" /\ hops'[s] <= 1
       /\ reply'[s] = IF Kind[r] = "otlp" THEN "accepted" ELSE told
       /\ place = "collected" => node'[s] = At[r]
       /\ place = "queued" => node'[s] = view[At[r]][TraceOf[s]]
       /\ place \in {"queued", "collected"} =>
             TraceOf[s] # NoTrace /\ node'[s] = view[At[r]][TraceOf[s]]
  BY <1>1, <1>2, <1>3, <1>4 DEF SpanInv, Fate
<1>11. Pending'
  <2>1. ASSUME NEW q \in Requests, q # r
        PROVE /\ todo'[q] = todo[q]
              /\ \A i \in DOMAIN todo[q] : where'[todo[q][i]] = where[todo[q][i]]
    <3>1. todo'[q] = todo[q] /\ todo[q] \in Seq(Spans)
      BY <1>4, <2>1 DEF SpanInv
    <3>2. ASSUME NEW i \in DOMAIN todo[q] PROVE todo[q][i] \in Spans /\ todo[q][i] # s
      BY <1>2, <2>1, <3>1, <3>2 DEF SpanInv, Pending
    <3> QED
      BY <1>9, <3>1, <3>2
  <2>2. todo'[r] = Tail(todo[r])
    BY <1>4 DEF SpanInv
  <2>3. ASSUME NEW i \in DOMAIN Tail(todo[r])
        PROVE /\ i + 1 \in DOMAIN todo[r] /\ i + 1 # 1 /\ i \in Nat
              /\ Tail(todo[r])[i] = todo[r][i + 1]
    BY <1>1, <2>3
  <2>4. ASSUME NEW i \in DOMAIN Tail(todo[r])
        PROVE Request[Tail(todo[r])[i]] = r /\ where'[Tail(todo[r])[i]] = "client"
    <3>1. todo[r][i + 1] # s /\ todo[r][i + 1] \in Spans
      BY <1>1, <2>3 DEF SpanInv, Pending
    <3> QED
      BY <1>9, <2>3, <3>1 DEF SpanInv, Pending
  <2>5. \A i, j \in DOMAIN Tail(todo[r]) : Tail(todo[r])[i] = Tail(todo[r])[j] => i = j
    BY <2>3 DEF SpanInv, Pending
  <2>6. ASSUME NEW q \in Requests, q # r
        PROVE /\ \A i \in DOMAIN todo'[q] : /\ Request[todo'[q][i]] = q
                                            /\ where'[todo'[q][i]] = "client"
              /\ \A i, j \in DOMAIN todo'[q] : todo'[q][i] = todo'[q][j] => i = j
    BY SMT, Z3, <2>1, <2>6 DEF SpanInv, Pending
  <2> QED
    BY Zenon, <2>2, <2>4, <2>5, <2>6 DEF Pending
<1>12. Placed'
  BY ZenonT(40), SMT, <1>9, <1>10 DEF SpanInv, Placed
<1>13. Agreed'
  <2> SUFFICES ASSUME changes = 0
               PROVE /\ \A m, n \in Nodes : view[m] = view[n]
                     /\ \A x \in Spans : where'[x] \in {"queued", "collected"} =>
                           TraceOf[x] # NoTrace /\ view[node'[x]][TraceOf[x]] = node'[x]
    BY <1>4 DEF Agreed
  <2>1. \A m, n \in Nodes : view[m] = view[n]
    BY DEF SpanInv, Agreed
  <2>2. view[node'[s]] = view[At[r]]
    BY <1>0, <1>1, <1>7, <2>1
  <2> QED
    BY <1>9, <1>10, <2>1, <2>2 DEF SpanInv, Agreed
<1>14. AnswerIsFate'
  <2>1. told = "refused" <=> place = "refused"
    BY <1>3 DEF Fate
  <2>2. ASSUME NEW x \in Spans, x # s, Kind[Request[x]] \in {"event", "batch"}
        PROVE /\ reply'[x] = "refused" <=> where'[x] = "refused"
              /\ reply'[x] = "none" <=> where'[x] = "client"
    BY <1>9, <2>2 DEF SpanInv, AnswerIsFate
  <2>3. ASSUME Kind[Request[s]] \in {"event", "batch"}
        PROVE /\ reply'[s] = "refused" <=> where'[s] = "refused"
              /\ reply'[s] = "none" <=> where'[s] = "client"
    <3>1. reply'[s] = told
      BY <1>2, <1>10, <2>3
    <3> QED
      BY <1>3, <1>10, <2>1, <3>1
  <2> QED
    BY <2>2, <2>3 DEF AnswerIsFate
<1> QED
  BY <1>6, <1>7, <1>8, <1>11, <1>12, <1>13, <1>14 DEF SpanInv

(* The peer's router collects the span where it was sent, or loses it.     *)
LEMMA PeerSpans ==
    ASSUME SpanInv, NEW s \in Spans, ExportLogTraceProxy(s) PROVE SpanInv'
<1>1. PICK place \in {"collected", "lost"} : where' = [where EXCEPT ![s] = place]
  BY Zenon DEF ExportLogTraceProxy
<1>2. where[s] = "queued" /\ UNCHANGED <<view, changes, todo, reply, node, hops>>
  BY DEF ExportLogTraceProxy
<1>3. where'[s] = place /\ where' \in [Spans -> Places]
      /\ \A x \in Spans : x # s => where'[x] = where[x]
  BY <1>1 DEF SpanInv, Places
<1>4. Pending'
  <2>1. ASSUME NEW r \in Requests, NEW i \in DOMAIN todo[r]
        PROVE todo[r][i] \in Spans /\ todo[r][i] # s
    BY <1>2 DEF SpanInv, Pending
  <2> QED
    BY <1>2, <1>3, <2>1 DEF SpanInv, Pending
<1>5. Placed'
  BY <1>2, <1>3 DEF SpanInv, Placed
<1>6. Agreed'
  BY <1>2, <1>3 DEF SpanInv, Agreed
<1>7. AnswerIsFate'
  BY <1>2, <1>3 DEF SpanInv, AnswerIsFate
<1> QED
  BY <1>2, <1>3, <1>4, <1>5, <1>6, <1>7 DEF SpanInv

(* A sharder that loads another list ends what the nodes agree on.         *)
LEMMA ListSpans ==
    ASSUME SpanInv, NEW n \in Nodes, loadPeerList(n) PROVE SpanInv'
<1>1. /\ changes' = changes + 1 /\ changes' # 0 /\ changes' \in Nat
      /\ UNCHANGED <<todo, reply, where, node, hops>>
  BY DEF loadPeerList, spanVars, SpanInv
<1>2. view' \in [Nodes -> Views]
  BY Zenon DEF loadPeerList, SpanInv
<1>3. Agreed'
  BY Zenon, <1>1 DEF Agreed
<1>4. Pending' /\ Placed' /\ AnswerIsFate'
  BY <1>1 DEF SpanInv, Pending, Placed, AnswerIsFate
<1> QED
  BY <1>1, <1>2, <1>3, <1>4 DEF SpanInv

(* All spans are with their clients to begin with.                         *)
LEMMA InitSpans == Init => SpanInv
<1> SUFFICES ASSUME Init PROVE SpanInv
  OBVIOUS
<1> USE RequestsAssumption, RequestOfSpan DEF Init
<1>1. view \in [Nodes -> Views] /\ changes \in Nat /\ todo \in [Requests -> Seq(Spans)]
  OBVIOUS
<1>2. /\ reply \in [Spans -> {"none", "accepted", "refused"}] /\ where \in [Spans -> Places]
      /\ node \in [Spans -> Nodes] /\ hops \in [Spans -> Nat]
  BY DEF Places
<1>3. Pending
  <2>1. ASSUME NEW r \in Requests, NEW i \in DOMAIN todo[r]
        PROVE todo[r][i] \in Spans /\ Request[todo[r][i]] = r
    OBVIOUS
  <2>2. ASSUME NEW r \in Requests, NEW i \in DOMAIN todo[r], NEW j \in DOMAIN todo[r],
               todo[r][i] = todo[r][j]
        PROVE i = j
    BY <2>2
  <2> QED
    BY <2>1, <2>2 DEF Pending
<1>4. Placed
  BY DEF Placed
<1>5. Agreed
  BY DEF Agreed
<1>6. AnswerIsFate
  BY DEF AnswerIsFate
<1> QED
  BY <1>1, <1>2, <1>3, <1>4, <1>5, <1>6 DEF SpanInv

(* Every step keeps the invariant on the spans.                            *)
LEMMA NextSpans == SpanInv /\ [Next]_vars => SpanInv'
<1> SUFFICES ASSUME SpanInv, [Next]_vars PROVE SpanInv'
  BY ZenonT(40), SMT
<1>1. ASSUME Still PROVE SpanInv'
  <2>1. UNCHANGED <<view, changes, todo, reply, where, node, hops>>
    BY <1>1 DEF Still, spanVars
  <2> QED
    BY <2>1 DEF SpanInv, Pending, Placed, Agreed, AnswerIsFate
<1>2. CASE UNCHANGED vars
  BY <1>1, <1>2 DEF vars, Still
<1>3. ASSUME NEW n \in Nodes, loadPeerList(n) PROVE SpanInv'
  BY <1>3, ListSpans
<1>4. ASSUME NEW r \in Requests, Handle(r) PROVE SpanInv'
  BY <1>1, <1>4, HandleSteps, RefuseSpans, ProcessSpans
<1>5. ASSUME NEW s \in Spans, ExportLogTraceProxy(s) PROVE SpanInv'
  BY <1>5, PeerSpans
<1> QED
  BY <1>2, <1>3, <1>4, <1>5 DEF Next

(* The invariant on the spans holds in every reachable state.              *)
LEMMA SpansHold == Spec => []SpanInv
BY InitSpans, NextSpans, PTL DEF Spec

-----------------------------------------------------------------------------
(* While no list of peers has changed the spans of a trace are collected   *)
(* by one node: processEvent forwards by a list that all nodes share.      *)
THEOREM OneCollector == Spec => []OneCollectorPerTrace
<1>1. SpanInv => OneCollectorPerTrace
  <2> SUFFICES ASSUME SpanInv, changes = 0, NEW s \in Spans, NEW t \in Spans,
                      where[s] = "collected", where[t] = "collected", TraceOf[s] = TraceOf[t]
               PROVE node[s] = node[t]
    BY DEF OneCollectorPerTrace
  <2>1. node[s] \in Nodes /\ node[t] \in Nodes
    BY DEF SpanInv
  <2> QED
    BY Zenon, <2>1 DEF SpanInv, Agreed
<1> QED
  BY <1>1, SpansHold, PTL

(* A span is passed on at most once, whatever the lists of the nodes say   *)
(* meanwhile: an incoming router has it only while its client waits, and   *)
(* the peer router does not forward.                                       *)
THEOREM PassedOnOnce == Spec => []AtMostOneHop
<1>1. SpanInv => AtMostOneHop
  BY DEF SpanInv, Placed, AtMostOneHop
<1> QED
  BY <1>1, SpansHold, PTL

(* What the handlers of events and batches answer is what became of each   *)
(* event.                                                                  *)
THEOREM AnsweredTruly == Spec => []AnswerIsFate
<1>1. SpanInv => AnswerIsFate
  BY DEF SpanInv
<1> QED
  BY <1>1, SpansHold, PTL

=============================================================================
