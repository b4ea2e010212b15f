------------------------------- MODULE Routing -------------------------------
(***************************************************************************)
(* The routers of a cluster (route/route.go, route/otlp_trace.go) between  *)
(* the clients and the collectors.                                         *)
(*                                                                         *)
(* Every node runs two routers.  The incoming one answers clients and      *)
(* forwards a span whose trace belongs to another node; the peer one       *)
(* answers other nodes and keeps whatever it is given.  Which node a trace *)
(* belongs to is the node's own opinion (its sharder's peer list, modules  *)
(* Sharding and PeerWatch), here an arbitrary function view[n] that        *)
(* changes between the events of a request.  The queue to a peer           *)
(* (transmit, libtrace) may drop what it is given, and so may the call     *)
(* that carries it; the collector may be full.  A request with a key of    *)
(* its own takes the lock of the environment cache of its node.            *)
(***************************************************************************)
EXTENDS Naturals, Sequences

CONSTANTS Nodes, Traces, NoTrace,
          Requests,     \* the requests of the clients
          Kind,         \* Kind[r]: "event", "batch" or "otlp"
          At,           \* At[r]: the node that receives r
          Events,       \* Events[r]: the sequence of spans it carries
          Spans, TraceOf,
          Lookups,      \* requests with a key whose environment is looked up
          Gzipped,      \* requests whose body is compressed with gzip
          Views,        \* the placements a sharder may hold: [Traces -> Nodes]
          MaxChanges    \* bound on the changes of a view

\* Each span is in one request, once.
ASSUME RequestsAssumption ==
    /\ Kind \in [Requests -> {"event", "batch", "otlp"}] /\ At \in [Requests -> Nodes]
    /\ Events \in [Requests -> Seq(Spans)]
    /\ \A s \in Spans : \E r \in Requests : \E i \in DOMAIN Events[r] : Events[r][i] = s
    /\ \A q, r \in Requests : \A i \in DOMAIN Events[q], j \in DOMAIN Events[r] :
          Events[q][i] = Events[r][j] => q = r /\ i = j
    /\ TraceOf \in [Spans -> Traces \cup {NoTrace}] /\ NoTrace \notin Traces
    /\ Views \subseteq [Traces -> Nodes] /\ MaxChanges \in Nat

VARIABLES view,         \* view[n][t]: the node n believes owns t
          changes,
          running,      \* running[r]: how far the handler of r is
          locked,       \* nodes whose environment cache is locked
          todo,         \* todo[r]: the spans of r not processed yet
          status,       \* status[r]: the status of the whole answer
          reply,        \* reply[s]: what the answer to its request says of s
          where,        \* where[s]: the place of s
          node,         \* node[s]: the node that has s, or that it is sent to
          hops          \* hops[s]: how often s was passed to another node

spanVars == <<reply, where, node, hops>>
vars == <<view, changes, running, locked, todo, status, spanVars>>

Places == {"client", "queued", "collected", "upstream", "refused", "lost"}

TypeOK ==
    /\ view \in [Nodes -> Views] /\ changes \in 0..MaxChanges
    /\ running \in [Requests -> {"new", "get", "getFn", "running", "done"}]
    /\ locked \subseteq Nodes
    /\ \A r \in Requests : todo[r] \in Seq(Spans)
    /\ status \in [Requests -> {"none", "ok", "error"}]
    /\ reply \in [Spans -> {"none", "accepted", "refused"}]
    /\ where \in [Spans -> Places] /\ node \in [Spans -> Nodes]
    /\ hops \in [Spans -> Nat]

Request ==
    [s \in Spans |-> CHOOSE r \in Requests : \E i \in DOMAIN Events[r] : Events[r][i] = s]

\* All nodes start from one list of peers.
Init ==
    /\ \E v \in Views : view = [n \in Nodes |-> v]
    /\ changes = 0
    /\ running = [r \in Requests |-> "new"]
    /\ locked = {}
    /\ todo = [r \in Requests |-> Events[r]]
    /\ status = [r \in Requests |-> "none"]
    /\ reply = [s \in Spans |-> "none"]
    /\ where = [s \in Spans |-> "client"]
    /\ node = [s \in Spans |-> At[Request[s]]]
    /\ hops = [s \in Spans |-> 0]

\* The sharder of node n loads another list of peers.
loadPeerList(n) ==
    /\ changes < MaxChanges
    /\ changes' = changes + 1
    /\ \E v \in Views : view' = [view EXCEPT ![n] = v]
    /\ UNCHANGED <<running, locked, todo, status, spanVars>>

-----------------------------------------------------------------------------
(* Receiving a request.                                                    *)

\* A request turned down as a whole: none of its events is processed.
Refuse(r) ==
    /\ running' = [running EXCEPT ![r] = "done"]
    /\ todo' = [todo EXCEPT ![r] = <<>>]
    /\ status' = [status EXCEPT ![r] = "error"]
    /\ reply' = [s \in Spans |-> IF Request[s] = r THEN "refused" ELSE reply[s]]
    /\ where' = [s \in Spans |-> IF Request[s] = r THEN "refused" ELSE where[s]]
    /\ UNCHANGED <<view, changes, node, hops>>

\* Its events are processed, and what the answer says so far is st.
Accept(r, st) ==
    /\ running' = [running EXCEPT ![r] = "running"]
    /\ status' = [status EXCEPT ![r] = st]
    /\ UNCHANGED <<view, changes, todo, spanVars>>

\* A gzip body is copied up to the length of the still empty buffer, so it
\* reads as empty and does not parse.  Any body may be malformed.
ReadBody(r) == r \notin Gzipped

Goto(r, at) ==
    /\ running' = [running EXCEPT ![r] = at]
    /\ UNCHANGED <<view, changes, todo, status, spanVars>>

\* Without a key, or with a legacy one, there is nothing to look up.
getEnvironmentName(r) == IF r \in Lookups THEN Goto(r, "get") ELSE Accept(r, "ok")

\* The body is read before the environment is looked up, and parsed after.
event(r) ==
    /\ running[r] = "new" /\ Kind[r] = "event"
    /\ \/ (r \in Lookups \/ ReadBody(r)) /\ getEnvironmentName(r)
       \/ Refuse(r)               \* body or parse error, or no OpsrampAPI
    /\ UNCHANGED locked

\* Here it is parsed before.
batch(r) ==
    /\ running[r] = "new" /\ Kind[r] = "batch"
    /\ \/ ReadBody(r) /\ getEnvironmentName(r)
       \/ Refuse(r)               \* body or parse error
    /\ UNCHANGED locked

Export(r) ==
    /\ running[r] = "new" /\ Kind[r] = "otlp"
    /\ \/ Accept(r, "ok")
       \/ Refuse(r)               \* the request does not translate, or no OpsrampAPI
    /\ UNCHANGED locked

-----------------------------------------------------------------------------
(* environmentCache.get.                                                   *)

\* Nothing is ever cached (see lookupEnvironment), so both reads of the map
\* miss, and getFn is called with the lock.
get(r) ==
    /\ running[r] = "get" /\ At[r] \notin locked
    /\ locked' = locked \cup {At[r]}
    /\ Goto(r, "getFn")

\* Variant: the lock is released after getFn has returned, not deferred.
lookupEnvironmentKeeps(r) ==
    /\ running[r] = "getFn"
    /\ \/ Refuse(r) /\ UNCHANGED locked
       \/ Kind[r] = "batch" /\ Accept(r, "error") /\ locked' = locked \ {At[r]}

\* proxyClient is not assigned anywhere, so the request to OpsRamp panics:
\* the deferred Unlock is made and panicCatcher answers 500.  Before that the
\* configured OpsrampAPI may not parse: event answers the error, and batch
\* answers it and goes on.
lookupEnvironment(r) ==
    /\ running[r] = "getFn"
    /\ locked' = locked \ {At[r]}
    /\ \/ Refuse(r)
       \/ Kind[r] = "batch" /\ Accept(r, "error")

-----------------------------------------------------------------------------
(* processEvent, for one event of a request to an incoming router.         *)

\* The event's fate and what the client is told of it: an OTLP client hears
\* nothing of a single event, processTraceRequest only logs the error.
Outcome(r, s, place, told) ==
    /\ where' = [where EXCEPT ![s] = place]
    /\ reply' = [reply EXCEPT ![s] =
                   IF Kind[r] = "otlp" THEN "accepted" ELSE told]
    /\ status' = [status EXCEPT ![r] =
                   IF Kind[r] = "event" /\ told = "refused" THEN "error" ELSE @]
    /\ todo' = [todo EXCEPT ![r] = Tail(@)]
    /\ UNCHANGED <<view, changes, running, locked>>

ToUpstream(r, s) ==
    /\ TraceOf[s] = NoTrace
    /\ Outcome(r, s, "upstream", "accepted")
    /\ UNCHANGED <<node, hops>>

\* Variant: the decision to forward is taken but the event keeps its APIHost.
ToPeerHere(r, s) ==
    /\ TraceOf[s] # NoTrace
    /\ view[At[r]][TraceOf[s]] # At[r]
    /\ Outcome(r, s, "queued", "accepted")
    /\ hops' = [hops EXCEPT ![s] = @ + 1]
    /\ UNCHANGED node

\* EnqueueEvent does not say whether the event was enqueued.
ToPeer(r, s) ==
    /\ TraceOf[s] # NoTrace
    /\ view[At[r]][TraceOf[s]] # At[r]
    /\ \E place \in {"queued", "lost"} : Outcome(r, s, place, "accepted")
    /\ node' = [node EXCEPT ![s] = view[At[r]][TraceOf[s]]]
    /\ hops' = [hops EXCEPT ![s] = @ + 1]

\* Variant: the answer does not look at what AddSpan returned.
ToCollectorDeaf(r, s) ==
    /\ TraceOf[s] # NoTrace
    /\ view[At[r]][TraceOf[s]] = At[r]
    /\ \E place \in {"collected", "refused"} : Outcome(r, s, place, "accepted")
    /\ UNCHANGED <<node, hops>>

ToCollector(r, s) ==
    /\ TraceOf[s] # NoTrace
    /\ view[At[r]][TraceOf[s]] = At[r]
    /\ \/ Outcome(r, s, "collected", "accepted")
       \/ Outcome(r, s, "refused", "refused")      \* ErrWouldBlock
    /\ UNCHANGED <<node, hops>>

\* batchedEventToEvent asks for OpsrampAPI, which may not parse.
Unconverted(r, s) ==
    /\ Kind[r] = "batch"
    /\ Outcome(r, s, "refused", "refused")
    /\ UNCHANGED <<node, hops>>

processEvent(r) ==
    /\ running[r] = "running" /\ todo[r] # <<>>
    /\ LET s == Head(todo[r])
       IN  ToUpstream(r, s) \/ ToPeer(r, s) \/ ToCollector(r, s) \/ Unconverted(r, s)

Respond(r) ==
    /\ running[r] = "running" /\ todo[r] = <<>>
    /\ Goto(r, "done")
    /\ UNCHANGED locked

-----------------------------------------------------------------------------
(* The peer's router.                                                      *)

\* Variant: the peer router asks the sharder as the incoming one does.
ForwardAgain(s) ==
    /\ where[s] = "queued"
    /\ \/ /\ view[node[s]][TraceOf[s]] = node[s]
          /\ \E place \in {"collected", "lost"} :
                where' = [where EXCEPT ![s] = place]
          /\ UNCHANGED <<node, hops>>
       \/ /\ view[node[s]][TraceOf[s]] # node[s]
          /\ node' = [node EXCEPT ![s] = view[node[s]][TraceOf[s]]]
          /\ hops' = [hops EXCEPT ![s] = IF @ < 3 THEN @ + 1 ELSE @]
          /\ UNCHANGED where
    /\ UNCHANGED <<view, changes, running, locked, todo, status, reply>>

\* One call, not retried, carries the span; the node it reaches collects it
\* whatever its own sharder says.  A failed call, a full channel to the
\* collector and an item that does not convert lose it.
ExportLogTraceProxy(s) ==
    /\ where[s] = "queued"
    /\ \E place \in {"collected", "lost"} : where' = [where EXCEPT ![s] = place]
    /\ UNCHANGED <<view, changes, running, locked, todo, status, reply, node, hops>>

Handle(r) ==
    \/ event(r) \/ batch(r) \/ Export(r) \/ processEvent(r) \/ Respond(r)
    \/ get(r) \/ lookupEnvironment(r)

Next == \/ \E n \in Nodes : loadPeerList(n)
        \/ \E r \in Requests : Handle(r)
        \/ \E s \in Spans : ExportLogTraceProxy(s)

Spec == Init /\ [][Next]_vars

\* Handlers that can go on and queued events do not all stand still.
Fairness == WF_vars((\E r \in Requests : Handle(r)) \/ \E s \in Spans : ExportLogTraceProxy(s))

FairSpec == Spec /\ Fairness

-----------------------------------------------------------------------------
(* Properties.                                                             *)

\* While no list of peers has changed, the spans of a trace are collected by
\* one node, whichever nodes received them: the point of forwarding in
\* processEvent.
OneCollectorPerTrace ==
    changes = 0 =>
        \A s, t \in Spans :
            where[s] = "collected" /\ where[t] = "collected" /\ TraceOf[s] = TraceOf[t]
                => node[s] = node[t]

\* Even when the nodes disagree about the owner, a span is passed on at most
\* once: the peer router never forwards (the test of incomingOrPeer).
AtMostOneHop == \A s \in Spans : hops[s] <= 1

\* What /1/event and /1/batch answer about an event is what became of it: one
\* refused there (429 or 400) is on no node, and one accepted was given to a
\* collector, the upstream or the queue to a peer.  A batch answered with an
\* error as a whole is not looked into: its events are processed all the same.
AnswerIsFate ==
    \A s \in Spans :
        Kind[Request[s]] \in {"event", "batch"} =>
            /\ reply[s] = "refused" <=> where[s] = "refused"
            /\ reply[s] = "none" <=> where[s] = "client"

\* Every span comes to rest and every request is answered, whatever the
\* sharders do meanwhile: no span circulates, and no handler waits for the
\* environment cache for ever, although each lookup panics in it.
RequestsSettle ==
    <>[](/\ \A s \in Spans : where[s] \notin {"client", "queued"}
         /\ \A r \in Requests : running[r] = "done")
=============================================================================
