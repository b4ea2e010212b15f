----------------------------- MODULE MetricsPush ----------------------------
(***************************************************************************)
(* The outbound proxies together with everyone who uses them: the gRPC     *)
(* calls of the transmissions (pkg/libtrace/transmission/auth.go, conn.go; *)
(* their retries are in module Upstream) and the goroutines that push the  *)
(* metrics of the process (metrics/opsramp.go: the loop of Start, Push     *)
(* from its request on, Send, RenewOAuthToken, RenewClient).  Each goes    *)
(* through the proxy that the environment names at that moment.            *)
(***************************************************************************)
EXTENDS OutboundProxy

CONSTANTS
    GrpcCalls,      \* goroutines with a gRPC call
    Pushers         \* goroutines that push metrics, one per prefix

ASSUME PushAssumption == GrpcCalls \cup Pushers = Callers /\ GrpcCalls \cap Pushers = {}

VARIABLES
    grpc,           \* what a gRPC call does after a switch
    push,           \* where a pusher is, and where its RenewOAuthToken returns to
    oAuthToken,     \* "none", "unscoped", "good", or "expired"
    scope           \* tokens are issued with the scope metrics:write

pushVars == <<push, oAuthToken>>
vars == <<proxyVars, grpc, pushVars, scope>>

TypeOK ==
    /\ ProxyTypeOK
    /\ grpc \in [GrpcCalls -> {"idle", "switch", "renew"}]
    /\ push \in [Pushers -> [at : {"start", "tick", "send", "switchSend", "resend", "repeat",
                                   "pushed", "token", "switchToken", "retoken"},
                             back : {"tick", "repeat"}]]
    /\ oAuthToken \in [Pushers -> {"none", "unscoped", "good", "expired"}]
    /\ scope \in BOOLEAN

\* The pushers have started, and Populate updates the environment.
Init ==
    /\ ProxyInit
    /\ grpc = [c \in GrpcCalls |-> "idle"]
    /\ push = [p \in Pushers |-> [at |-> "start", back |-> "tick"]]
    /\ oAuthToken = [p \in Pushers |-> "none"]
    /\ scope \in BOOLEAN

\* The dialer of the gRPC connections goes through the proxy that HTTP_PROXY
\* names, requests over https through that of HTTPS_PROXY.
Dialed == HTTP_PROXY \in Working
Reached == HTTPS_PROXY \in Working

\* A request fails with an error that names a refused connection or an
\* unreachable host; what a proxy that listens answers may read either way.
Refused == {health[HTTPS_PROXY] = "dead", TRUE}

-----------------------------------------------------------------------------
\* A call fails as Unavailable, and its retry switches; or the token is
\* renewed, which updates the environment.
Invoke(c) ==
    /\ grpc[c] = "idle"
    /\ \/ ~Dialed /\ SwitchProxy(c) /\ grpc' = [grpc EXCEPT ![c] = "switch"]
       \/ Dialed /\ OnlyUpdate(c) /\ grpc' = [grpc EXCEPT ![c] = "renew"]
    /\ UNCHANGED <<pushVars, scope>>

\* RenewConnection, whether or not SwitchProxy did anything, updates the
\* environment again before it dials.
RenewConnectionUpdates(c) ==
    /\ grpc[c] = "switch" /\ UpdateAgain(c)
    /\ grpc' = [grpc EXCEPT ![c] = "renew"]
    /\ UNCHANGED <<pushVars, scope>>

ConnectionRenewed(c) ==
    /\ grpc[c] = "renew" /\ Return(c)
    /\ grpc' = [grpc EXCEPT ![c] = "idle"]
    /\ UNCHANGED <<pushVars, scope>>

-----------------------------------------------------------------------------
Goto(p, at) == push' = [push EXCEPT ![p].at = at]
Stay == UNCHANGED <<proxyVars, grpc, scope>>

\* RenewOAuthToken begins by forgetting the token it has.
RenewOAuthToken(p, back) ==
    /\ push' = [push EXCEPT ![p] = [at |-> "token", back |-> back]]
    /\ oAuthToken' = [oAuthToken EXCEPT ![p] = "none"]

\* Populate, and the first token.
Populate(p) ==
    /\ push[p].at = "start"
    /\ \/ OnlyUpdate(p) /\ UNCHANGED pushVars
       \/ Return(p) /\ RenewOAuthToken(p, "tick")
    /\ UNCHANGED <<grpc, scope>>

\* Variant: a push without the scope is only logged.
StartLogs(p) ==
    /\ push[p].at = "tick"
    /\ IF oAuthToken[p] \in {"none", "unscoped"}
       THEN UNCHANGED pushVars
       ELSE Goto(p, "send") /\ UNCHANGED oAuthToken
    /\ Stay

\* A tick: Push refuses a token without the scope, and the loop renews it.
Start(p) ==
    /\ push[p].at = "tick"
    /\ IF oAuthToken[p] \in {"none", "unscoped"}
       THEN RenewOAuthToken(p, "tick")
       ELSE Goto(p, "send") /\ UNCHANGED oAuthToken
    /\ Stay

\* The first request of Send.  A status other than success and 407 ends it.
Send(p) ==
    /\ push[p].at = "send"
    /\ \/ Reached /\ oAuthToken[p] = "good" /\ Goto(p, "pushed") /\ UNCHANGED oAuthToken
       \/ Reached /\ oAuthToken[p] = "expired" /\ RenewOAuthToken(p, "repeat")
       \/ /\ ~Reached /\ UNCHANGED oAuthToken
          /\ \E refused \in Refused : Goto(p, IF refused THEN "switchSend" ELSE "tick")
    /\ Stay

\* The request again, with a new client, after a switch.
Resend(p) ==
    /\ push[p].at = "resend"
    /\ \/ Reached /\ oAuthToken[p] = "good" /\ Goto(p, "pushed") /\ UNCHANGED oAuthToken
       \/ Reached /\ oAuthToken[p] = "expired" /\ RenewOAuthToken(p, "repeat")
       \/ ~Reached /\ Goto(p, "tick") /\ UNCHANGED oAuthToken
    /\ Stay

\* The request once more with the new token, whatever its scope.  Its body
\* has been read: whether it still goes through is up to net/http.
Repeat(p) ==
    /\ push[p].at = "repeat"
    /\ \/ Goto(p, "tick")
       \/ Reached /\ oAuthToken[p] = "good" /\ Goto(p, "pushed")
    /\ UNCHANGED oAuthToken /\ Stay

\* The answer to a push is logged.
Pushed(p) ==
    /\ push[p].at = "pushed" /\ Goto(p, "tick")
    /\ UNCHANGED oAuthToken /\ Stay

\* A token is requested; a failure leaves none, and ends a Send.
Token(p) ==
    LET give == /\ oAuthToken' = [oAuthToken EXCEPT ![p] = IF scope THEN "good" ELSE "unscoped"]
                /\ Goto(p, push[p].back)
        fail(at) == Goto(p, at) /\ UNCHANGED oAuthToken
    IN /\ \/ push[p].at \in {"token", "retoken"} /\ Reached /\ give
          \/ /\ push[p].at = "token" /\ ~Reached
             /\ \E refused \in Refused : fail(IF refused THEN "switchToken" ELSE "tick")
          \/ push[p].at = "retoken" /\ ~Reached /\ fail("tick")
       /\ Stay

\* SwitchProxy, and RenewClient, before a request is made again.
PushSwitch(p) ==
    /\ push[p].at \in {"switchSend", "switchToken"}
    /\ \/ SwitchProxy(p) /\ UNCHANGED push
       \/ Return(p) /\ Goto(p, IF push[p].at = "switchSend" THEN "resend" ELSE "retoken")
    /\ UNCHANGED <<grpc, oAuthToken, scope>>

\* The server: a token expires, and the scope is granted.
Expire(p) ==
    /\ oAuthToken[p] = "good" /\ Fault
    /\ oAuthToken' = [oAuthToken EXCEPT ![p] = "expired"]
    /\ UNCHANGED <<grpc, push, scope>>

Grant ==
    /\ ~scope /\ scope' = TRUE
    /\ UNCHANGED <<proxyVars, grpc, pushVars>>

-----------------------------------------------------------------------------
\* main goes on.
Started == Return(Main) /\ UNCHANGED <<grpc, pushVars, scope>>

SwitchStep(c) == Switching(c) /\ UNCHANGED <<grpc, pushVars, scope>>
CallStep(c) == RenewConnectionUpdates(c) \/ ConnectionRenewed(c)
PushStep(p) ==
    \/ Populate(p) \/ Start(p) \/ Send(p) \/ Resend(p) \/ Repeat(p) \/ Pushed(p) \/ Token(p)
    \/ PushSwitch(p)
Outside == (Minute \/ \E i \in Proxies : Flap(i)) /\ UNCHANGED <<grpc, pushVars, scope>>

Next ==
    \/ Started \/ \E c \in All : SwitchStep(c)
    \/ \E c \in GrpcCalls : Invoke(c) \/ CallStep(c)
    \/ \E p \in Pushers : PushStep(p) \/ Expire(p)
    \/ Grant \/ Outside

Spec == Init /\ [][Next]_vars

\* Goroutines run, tickers tick, minutes pass, calls keep being made, and the
\* tokens of those that get through expire.
Fairness ==
    /\ WF_vars(Started) /\ \A c \in All : WF_vars(SwitchStep(c))
    /\ \A c \in GrpcCalls : WF_vars(CallStep(c)) /\ WF_vars(Invoke(c))
    /\ \A p \in Pushers : WF_vars(PushStep(p))
    /\ WF_vars(Minute /\ UNCHANGED <<grpc, pushVars, scope>>)
FairSpec == Spec /\ Fairness

-----------------------------------------------------------------------------
\* SwitchProxy, when nobody else switched and no proxy changed meanwhile,
\* ends on the first working proxy at or after the one it began with, or on
\* that one if none works, and both variables of the environment name it.
SettlesAlone ==
    \A c \in All : switch[c].at = "done" /\ switch[c].alone =>
        LET ahead(i) == (i - switch[c].before + length) % length
            best == IF Working = {} THEN switch[c].before
                    ELSE CHOOSE i \in Working : \A j \in Working : ahead(i) <= ahead(j)
        IN {activeProxyIndex, HTTPS_PROXY, HTTP_PROXY} = {best}

\* A rotation within a minute of another switch is the work of a SwitchProxy
\* that overlapped it: allowUpdate keeps apart those that do not.
NoHaste ==
    [][\A c \in All : activeProxyIndex' # activeProxyIndex /\ switch'[c] # switch[c] =>
         ~(recent /\ switch[c].alone)]_vars

Lonely == <>[](Cardinality(InSwitch) <= 1)

\* If some proxy works from some time on, and switches stop overlapping,
\* gRPC calls and https requests end up going through a proxy that works,
\* also when switches in lockstep have left the two variables that name it
\* with different ones.
Converges == Lonely /\ <>[](Working # {}) => <>[](Dialed /\ Reached)

\* Then, if tokens come to have the scope, every pusher keeps getting its
\* metrics through, however its earlier tokens and pushes failed.
PushesGetThrough ==
    \A p \in Pushers : Lonely /\ <>[](Working # {}) /\ <>scope => []<>(push[p].at = "pushed")
=============================================================================
