------------------------------ MODULE Upstream ------------------------------
(***************************************************************************)
(* How calls reach OpsRamp: the interceptor every gRPC call of a           *)
(* transmission goes through, the token it sends along, the connection it  *)
(* replaces when a proxy is in the way (pkg/libtrace/transmission/auth.go, *)
(* conn.go), its back-off (pkg/retry/retry.go), the availability that a    *)
(* renewal of the token announces (status.go), and what follows from that: *)
(* whether this node keeps itself registered as a peer                     *)
(* (internal/peer/redis.go).                                               *)
(*                                                                         *)
(* Tokens are numbers, counted as they are made; 0 is no token.  The trace *)
(* and the log connection are renewed together, so a call only knows       *)
(* whether the one it has is still open.  SwitchProxy, which precedes a    *)
(* renewal of the connection, is module OutboundProxy.                     *)
(***************************************************************************)
EXTENDS Naturals, FiniteSets

CONSTANTS
    N,              \* number of calls, each by a goroutine that fires a batch
    Lifetime,       \* heartbeats an entry in redis outlives: 10 s to 3 s
    RedisCalls,     \* bound: how many of them when peers come from redis
    MaxTicks,       \* bound: retries before the back-off stops
    MaxNotices,     \* bound: announcements under way
    MaxChanges,     \* bound: changes of what is outside, and with a peer file
    MaxFileChanges

ASSUME UpstreamAssumption ==
    /\ N \in Nat /\ RedisCalls \in 0..N
    /\ Lifetime \in Nat \ {0} /\ MaxTicks \in Nat
    /\ MaxNotices \in Nat \ {0} /\ MaxChanges \in Nat /\ MaxFileChanges \in 0..MaxChanges

Calls == 1..N
\* Who renews besides the calls: TraceProxy.Start and the goroutine of
\* Auth.Start.
Starter == 0
Live == N + 1
Renewers == 0..(N + 1)
\* DeadlineExceeded is treated like Unavailable; Aborted, OutOfRange and
\* DataLoss like Canceled; every other code like ResourceExhausted without a
\* RetryInfo.
Codes == {"OK", "Canceled", "Unavailable", "Unauthenticated", "ResourceExhausted"}

VARIABLES
    proxied,      \* Proxy.Enabled()
    up,           \* OpsRamp is reachable
    issuing,      \* the token service: "good", "empty" answers, or "broken"
    issued,       \* the last token it gave out
    expired,      \* tokens up to this one are refused
    redisUp,
    changes,
    token,        \* oauth.authToken
    renew,        \* who is in Renew: "asking" holds the lock, "queued" waits
    call,         \* open: its connection is; taken: OpsRamp has its data;
                  \* first: the code of its first attempt; refused: the last
                  \* one was for its token;
                  \* got: 1 + the token its Renew returned, 0 if it made none
    notices,      \* goroutines that wait to send TRUE or FALSE to notifyStatus
    online,
    waited,       \* newRedisPeers has slept at least once
    node,         \* "none" with a peer file; "waiting", "registered", "failed", "stopped"
    entry         \* heartbeats until the entry in redis expires; 0 is none

outsideVars == <<proxied, up, issuing, expired, redisUp, changes>>
authVars == <<issued, token, renew, notices>>
nodeVars == <<online, waited, node, entry>>
upstreamVars == <<outsideVars, authVars, call, nodeVars>>

\* A call that keeps only how far it got.
Bare(at, taken) ==
    [at |-> at, first |-> "OK", refused |-> FALSE, open |-> FALSE, taken |-> taken,
     token |-> 0, ticks |-> 0, got |-> 0]
NoCall == Bare("idle", FALSE)
Places == {"idle", "token", "flying", "waiting", "conn", "renew", "ok", "failed",
           "exhausted"}
Returned == {"ok", "failed", "exhausted"}

UpstreamTypeOK ==
    /\ {proxied, up, redisUp, online, waited} \subseteq BOOLEAN
    /\ issuing \in {"good", "empty", "broken"}
    /\ changes \in 0..MaxChanges
    /\ issued \in 0..(MaxChanges + 1) /\ expired \in 0..issued /\ token \in 0..issued
    /\ renew \in [Renewers -> {"no", "asking", "queued"}]
    /\ call \in [Calls -> [at : Places, first : Codes, refused : BOOLEAN, open : BOOLEAN,
                           taken : BOOLEAN, token : 0..issued, ticks : 0..MaxTicks, got : 0..(issued + 1)]]
    /\ notices \in [BOOLEAN -> 0..MaxNotices]
    /\ node \in {"none", "waiting", "registered", "failed", "stopped"}
    /\ entry \in 0..Lifetime

\* TraceProxy.Start is in its first Renew.
UpstreamInit ==
    /\ proxied \in BOOLEAN
    /\ issuing \in {"good", "broken"}
    /\ issued = 0 /\ expired = 0 /\ changes = 0 /\ token = 0
    /\ renew = [r \in Renewers |-> IF r = Starter THEN "asking" ELSE "no"]
    /\ notices = [b \in BOOLEAN |-> 0] /\ online = FALSE
    /\ waited = FALSE /\ entry = 0
    /\ \/ node = "none" /\ redisUp = FALSE /\ up \in BOOLEAN /\ call = [c \in Calls |-> NoCall]
       \/ /\ node = "waiting" /\ redisUp \in BOOLEAN /\ up = TRUE
          /\ call = [c \in Calls |-> IF c <= RedisCalls THEN NoCall ELSE Bare("failed", FALSE)]

\* OpsRamp comes and goes, tokens expire, the token service and redis change.
Change ==
    /\ changes < (IF node = "none" THEN MaxFileChanges ELSE MaxChanges) /\ changes' = changes + 1
    /\ \/ up' = ~up /\ UNCHANGED <<issuing, expired, redisUp>>
       \/ /\ issuing' \in {"good", "empty", "broken"} \ {issuing}
          /\ UNCHANGED <<up, expired, redisUp>>
       \/ expired # issued /\ expired' = issued /\ UNCHANGED <<up, issuing, redisUp>>
       \/ node # "none" /\ redisUp' = ~redisUp /\ UNCHANGED <<up, issuing, expired>>
    /\ UNCHANGED <<proxied, authVars, call, nodeVars>>

-----------------------------------------------------------------------------
(* Renew                                                                   *)

Asking == \E r \in Renewers : renew[r] = "asking"

\* A call that is about to read the token may hold the read lock.
MayRead(r) == \E c \in Calls \ {r} : call[c].at = "token"

\* TryLock fails while somebody renews, or reads.
TryLock(r) ==
    /\ \/ ~Asking /\ renew' = [renew EXCEPT ![r] = "asking"]
       \/ (Asking \/ MayRead(r)) /\ renew' = [renew EXCEPT ![r] = "queued"]
    /\ UNCHANGED <<issued, token, notices>>

\* The service gives out a token again as long as it is good.
Issue == IF issued > expired THEN issued ELSE issued + 1

Announceable == notices[TRUE] + notices[FALSE] < MaxNotices

\* Renew, holding the lock (the Auth of the peers' transmission has a lock and
\* a token of its own, but the same availability): a good answer replaces the token; an answer is
\* announced, by a goroutine of its own, a failure to get one is not.
Renew(r) ==
    /\ renew[r] = "asking" /\ Announceable
    /\ renew' = [renew EXCEPT ![r] = "no"]
    /\ issued' = IF issuing = "good" THEN Issue ELSE issued
    /\ token' = IF issuing = "good" THEN issued' ELSE token
    /\ notices' = IF issuing = "broken" THEN notices
                  ELSE [notices EXCEPT ![issuing = "good"] = @ + 1]

\* Who found the lock taken returns with the token that is there, when it is
\* free again.
Served(r) ==
    /\ renew[r] = "queued" /\ ~Asking
    /\ renew' = [renew EXCEPT ![r] = "no"]
    /\ UNCHANGED <<issued, token, notices>>

StartRenews ==
    /\ Renew(Starter)
    /\ UNCHANGED <<outsideVars, call, nodeVars>>

\* The goroutine of Auth.Start: while the node is offline, every tick renews.
Liveliness ==
    /\ \/ renew[Live] = "no" /\ renew[Starter] = "no" /\ ~online /\ TryLock(Live)
       \/ Renew(Live) \/ Served(Live)
    /\ UNCHANGED <<outsideVars, call, nodeVars>>

\* The goroutines that announce get through in any order.
Set(b) ==
    /\ notices[b] > 0
    /\ notices' = [notices EXCEPT ![b] = @ - 1]
    /\ online' = b
    /\ UNCHANGED <<outsideVars, issued, token, renew, call, waited, node, entry>>

-----------------------------------------------------------------------------
(* UnaryClientInterceptor                                                  *)

shouldRetry(code, retryInfo) ==
    \/ code \in {"Canceled", "Unavailable", "Unauthenticated"}
    \/ code = "ResourceExhausted" /\ retryInfo

\* Calls are counted as they begin.
Begin(c) ==
    /\ call[c].at = "idle" /\ renew[Starter] = "no"
    /\ c > 1 => call[c - 1].at # "idle"
    /\ call' = [call EXCEPT ![c].at = "token", ![c].open = TRUE]
    /\ UNCHANGED <<outsideVars, authVars, nodeVars>>

\* GetToken waits for a Renew to end.
GetToken(c) ==
    /\ call[c].at = "token" /\ ~Asking
    /\ call' = [call EXCEPT ![c].at = "flying", ![c].token = token]
    /\ UNCHANGED <<outsideVars, authVars, nodeVars>>

\* What the invoker may return, and whether OpsRamp has the data then: an
\* answer can be lost on the way.
Answers(c) ==
    IF ~call[c].open THEN {"Canceled"} \X BOOLEAN
    ELSE IF ~up THEN {"Unavailable"} \X BOOLEAN
    ELSE IF call[c].token <= expired THEN {<<"Unauthenticated", FALSE>>}
    ELSE {<<"OK", TRUE>>, <<"ResourceExhausted", FALSE>>}

\* The invoker returns.  err keeps the error of the first attempt: in the loop
\* the others are assigned to a variable that shadows it.
Invoked(c) ==
    /\ call[c].at = "flying"
    /\ \E answer \in Answers(c), retryInfo \in BOOLEAN :
          LET code == answer[1]
              first == call[c].ticks = 0
          IN /\ call' = [call EXCEPT ![c] =
                    IF code = "OK" THEN Bare("ok", answer[2])
                    ELSE IF ~shouldRetry(code, retryInfo) THEN Bare("failed", FALSE)
                    ELSE [call[c] EXCEPT !.at = "waiting", !.token = 0, !.got = 0,
                                         !.taken = call[c].taken \/ answer[2],
                                         !.refused = code = "Unauthenticated",
                                         !.first = IF first THEN code ELSE call[c].first]]
    /\ UNCHANGED <<outsideVars, authVars, nodeVars>>

\* Variant: when the retries are over there is no error.
StopIsOK(c) ==
    /\ call[c].at = "waiting"
    /\ call' = [call EXCEPT ![c] = Bare("ok", call[c].taken)]
    /\ UNCHANGED <<outsideVars, authVars, nodeVars>>

\* Variant: the goroutine that ticks never stops.
StopNever(c) == FALSE /\ UNCHANGED upstreamVars

\* The back-off goroutine stops: its time is over, as the retry settings say.
Stop(c) ==
    /\ call[c].at = "waiting"
    /\ call' = [call EXCEPT ![c] = Bare("exhausted", FALSE)]
    /\ UNCHANGED <<outsideVars, authVars, nodeVars>>

\* RenewConnection closes the connection, whoever uses it, and makes another
\* one to the same address, which cannot fail where the first did not.
RenewConnection == [c \in Calls |-> [call[c] EXCEPT !.open = FALSE]]

\* Variant: the next attempt reads the token before it is renewed.
TickKeepsToken(c) ==
    /\ call[c].at = "waiting" /\ call[c].ticks < MaxTicks
    /\ \/ /\ call[c].first = "Unavailable" /\ proxied
          /\ call' = [RenewConnection EXCEPT ![c].at = "conn", ![c].ticks = call[c].ticks + 1]
       \/ /\ call[c].first = "Unavailable" => ~proxied
          /\ call' = [call EXCEPT ![c].at = "token", ![c].ticks = call[c].ticks + 1]
    /\ UNCHANGED <<outsideVars, authVars, nodeVars>>

\* The back-off ticks: what is done before the next attempt depends on err.
Tick(c) ==
    /\ call[c].at = "waiting" /\ call[c].ticks < MaxTicks
    /\ \/ /\ call[c].first = "Unavailable" /\ proxied
          /\ call' = [RenewConnection EXCEPT ![c].at = "conn", ![c].ticks = call[c].ticks + 1]
          /\ UNCHANGED authVars
       \/ /\ call[c].first = "Unauthenticated"
          /\ TryLock(c)
          /\ call' = [call EXCEPT ![c].at = "renew", ![c].ticks = call[c].ticks + 1]
       \/ /\ call[c].first # "Unauthenticated"
          /\ call[c].first = "Unavailable" => ~proxied
          /\ call' = [call EXCEPT ![c].at = "token", ![c].ticks = call[c].ticks + 1]
          /\ UNCHANGED authVars
    /\ UNCHANGED <<outsideVars, nodeVars>>

\* GetTraceConn and GetLogConn: by now the connection may be another call's.
GetConn(c) ==
    /\ call[c].at = "conn"
    /\ call' = [call EXCEPT ![c].at = "token", ![c].open = TRUE]
    /\ UNCHANGED <<outsideVars, authVars, nodeVars>>

\* The call's own Renew returns; an error of it ends the call.
Renewed(c) ==
    /\ call[c].at = "renew"
    /\ \/ /\ Renew(c)
          /\ call' = [call EXCEPT ![c] =
                IF issuing = "broken" THEN Bare("failed", FALSE)
                ELSE [call[c] EXCEPT !.at = "token", !.got = token' + 1]]
       \/ Served(c) /\ call' = [call EXCEPT ![c].at = "token", ![c].got = token + 1]
    /\ UNCHANGED <<outsideVars, nodeVars>>
-----------------------------------------------------------------------------
(* This node among the peers                                               *)

\* newRedisPeers looks every 5 seconds whether the node is online, and
\* registers when it is.  The context that main gave it covers one PeerTimeout,
\* so after a wait it may be over; the process ends if Register fails.
newRedisPeers ==
    /\ node = "waiting" /\ renew[Starter] = "no"
    /\ \/ ~online /\ waited' = TRUE /\ UNCHANGED <<node, entry>>
       \/ /\ online /\ redisUp
          /\ node' = "registered" /\ entry' = Lifetime /\ waited' = FALSE
       \/ /\ online /\ (~redisUp \/ waited)
          /\ node' = "failed" /\ waited' = FALSE /\ UNCHANGED entry
    /\ UNCHANGED <<outsideVars, authVars, call, online>>

Older == IF entry = 0 THEN 0 ELSE entry - 1

\* Variant: an entry that has expired is not made again.
HeartbeatRefreshes ==
    /\ node = "registered"
    /\ entry' = IF online /\ redisUp /\ entry > 0 THEN Lifetime ELSE Older
    /\ UNCHANGED <<outsideVars, authVars, call, online, waited, node>>

\* A heartbeat skips the refresh while the node is offline.
Heartbeat ==
    /\ node = "registered"
    /\ entry' = IF online /\ redisUp THEN Lifetime ELSE Older
    /\ UNCHANGED <<outsideVars, authVars, call, online, waited, node>>

\* The process is told to end, and the entry is removed if redis answers.
Unregister ==
    /\ node = "registered"
    /\ node' = "stopped" /\ entry' = IF redisUp THEN 0 ELSE Older
    /\ UNCHANGED <<outsideVars, authVars, call, online, waited>>

registerSelf == Heartbeat \/ Unregister

\* Redis expires an entry that nobody refreshes.
Expires ==
    /\ node = "stopped" /\ entry > 0
    /\ entry' = entry - 1
    /\ UNCHANGED <<outsideVars, authVars, call, online, waited, node>>

-----------------------------------------------------------------------------
Proceed(c) ==
    GetToken(c) \/ Invoked(c) \/ Stop(c) \/ Tick(c) \/ GetConn(c) \/ Renewed(c)

UpstreamNext ==
    \/ Change \/ StartRenews \/ Liveliness
    \/ \E b \in BOOLEAN : Set(b)
    \/ \E c \in Calls : Begin(c) \/ Proceed(c)
    \/ newRedisPeers \/ registerSelf \/ Expires

UpstreamSpec == UpstreamInit /\ [][UpstreamNext]_upstreamVars

\* Goroutines under way go on, tickers tick, and the network returns an answer
\* or the timeout of the call does.  Whoever waits to read the token gets the
\* lock when a renewal ends (RWMutex lets waiting readers in first), so calls
\* are not kept out by one renewal after the other.  The process need not be
\* told to end.
UpstreamFairness ==
    /\ WF_upstreamVars(StartRenews \/ Liveliness)
    /\ WF_upstreamVars(Set(TRUE)) /\ WF_upstreamVars(Set(FALSE))
    /\ SF_upstreamVars(\E c \in Calls : Proceed(c))
    /\ WF_upstreamVars(newRedisPeers \/ Heartbeat \/ Expires)

UpstreamFairSpec == UpstreamSpec /\ UpstreamFairness

-----------------------------------------------------------------------------
\* A call that reports success has been taken by OpsRamp, however often it was
\* repeated and whichever of its answers were lost (the caller counts it as
\* batches_sent and forgets the spans).
OKMeansDelivered == \A c \in Calls : call[c].at = "ok" => call[c].taken

\* A call whose first attempt was refused for its token asks for another before
\* each further attempt, whatever that one meets, and goes out with a token at
\* least as new as Renew returned, whoever renews meanwhile.
FirstRefusalRenews ==
    \A c \in Calls :
        call[c].at = "flying" /\ call[c].first = "Unauthenticated" =>
            call[c].got > 0 /\ call[c].token + 1 >= call[c].got

\* What the interceptor says of itself ("renew oauth token here before retry"):
\* a call asks for another token before it is repeated whenever the attempt
\* before was refused for its token.  This does not hold: see RetryUnrenewed.cfg.
RenewedBeforeRetry ==
    \A c \in Calls :
        call[c].at = "flying" /\ call[c].refused => call[c].got > 0

\* Every call returns: with an answer, or when its back-off stops.
CallsReturn ==
    (\E c \in Calls : call[c].at \notin {"idle"} \cup Returned)
        ~> (\A c \in Calls : call[c].at \in {"idle"} \cup Returned)

\* Registration follows availability.  Once the token service and redis work,
\* the node is registered and stays so, although the announcement of an earlier
\* refusal may come after that of a later success, unless it has given up
\* starting or is told to end.  A node that is offline for good, or has ended,
\* leaves the peers to others.
RingFollows ==
    /\ <>[](issuing = "good" /\ redisUp)
         => <>[](entry > 0 \/ node \in {"failed", "stopped"})
    /\ <>[](~online \/ node = "stopped") => <>[](entry = 0)
=============================================================================
