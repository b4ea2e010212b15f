---------------------------- MODULE OutboundProxy ---------------------------
(***************************************************************************)
(* The HTTP proxies that requests to OpsRamp go through (proxy/proxy.go):  *)
(* which of the configured ones is active, the environment variables that  *)
(* tell every client, and SwitchProxy, which goroutines run when their     *)
(* requests fail.  The lock of a Proxy covers single reads and writes of   *)
(* the index, not SwitchProxy as a whole, and not the environment.         *)
(*                                                                         *)
(* A proxy is its index.  Only a configuration with proxies is modelled:   *)
(* without one nobody calls SwitchProxy.                                   *)
(***************************************************************************)
EXTENDS Integers, FiniteSets, FiniteSetsExt

CONSTANTS
    Main,           \* the goroutine of main, which switches once, at start
    Callers,        \* the others
    Configs         \* how many parts each field of the configuration has, with
                    \* a bound: changes of a proxy, and tokens that expire

Fields == {"Protocol", "Host", "Port", "Username", "Password"}
All == Callers \cup {Main}

ASSUME ProxyAssumption ==
    /\ Main \notin Callers
    /\ \A c \in Configs : c.cfg \in [Fields -> Nat \ {0}] /\ c.faults \in Nat

VARIABLES
    length,             \* len(p.proxyList)
    activeProxyIndex,
    HTTPS_PROXY, HTTP_PROXY,
    recent,             \* lastUpdated is less than a minute ago
    health,             \* "dead"; "deaf", it listens and reaches nothing; "works"
    faults,             \* how many are still to come
    switch              \* the goroutines in SwitchProxy or UpdateProxyEnvVars

envVars == <<HTTPS_PROXY, HTTP_PROXY>>
proxyVars == <<length, activeProxyIndex, envVars, recent, health, faults, switch>>

Unset == -1
Proxies == 0..(length - 1)
Working == {i \in Proxies : health[i] = "works"}

\* cfg is what GetActiveConfig returned, next what follows the update; alone
\* and before, for the properties, are whether nothing interfered and the
\* index at the beginning.
NoSwitch == [at |-> "no", next |-> "no", cfg |-> 0, rotations |-> 0, alone |-> FALSE,
             before |-> 0]

SwitchStates ==
    [at : {"no", "read", "setHTTPS", "setHTTP", "check", "rotate", "stamp", "done"},
     next : {"no", "check", "done"}, cfg : Proxies,
     rotations : 0..length, alone : BOOLEAN, before : Proxies]

ProxyTypeOK ==
    /\ length \in Nat \ {0} /\ activeProxyIndex \in Proxies
    /\ {HTTPS_PROXY, HTTP_PROXY} \subseteq Proxies \cup {Unset}
    /\ recent \in BOOLEAN /\ faults \in Nat
    /\ health \in [Proxies -> {"dead", "deaf", "works"}]
    /\ switch \in [All -> SwitchStates]

\* A proxy takes a part of each field, so the shortest field counts.
splitProxyConfig(cfg) == Min({cfg[f] : f \in Fields})

\* UpdateProxyEnvVars, and then at.
Update(s, next) == [s EXCEPT !.at = "read", !.next = next]

\* main is in SwitchProxy.
ProxyInit ==
    /\ \E c \in Configs : length = splitProxyConfig(c.cfg) /\ faults = c.faults
    /\ activeProxyIndex = 0 /\ HTTPS_PROXY = Unset /\ HTTP_PROXY = Unset
    /\ recent = FALSE
    /\ health \in [Proxies -> {"dead", "deaf", "works"}]
    /\ switch = [c \in All |-> IF c = Main THEN [Update(NoSwitch, "check") EXCEPT !.alone = TRUE]
                               ELSE NoSwitch]

Disturbed == [c \in All |-> [switch[c] EXCEPT !.alone = FALSE, !.before = 0]]

\* A proxy fails or recovers.
Flap(i) ==
    /\ faults > 0 /\ faults' = faults - 1
    /\ \E h \in {"dead", "deaf", "works"} \ {health[i]} : health' = [health EXCEPT ![i] = h]
    /\ switch' = Disturbed
    /\ UNCHANGED <<length, activeProxyIndex, envVars, recent>>

\* A minute passes.
Minute ==
    /\ recent /\ recent' = FALSE
    /\ UNCHANGED <<length, activeProxyIndex, envVars, health, faults, switch>>

-----------------------------------------------------------------------------
InSwitch == {c \in All : switch[c].at # "no"}

\* Variant: lastUpdated is taken to be set once.
allowUpdateOnce == ~recent /\ HTTPS_PROXY = Unset

\* At most one switch a minute: read here, and written when a switch is over.
allowUpdate == ~recent

\* SwitchProxy begins, and returns at once if it is too early.
SwitchProxy(c) ==
    /\ switch[c].at = "no" /\ switch[Main].at = "no"
    /\ switch' = [Disturbed EXCEPT ![c] =
                    IF allowUpdate
                    THEN [Update(NoSwitch, "check") EXCEPT !.alone = (InSwitch = {}),
                              !.before = IF InSwitch = {} THEN activeProxyIndex ELSE 0]
                    ELSE [NoSwitch EXCEPT !.at = "done"]]
    /\ UNCHANGED <<length, activeProxyIndex, envVars, recent, health, faults>>

\* The environment alone is updated.
OnlyUpdate(c) ==
    /\ switch[c].at = "no" /\ switch[Main].at = "no"
    /\ switch' = [Disturbed EXCEPT ![c] = Update(NoSwitch, "done")]
    /\ UNCHANGED <<length, activeProxyIndex, envVars, recent, health, faults>>

\* UpdateProxyEnvVars reads the configuration and sets two variables.
UpdateProxyEnvVars(c) ==
    LET s == switch[c] IN
    /\ \/ /\ s.at = "read"
          /\ switch' = [switch EXCEPT ![c].at = "setHTTPS", ![c].cfg = activeProxyIndex]
          /\ UNCHANGED envVars
       \/ /\ s.at = "setHTTPS" /\ HTTPS_PROXY' = s.cfg
          /\ switch' = [switch EXCEPT ![c].at = "setHTTP"]
          /\ UNCHANGED HTTP_PROXY
       \/ /\ s.at = "setHTTP" /\ HTTP_PROXY' = s.cfg
          /\ switch' = [switch EXCEPT ![c].at = s.next, ![c].next = "no", ![c].cfg = 0]
          /\ UNCHANGED HTTPS_PROXY
    /\ UNCHANGED <<length, activeProxyIndex, recent, health, faults>>

\* Connectivity: the active proxy can be dialled, and what the environment
\* names reaches the addresses to check.  The lock is held meanwhile, so the
\* index stays.
checkConnectivity == health[activeProxyIndex] # "dead" /\ HTTP_PROXY \in Working

checkActiveProxyStatus(c) ==
    /\ switch[c].at = "check"
    /\ switch' = [switch EXCEPT ![c].at =
                    IF ~checkConnectivity /\ switch[c].rotations < length
                    THEN "rotate" ELSE "stamp"]
    /\ UNCHANGED <<length, activeProxyIndex, envVars, recent, health, faults>>

\* Variant: the environment is not told of the rotation.
rotateProxySilent(c) ==
    /\ switch[c].at = "rotate"
    /\ activeProxyIndex' = (activeProxyIndex + 1) % length
    /\ switch' = [switch EXCEPT ![c].at = "check", ![c].rotations = @ + 1]
    /\ UNCHANGED <<length, envVars, recent, health, faults>>

\* The index past the last proxy is the first, whoever has moved it meanwhile.
rotateProxy(c) ==
    LET s == switch[c] IN
    /\ s.at = "rotate"
    /\ activeProxyIndex' = (activeProxyIndex + 1) % length
    /\ switch' = [switch EXCEPT ![c] = [Update(s, "check") EXCEPT !.rotations = s.rotations + 1]]
    /\ UNCHANGED <<length, envVars, recent, health, faults>>

\* lastUpdated is written without the lock, and the environment once more.
Stamp(c) ==
    /\ switch[c].at = "stamp"
    /\ recent' = TRUE
    /\ switch' = [switch EXCEPT ![c] = [Update(@, "done") EXCEPT !.rotations = 0]]
    /\ UNCHANGED <<length, activeProxyIndex, envVars, health, faults>>

\* What a goroutine in SwitchProxy does next, until it is done.
Switching(c) ==
    \/ UpdateProxyEnvVars(c) \/ checkActiveProxyStatus(c) \/ rotateProxy(c) \/ Stamp(c)

\* The caller goes on.
Return(c) ==
    /\ switch[c].at = "done"
    /\ switch' = [switch EXCEPT ![c] = NoSwitch]
    /\ UNCHANGED <<length, activeProxyIndex, envVars, recent, health, faults>>

\* It updates the environment once more, before it goes on.
UpdateAgain(c) ==
    /\ switch[c].at = "done"
    /\ switch' = [Disturbed EXCEPT ![c] = Update(NoSwitch, "done")]
    /\ UNCHANGED <<length, activeProxyIndex, envVars, recent, health, faults>>

\* A fault elsewhere.
Fault ==
    /\ faults > 0 /\ faults' = faults - 1
    /\ UNCHANGED <<length, activeProxyIndex, envVars, recent, health, switch>>

\* All that callers, and the world, may do to the proxies.
ProxyNext ==
    \/ \E c \in All : SwitchProxy(c) \/ OnlyUpdate(c) \/ Switching(c) \/ Return(c) \/ UpdateAgain(c)
    \/ \E i \in Proxies : Flap(i)
    \/ Minute \/ Fault
=============================================================================
