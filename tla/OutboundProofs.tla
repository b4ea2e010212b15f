--------------------------- MODULE OutboundProofs ---------------------------
(***************************************************************************)
(* Proofs about the connections out of the node: the switch of proxies     *)
(* that every goroutine with a failed request may begin, for any number of *)
(* proxies, callers and faults; and the calls that export spans, with      *)
(* their retries and the renewals of the token, for any number of them.    *)
(***************************************************************************)
EXTENDS MetricsPush, Upstream, TLAPS

-----------------------------------------------------------------------------
(* A switch of proxies. The invariant says of a switch that nothing has    *)
(* interfered with: nobody else is switching, lastUpdated is old until the *)
(* switch is over, the environment is what the switch has made it, and the *)
(* proxies it has passed do not work.                                      *)

(* Where an index is after k rotations, at most a full turn.               *)
Plus(b, k) == IF b + k < length THEN b + k ELSE b + k - length

(* How far an index is ahead of another one.                               *)
Ahead(i, b) == IF i >= b THEN i - b ELSE i - b + length

Updating(c) == switch[c].at \in {"read", "setHTTPS", "setHTTP"}
Searching(c) ==
    switch[c].at \in {"check", "rotate", "stamp"} \/ (Updating(c) /\ switch[c].next = "check")
Ended(c) == switch[c].at = "done" \/ (Updating(c) /\ switch[c].next = "done")

(* The proxy a switch that began at b should end on.                       *)
IsBest(i, b) ==
    IF Working = {} THEN i = b
    ELSE i \in Working /\ \A j \in Working : Ahead(i, b) <= Ahead(j, b)

(* The search of c began at an index, and passed no proxy that works.      *)
Passed(c) ==
    LET s == switch[c] IN
    /\ ~recent /\ activeProxyIndex = Plus(s.before, s.rotations)
    /\ \A k \in 0..(s.rotations - 1) : Plus(s.before, k) \notin Working

(* The environment is as far as c has updated it.                          *)
Told(c) ==
    LET s == switch[c] IN
    /\ s.at \in {"setHTTPS", "setHTTP"} => s.cfg = activeProxyIndex
    /\ s.at = "setHTTP" => HTTPS_PROXY = activeProxyIndex
    /\ s.at \in {"check", "rotate", "stamp", "done"} =>
         HTTPS_PROXY = activeProxyIndex /\ HTTP_PROXY = activeProxyIndex

(* What holds of a switch that nothing has interfered with.                *)
AloneInv(c) ==
    LET s == switch[c] IN
    /\ \A d \in All : d # c => switch[d].at = "no"
    /\ Searching(c) => Passed(c)
    /\ Told(c)
    /\ s.at = "rotate" => activeProxyIndex \notin Working
    /\ s.at = "stamp" => activeProxyIndex \in Working \/ s.rotations = length
    /\ Ended(c) => IsBest(activeProxyIndex, s.before)

IInv ==
    /\ ProxyTypeOK
    /\ \A c \in All : switch[c].at = "rotate" => switch[c].rotations < length
    /\ \A c \in All : switch[c].alone => (Searching(c) \/ Ended(c)) /\ AloneInv(c)

-----------------------------------------------------------------------------
(* The remainder of a number below twice the divisor.                      *)
LEMMA ModTurn ==
    ASSUME NEW n \in Nat \ {0}, NEW x \in Nat, x < n + n
    PROVE x % n = IF x < n THEN x ELSE x - n
  OBVIOUS

(* The shortest field has a part at least: splitProxyConfig finds proxies. *)
LEMMA SplitNat ==
    ASSUME NEW cfg \in [Fields -> Nat \ {0}]
    PROVE splitProxyConfig(cfg) \in Nat \ {0}
<1> DEFINE S == {cfg[f] : f \in Fields}
<1>1. \A x \in S : x \in Nat \ {0}
  OBVIOUS
<1>2. \E x \in S : \A y \in S : x <= y
  <2>1. PICK a \in {"Protocol", "Host"} : \A f \in {"Protocol", "Host"} : cfg[a] <= cfg[f]
    BY DEF Fields
  <2>2. PICK b \in {a, "Port"} : \A f \in {"Protocol", "Host", "Port"} : cfg[b] <= cfg[f]
    BY <2>1 DEF Fields
  <2>3. PICK c \in {b, "Username"} :
          \A f \in {"Protocol", "Host", "Port", "Username"} : cfg[c] <= cfg[f]
    BY <2>1, <2>2 DEF Fields
  <2>4. PICK d \in {c, "Password"} : \A f \in Fields : cfg[d] <= cfg[f]
    BY <2>1, <2>2, <2>3 DEF Fields
  <2>5. d \in Fields
    BY <2>1, <2>2, <2>3, <2>4 DEF Fields
  <2> QED
    BY <2>4, <2>5
<1> QED
  BY <1>1, <1>2 DEF splitProxyConfig, Min

(* A search that passed only proxies that do not work, and stops at one    *)
(* that does or after a full turn, stops where it should.                  *)
LEMMA SearchFindsBest ==
    ASSUME ProxyTypeOK, NEW b \in Proxies, NEW r \in 0..length,
           activeProxyIndex = Plus(b, r),
           \A k \in 0..(r - 1) : Plus(b, k) \notin Working,
           activeProxyIndex \in Working \/ r = length
    PROVE IsBest(activeProxyIndex, b)
<1> USE DEF Plus, Ahead, Proxies
<1>0. length \in Nat \ {0} /\ Working \subseteq Proxies
  BY DEF ProxyTypeOK, Working
<1>1. \A i \in Proxies : Ahead(i, b) \in 0..(length - 1) /\ Plus(b, Ahead(i, b)) = i
  BY <1>0
<1>2. \A i \in Working : Ahead(i, b) >= r
  <2>1. SUFFICES ASSUME NEW i \in Working, Ahead(i, b) < r
                 PROVE FALSE
    BY <1>0, <1>1
  <2>2. Ahead(i, b) \in 0..(r - 1) /\ Plus(b, Ahead(i, b)) = i
    BY <1>0, <1>1, <2>1
  <2> HIDE DEF Plus, Ahead
  <2> QED
    BY <2>1, <2>2
<1>3. CASE r = length
  <2>1. Working = {} /\ activeProxyIndex = b
    BY <1>0, <1>1, <1>2, <1>3
  <2> QED
    BY <2>1 DEF IsBest
<1>4. CASE r # length
  <2>1. activeProxyIndex \in Working /\ Ahead(activeProxyIndex, b) = r
    BY <1>0, <1>4
  <2> HIDE DEF Ahead
  <2> QED
    BY <1>1, <1>2, <2>1 DEF IsBest
<1> QED
  BY <1>3, <1>4

-----------------------------------------------------------------------------
(* The state of a switch with one field replaced is one again.             *)
LEMMA FieldTypes ==
    ASSUME length \in Nat \ {0}, NEW s \in SwitchStates
    PROVE /\ \A a \in {"setHTTPS", "setHTTP", "check", "rotate", "stamp", "done", "no"} :
               [s EXCEPT !.at = a] \in SwitchStates
          /\ [s EXCEPT !.next = "no"] \in SwitchStates
          /\ \A i \in Proxies : [s EXCEPT !.cfg = i] \in SwitchStates
          /\ \A b \in BOOLEAN : [s EXCEPT !.alone = b] \in SwitchStates
          /\ \A i \in Proxies : [s EXCEPT !.before = i] \in SwitchStates
          /\ \A n \in 0..length : [s EXCEPT !.rotations = n] \in SwitchStates
          /\ \A n \in {"check", "done"} : Update(s, n) \in SwitchStates
<1> USE DEF SwitchStates, Proxies, Update
<1>1. ASSUME NEW b \in BOOLEAN PROVE [s EXCEPT !.alone = b] \in SwitchStates
  OBVIOUS
<1>2. ASSUME NEW i \in Proxies PROVE [s EXCEPT !.before = i] \in SwitchStates
  OBVIOUS
<1>3. ASSUME NEW n \in 0..length PROVE [s EXCEPT !.rotations = n] \in SwitchStates
  OBVIOUS
<1>4. ASSUME NEW n \in {"check", "done"} PROVE Update(s, n) \in SwitchStates
  BY Zenon
<1>5. ASSUME NEW a \in {"setHTTPS", "setHTTP", "check", "rotate", "stamp", "done", "no"}
      PROVE [s EXCEPT !.at = a] \in SwitchStates
  OBVIOUS
<1>6. [s EXCEPT !.next = "no"] \in SwitchStates
  OBVIOUS
<1>7. ASSUME NEW i \in Proxies PROVE [s EXCEPT !.cfg = i] \in SwitchStates
  OBVIOUS
<1> HIDE DEF SwitchStates, Proxies, Update
<1> QED
  BY <1>1, <1>2, <1>3, <1>4, <1>5, <1>6, <1>7

(* No switch, a switch that begins, an update of the environment, and what *)
(* a disturbance makes of the switches.                                    *)
LEMMA SwitchTypes ==
    ASSUME length \in Nat \ {0}
    PROVE /\ NoSwitch \in SwitchStates
          /\ [NoSwitch EXCEPT !.at = "done"] \in SwitchStates
          /\ Update(NoSwitch, "done") \in SwitchStates
          /\ \A b \in BOOLEAN, i \in Proxies :
               [Update(NoSwitch, "check") EXCEPT !.alone = b, !.before = i] \in SwitchStates
          /\ [Update(NoSwitch, "check") EXCEPT !.alone = TRUE] \in SwitchStates
          /\ switch \in [All -> SwitchStates] => Disturbed \in [All -> SwitchStates]
<1>1. NoSwitch \in SwitchStates
  BY DEF NoSwitch, SwitchStates, Proxies
<1>2. [NoSwitch EXCEPT !.at = "done"] \in SwitchStates
  BY Zenon, <1>1, FieldTypes
<1>3. Update(NoSwitch, "done") \in SwitchStates /\ Update(NoSwitch, "check") \in SwitchStates
  BY Zenon, <1>1, FieldTypes
<1>4. \A s \in SwitchStates : \A b \in BOOLEAN, i \in Proxies :
        [s EXCEPT !.alone = b, !.before = i] \in SwitchStates
  BY Zenon, FieldTypes
<1>5. [Update(NoSwitch, "check") EXCEPT !.alone = TRUE] \in SwitchStates
  BY Zenon, <1>3, FieldTypes
<1>6. ASSUME switch \in [All -> SwitchStates] PROVE Disturbed \in [All -> SwitchStates]
  <2>1. 0 \in Proxies
    BY DEF Proxies
  <2> QED
    BY Zenon, <1>4, <1>6, <2>1 DEF Disturbed
<1> QED
  BY Zenon, <1>1, <1>2, <1>3, <1>4, <1>5, <1>6

(* A disturbance changes what is known of a switch, not the switch.        *)
LEMMA DisturbedFields ==
    ASSUME ProxyTypeOK, NEW c \in All
    PROVE /\ Disturbed[c].alone = FALSE
          /\ Disturbed[c].at = switch[c].at /\ Disturbed[c].rotations = switch[c].rotations
  BY ZenonT(40), SMT DEF ProxyTypeOK, SwitchStates, Disturbed

(* What a step that does not change the list of proxies has to keep.       *)
LEMMA TypeStep ==
    ASSUME ProxyTypeOK, length' = length, activeProxyIndex' \in Proxies,
           HTTPS_PROXY' \in Proxies \cup {Unset}, HTTP_PROXY' \in Proxies \cup {Unset},
           recent' \in BOOLEAN, faults' \in Nat,
           health' \in [Proxies -> {"dead", "deaf", "works"}],
           switch' \in [All -> SwitchStates]
    PROVE ProxyTypeOK'
  BY DEF ProxyTypeOK, Proxies, SwitchStates

(* main's SwitchProxy at start-up is a search that begins.                 *)
LEMMA ProxyInitIInv == ProxyInit => IInv
<1> SUFFICES ASSUME ProxyInit PROVE IInv
  OBVIOUS
<1>1. length \in Nat \ {0} /\ faults \in Nat
  BY ProxyAssumption, SplitNat DEF ProxyInit
<1>2. ProxyTypeOK
  <2>1. switch \in [All -> SwitchStates]
    BY Zenon, <1>1, SwitchTypes DEF ProxyInit
  <2>2. activeProxyIndex \in Proxies
    BY <1>1 DEF ProxyInit, Proxies
  <2> QED
    BY Zenon, <1>1, <2>1, <2>2 DEF ProxyInit, ProxyTypeOK
<1>3. \A c \in All : switch[c].alone => c = Main
  BY DEF ProxyInit, NoSwitch
<1>4. /\ switch[Main].at = "read" /\ switch[Main].next = "check"
      /\ switch[Main].before = 0 /\ switch[Main].rotations = 0
      /\ \A c \in All : c # Main => switch[c].at = "no"
  BY Zenon DEF ProxyInit, NoSwitch, Update, All
<1>5. Searching(Main) /\ AloneInv(Main)
  BY <1>1, <1>4 DEF ProxyInit, Searching, Updating, Ended, AloneInv, Passed, Told, Plus
<1> QED
  BY <1>2, <1>3, <1>4, <1>5 DEF IInv

(* What is left to show of a step after which only c can be undisturbed.   *)
LEMMA StepOf ==
    ASSUME NEW c \in All, ProxyTypeOK',
           \A d \in All : d # c => ~switch'[d].alone,
           \A d \in All : switch'[d].at = "rotate" => switch'[d].rotations < length',
           switch'[c].alone => (Searching(c) \/ Ended(c))' /\ AloneInv(c)'
    PROVE IInv'
  BY DEF IInv

(* Every step preserves the invariant.                                     *)
LEMMA ProxyNextIInv == IInv /\ [ProxyNext]_proxyVars => IInv'
<1> SUFFICES ASSUME IInv, [ProxyNext]_proxyVars PROVE IInv'
  OBVIOUS
<1>0. ProxyTypeOK
  BY DEF IInv
<1>1. ASSUME NEW c \in All, switch[c].at # "no", NEW d \in All, switch[d].alone
      PROVE d = c
  BY <1>1 DEF IInv, AloneInv
<1>2. ASSUME NEW c \in All, SwitchProxy(c) PROVE IInv'
  <2>0. length \in Nat \ {0} /\ activeProxyIndex \in Proxies /\ 0 \in Proxies
    BY <1>0 DEF ProxyTypeOK, Proxies
  <2>1. ProxyTypeOK'
    <3>1. switch' \in [All -> SwitchStates]
      BY Zenon, <1>0, <1>2, <2>0, SwitchTypes DEF SwitchProxy, ProxyTypeOK
    <3> QED
      BY <1>0, <1>2, <3>1, TypeStep DEF SwitchProxy, ProxyTypeOK, envVars
  <2>2. \A d \in All : d # c => switch'[d] = Disturbed[d]
    BY Zenon, <1>2 DEF SwitchProxy, Disturbed
  <2>3. CASE allowUpdate /\ InSwitch = {}
    <3>1. switch'[c] = [at |-> "read", next |-> "check", cfg |-> 0, rotations |-> 0,
                        alone |-> TRUE, before |-> activeProxyIndex]
      BY Zenon, <1>0, <1>2, <2>3 DEF SwitchProxy, Disturbed, Update, NoSwitch
    <3>2. \A d \in All : d # c => switch'[d].at = "no"
      BY Zenon, <1>0, <2>2, <2>3, DisturbedFields DEF InSwitch
    <3>3. Searching(c)' /\ ~Ended(c)'
      BY <3>1 DEF Searching, Updating, Ended
    <3>4. ~recent'
      BY <1>0, <1>2, <2>3 DEF SwitchProxy, allowUpdate
    <3>5. AloneInv(c)'
      <4>0. activeProxyIndex' = activeProxyIndex /\ length' = length
        BY <1>2 DEF SwitchProxy
      <4>1. (activeProxyIndex = Plus(switch[c].before, switch[c].rotations))'
        BY <2>0, <3>1, <4>0 DEF Plus, Proxies
      <4>2. (\A k \in 0..(switch[c].rotations - 1) : Plus(switch[c].before, k) \notin Working)'
        BY <3>1
      <4> QED
        BY <3>1, <3>2, <3>3, <3>4, <4>1, <4>2 DEF AloneInv, Passed, Told
    <3>6. \A d \in All : switch'[d].at # "rotate"
      BY <3>1, <3>2
    <3> QED
      BY Zenon, <1>0, <2>1, <2>2, <3>3, <3>5, <3>6, StepOf, DisturbedFields
  <2>4. CASE ~(allowUpdate /\ InSwitch = {})
    <3>1. ~switch'[c].alone /\ switch'[c].at # "rotate"
      BY Zenon, <1>0, <1>2, <2>4 DEF SwitchProxy, Disturbed, Update, NoSwitch
    <3>2. \A d \in All : switch'[d].at = "rotate" => switch'[d].rotations < length'
      <4>1. \A d \in All : switch[d].at = "rotate" => switch[d].rotations < length
        BY DEF IInv
      <4>2. length' = length
        BY <1>2 DEF SwitchProxy
      <4> QED
        BY ZenonT(40), SMT, <1>0, <2>2, <3>1, <4>1, <4>2, DisturbedFields
    <3> QED
      BY Zenon, <1>0, <2>1, <2>2, <3>1, <3>2, StepOf, DisturbedFields
  <2> QED
    BY <2>3, <2>4
<1>3. ASSUME NEW c \in All, OnlyUpdate(c) \/ UpdateAgain(c) PROVE IInv'
  <2>0. length \in Nat \ {0}
    BY <1>0 DEF ProxyTypeOK
  <2>1. ProxyTypeOK'
    <3>1. switch' \in [All -> SwitchStates]
      BY Zenon, <1>0, <1>3, <2>0, SwitchTypes DEF OnlyUpdate, UpdateAgain, ProxyTypeOK
    <3> QED
      BY <1>0, <1>3, <3>1, TypeStep DEF OnlyUpdate, UpdateAgain, ProxyTypeOK, envVars
  <2>2. \A d \in All : d # c => switch'[d] = Disturbed[d]
    BY Zenon, <1>3 DEF OnlyUpdate, UpdateAgain, Disturbed
  <2>3. ~switch'[c].alone /\ switch'[c].at # "rotate"
    BY Zenon, <1>0, <1>3 DEF OnlyUpdate, UpdateAgain, Disturbed, Update, NoSwitch
  <2>4. \A d \in All : switch'[d].at = "rotate" => switch'[d].rotations < length'
    BY ZenonT(40), SMT, <1>0, <1>3, <2>2, <2>3, DisturbedFields DEF IInv, OnlyUpdate, UpdateAgain
  <2> QED
    BY Zenon, <1>0, <2>1, <2>2, <2>3, <2>4, StepOf, DisturbedFields
<1>4. ASSUME NEW c \in All, UpdateProxyEnvVars(c) PROVE IInv'
  <2>0. /\ length \in Nat \ {0} /\ switch \in [All -> SwitchStates] /\ switch[c] \in SwitchStates
        /\ activeProxyIndex \in Proxies /\ switch[c].cfg \in Proxies /\ 0 \in Proxies
        /\ switch[c].next \in {"no", "check", "done"}
    BY <1>0 DEF ProxyTypeOK, SwitchStates, Proxies
  <2>1. /\ length' = length /\ activeProxyIndex' = activeProxyIndex /\ recent' = recent
        /\ health' = health /\ faults' = faults
        /\ switch[c].at \in {"read", "setHTTPS", "setHTTP"}
    BY <1>4 DEF UpdateProxyEnvVars
  <2>2. \A d \in All : d # c => switch'[d] = switch[d]
    BY <1>4, <2>0 DEF UpdateProxyEnvVars
  <2>3. /\ switch'[c].alone = switch[c].alone /\ switch'[c].before = switch[c].before
        /\ switch'[c].rotations = switch[c].rotations
    BY SMT, Z3, <1>4, <2>0 DEF UpdateProxyEnvVars, SwitchStates
  <2>4. ProxyTypeOK'
    <3>1. switch' \in [All -> SwitchStates]
      <4>1. CASE switch[c].at = "read"
        <5>1. [switch[c] EXCEPT !.at = "setHTTPS", !.cfg = activeProxyIndex] \in SwitchStates
          BY Zenon, <2>0, FieldTypes
        <5> QED
          BY Zenon, <1>4, <2>0, <4>1, <5>1 DEF UpdateProxyEnvVars
      <4>2. CASE switch[c].at = "setHTTPS"
        <5>1. [switch[c] EXCEPT !.at = "setHTTP"] \in SwitchStates
          BY Zenon, <2>0, FieldTypes
        <5> QED
          BY <1>4, <2>0, <4>2, <5>1 DEF UpdateProxyEnvVars
      <4>3. CASE switch[c].at = "setHTTP"
        <5>1. [switch[c] EXCEPT !.at = switch[c].next, !.next = "no", !.cfg = 0] \in SwitchStates
          BY Zenon, <2>0, FieldTypes
        <5> QED
          BY Zenon, <1>4, <2>0, <4>3, <5>1 DEF UpdateProxyEnvVars
      <4> QED
        BY <2>1, <4>1, <4>2, <4>3
    <3>2. HTTPS_PROXY' \in Proxies \cup {Unset} /\ HTTP_PROXY' \in Proxies \cup {Unset}
      BY <1>0, <1>4, <2>0 DEF UpdateProxyEnvVars, ProxyTypeOK, envVars
    <3> QED
      BY Zenon, <1>0, <2>1, <3>1, <3>2, TypeStep DEF ProxyTypeOK
  <2>5. \A d \in All : d # c => ~switch'[d].alone
    BY <1>1, <2>1, <2>2
  <2>6. switch'[c].at # "rotate" /\ switch'[c].at # "stamp"
    BY <1>4, <2>0 DEF UpdateProxyEnvVars, SwitchStates
  <2>7. \A d \in All : switch'[d].at = "rotate" => switch'[d].rotations < length'
    BY ZenonT(40), SMT, <2>1, <2>2, <2>6 DEF IInv
  <2>8. ASSUME switch'[c].alone PROVE (Searching(c) \/ Ended(c))' /\ AloneInv(c)'
    <3>1. AloneInv(c) /\ (Searching(c) \/ Ended(c))
      BY Zenon, <2>3, <2>8 DEF IInv
    <3>2. Searching(c)' = Searching(c) /\ Ended(c)' = Ended(c)
      BY <1>4, <2>0, <3>1 DEF UpdateProxyEnvVars, Searching, Ended, Updating, SwitchStates
    <3>3. Working' = Working
      BY Zenon, <2>1 DEF Working, Proxies
    <3>4. Passed(c) => Passed(c)'
      BY Zenon, <2>1, <2>3, <3>3 DEF Passed, Plus
    <3>5. IsBest(activeProxyIndex, switch[c].before) => IsBest(activeProxyIndex, switch[c].before)'
      BY Zenon, <2>1, <2>3, <3>3 DEF IsBest, Ahead
    <3>6. Told(c)'
      BY SMT, Z3, <1>4, <2>0, <3>1 DEF UpdateProxyEnvVars, AloneInv, Told, SwitchStates
    <3> QED
      BY <2>2, <2>6, <3>1, <3>2, <3>4, <3>5, <3>6 DEF AloneInv
  <2> QED
    BY <2>4, <2>5, <2>7, <2>8, StepOf
<1>5. ASSUME NEW c \in All, checkActiveProxyStatus(c) PROVE IInv'
  <2>0. /\ length \in Nat \ {0} /\ switch \in [All -> SwitchStates] /\ switch[c] \in SwitchStates
        /\ activeProxyIndex \in Proxies /\ switch[c].before \in Proxies
        /\ switch[c].rotations \in 0..length
    BY <1>0 DEF ProxyTypeOK, SwitchStates
  <2>1. /\ length' = length /\ activeProxyIndex' = activeProxyIndex /\ recent' = recent
        /\ health' = health /\ faults' = faults /\ HTTPS_PROXY' = HTTPS_PROXY
        /\ HTTP_PROXY' = HTTP_PROXY /\ switch[c].at = "check"
    BY <1>5 DEF checkActiveProxyStatus, envVars
  <2>2. \A d \in All : d # c => switch'[d] = switch[d]
    BY <1>5, <2>0 DEF checkActiveProxyStatus
  <2>3. /\ switch'[c].alone = switch[c].alone /\ switch'[c].before = switch[c].before
        /\ switch'[c].rotations = switch[c].rotations
        /\ switch'[c].at = IF ~checkConnectivity /\ switch[c].rotations < length
                           THEN "rotate" ELSE "stamp"
    BY Zenon, <1>5, <2>0 DEF checkActiveProxyStatus, SwitchStates
  <2>4. ProxyTypeOK'
    <3>1. /\ [switch[c] EXCEPT !.at = "rotate"] \in SwitchStates
          /\ [switch[c] EXCEPT !.at = "stamp"] \in SwitchStates
      BY Zenon, <2>0, FieldTypes
    <3>2. switch' \in [All -> SwitchStates]
      BY Zenon, <1>5, <2>0, <3>1 DEF checkActiveProxyStatus
    <3> QED
      BY <1>0, <2>0, <2>1, <3>2, TypeStep DEF ProxyTypeOK
  <2>5. \A d \in All : d # c => ~switch'[d].alone
    BY Zenon, <1>1, <2>1, <2>2
  <2>6. \A d \in All : switch'[d].at = "rotate" => switch'[d].rotations < length'
    BY Zenon, <2>1, <2>2, <2>3 DEF IInv
  <2>7. ASSUME switch'[c].alone PROVE (Searching(c) \/ Ended(c))' /\ AloneInv(c)'
    <3>1. AloneInv(c) /\ Searching(c) /\ Passed(c)
      BY Zenon, <2>1, <2>3, <2>7 DEF IInv, AloneInv, Searching
    <3>2. Searching(c)' /\ ~Ended(c)'
      BY Zenon, <2>3 DEF Searching, Ended, Updating
    <3>3. Working' = Working
      BY Zenon, <2>1 DEF Working, Proxies
    <3>4. Passed(c)'
      BY Zenon, <2>1, <2>3, <3>1, <3>3 DEF Passed, Plus
    <3>5. HTTPS_PROXY = activeProxyIndex /\ HTTP_PROXY = activeProxyIndex
      BY <2>1, <3>1 DEF AloneInv, Told
    <3>6. Told(c)'
      BY <2>1, <2>3, <3>5 DEF Told
    <3>7. checkConnectivity = (activeProxyIndex \in Working)
      BY <2>0, <3>5 DEF checkConnectivity, Working
    <3>8. (switch[c].at = "rotate" => activeProxyIndex \notin Working)'
      BY Zenon, <2>1, <2>3, <3>3, <3>7
    <3>9. (switch[c].at = "stamp" => activeProxyIndex \in Working \/ switch[c].rotations = length)'
      <4>1. checkConnectivity \/ switch[c].rotations < length \/ switch[c].rotations = length
        BY SMT, Z3, <2>0
      <4> QED
        BY Zenon, <2>1, <2>3, <3>3, <3>7, <4>1
    <3>10. (\A d \in All : d # c => switch[d].at = "no")'
      BY <2>2, <3>1 DEF AloneInv
    <3> QED
      BY <3>2, <3>4, <3>6, <3>8, <3>9, <3>10 DEF AloneInv
  <2> QED
    BY <2>4, <2>5, <2>6, <2>7, StepOf
<1>6. ASSUME NEW c \in All, rotateProxy(c) PROVE IInv'
  <2>0. /\ length \in Nat \ {0} /\ switch \in [All -> SwitchStates] /\ switch[c] \in SwitchStates
        /\ activeProxyIndex \in Proxies /\ switch[c].before \in Proxies
        /\ switch[c].rotations \in 0..length
    BY <1>0 DEF ProxyTypeOK, SwitchStates
  <2>1. /\ length' = length /\ recent' = recent /\ health' = health /\ faults' = faults
        /\ HTTPS_PROXY' = HTTPS_PROXY /\ HTTP_PROXY' = HTTP_PROXY
        /\ switch[c].at = "rotate" /\ activeProxyIndex' = (activeProxyIndex + 1) % length
    BY <1>6 DEF rotateProxy, envVars
  <2>2. \A d \in All : d # c => switch'[d] = switch[d]
    BY <1>6, <2>0 DEF rotateProxy
  <2>3. /\ switch'[c].alone = switch[c].alone /\ switch'[c].before = switch[c].before
        /\ switch'[c].rotations = switch[c].rotations + 1
        /\ switch'[c].at = "read" /\ switch'[c].next = "check"
    <3> DEFINE u == Update(switch[c], "check")
    <3>0. u \in SwitchStates
      BY Zenon, <2>0, FieldTypes
    <3>1. /\ u.alone = switch[c].alone /\ u.before = switch[c].before
          /\ u.at = "read" /\ u.next = "check"
      BY <2>0 DEF Update, SwitchStates
    <3>2. switch'[c] = [u EXCEPT !.rotations = switch[c].rotations + 1]
      BY <1>6, <2>0 DEF rotateProxy
    <3> HIDE DEF u
    <3> QED
      BY <3>0, <3>1, <3>2 DEF SwitchStates
  <2>4. activeProxyIndex' = IF activeProxyIndex + 1 < length THEN activeProxyIndex + 1 ELSE 0
    <3> DEFINE x == activeProxyIndex + 1
    <3>1. x \in Nat /\ x < length + length /\ x <= length
      BY <2>0 DEF Proxies
    <3>2. x % length = IF x < length THEN x ELSE x - length
      <4> HIDE DEF x
      <4> QED
        BY Zenon, <2>0, <3>1, ModTurn
    <3> QED
      BY <2>0, <2>1, <3>1, <3>2
  <2>5. switch[c].rotations < length /\ switch[c].rotations + 1 \in 0..length
    BY <2>0, <2>1 DEF IInv
  <2>6. ProxyTypeOK'
    <3>1. [Update(switch[c], "check") EXCEPT !.rotations = switch[c].rotations + 1] \in SwitchStates
      BY Zenon, <2>0, <2>5, FieldTypes
    <3>3. switch' \in [All -> SwitchStates]
      BY <1>6, <2>0, <3>1 DEF rotateProxy
    <3>4. activeProxyIndex' \in Proxies
      BY <2>0, <2>4 DEF Proxies
    <3> QED
      BY <1>0, <2>1, <3>3, <3>4, TypeStep DEF ProxyTypeOK
  <2>7. \A d \in All : d # c => ~switch'[d].alone
    BY <1>1, <2>1, <2>2
  <2>8. \A d \in All : switch'[d].at = "rotate" => switch'[d].rotations < length'
    BY ZenonT(40), SMT, <2>1, <2>2, <2>3 DEF IInv
  <2>9. ASSUME switch'[c].alone PROVE (Searching(c) \/ Ended(c))' /\ AloneInv(c)'
    <3>1. AloneInv(c) /\ Passed(c) /\ activeProxyIndex \notin Working
      BY Zenon, <2>1, <2>3, <2>9 DEF IInv, AloneInv, Searching
    <3>2. Searching(c)' /\ ~Ended(c)'
      BY <2>3 DEF Searching, Ended, Updating
    <3>3. Working' = Working
      BY Zenon, <2>1 DEF Working, Proxies
    <3>4. Passed(c)'
      <4> DEFINE b == switch[c].before
                 r == switch[c].rotations
      <4>1. activeProxyIndex' = Plus(b, r + 1)
        BY SMT, Z3, <2>0, <2>4, <2>5, <3>1 DEF Passed, Plus, Proxies
      <4>2. ASSUME NEW k \in 0..r PROVE Plus(b, k) \notin Working
        <5>1. k \in 0..(r - 1) \/ k = r
          BY <2>0
        <5> QED
          BY <3>1, <5>1 DEF Passed
      <4>3. (r + 1) - 1 = r
        BY <2>0
      <4> QED
        BY Zenon, <2>1, <2>3, <3>1, <3>3, <4>1, <4>2, <4>3 DEF Passed, Plus
    <3>5. Told(c)'
      BY <2>3 DEF Told
    <3> QED
      BY <2>2, <2>3, <3>1, <3>2, <3>4, <3>5 DEF AloneInv
  <2> QED
    BY <2>6, <2>7, <2>8, <2>9, StepOf
<1>7. ASSUME NEW c \in All, Stamp(c) PROVE IInv'
  <2>0. /\ length \in Nat \ {0} /\ switch \in [All -> SwitchStates] /\ switch[c] \in SwitchStates
        /\ activeProxyIndex \in Proxies /\ switch[c].before \in Proxies
        /\ switch[c].rotations \in 0..length
    BY <1>0 DEF ProxyTypeOK, SwitchStates
  <2>1. /\ length' = length /\ activeProxyIndex' = activeProxyIndex /\ recent' = TRUE
        /\ health' = health /\ faults' = faults /\ HTTPS_PROXY' = HTTPS_PROXY
        /\ HTTP_PROXY' = HTTP_PROXY /\ switch[c].at = "stamp"
    BY <1>7 DEF Stamp, envVars
  <2>2. \A d \in All : d # c => switch'[d] = switch[d]
    BY <1>7, <2>0 DEF Stamp
  <2>3. /\ switch'[c].alone = switch[c].alone /\ switch'[c].before = switch[c].before
        /\ switch'[c].at = "read" /\ switch'[c].next = "done"
    BY Zenon, <1>7, <2>0 DEF Stamp, Update, SwitchStates
  <2>4. ProxyTypeOK'
    <3>0. 0 \in 0..length
      BY <2>0
    <3>1. [Update(switch[c], "done") EXCEPT !.rotations = 0] \in SwitchStates
      <4>1. Update(switch[c], "done") \in SwitchStates
        BY Zenon, <2>0, FieldTypes
      <4> QED
        BY Zenon, <2>0, <3>0, <4>1, FieldTypes
    <3>2. switch' \in [All -> SwitchStates]
      BY Zenon, <1>7, <2>0, <3>1 DEF Stamp
    <3> QED
      BY <1>0, <2>0, <2>1, <3>2, TypeStep DEF ProxyTypeOK
  <2>5. \A d \in All : d # c => ~switch'[d].alone
    BY <1>1, <2>1, <2>2
  <2>6. \A d \in All : switch'[d].at = "rotate" => switch'[d].rotations < length'
    BY ZenonT(40), SMT, <2>1, <2>2, <2>3 DEF IInv
  <2>7. ASSUME switch'[c].alone PROVE (Searching(c) \/ Ended(c))' /\ AloneInv(c)'
    <3>1. AloneInv(c) /\ Passed(c)
      BY Zenon, <2>1, <2>3, <2>7 DEF IInv, AloneInv, Searching
    <3>2. ~Searching(c)' /\ Ended(c)'
      BY <2>3 DEF Searching, Ended, Updating
    <3>3. Working' = Working
      BY Zenon, <2>1 DEF Working, Proxies
    <3>4. IsBest(activeProxyIndex, switch[c].before)
      BY Zenon, <1>0, <2>0, <2>1, <3>1, SearchFindsBest DEF AloneInv, Passed
    <3>5. IsBest(activeProxyIndex, switch[c].before)'
      BY Zenon, <2>1, <2>3, <3>3, <3>4 DEF IsBest, Ahead
    <3>6. Told(c)'
      BY Zenon, <2>3 DEF Told
    <3> QED
      BY <2>2, <2>3, <3>1, <3>2, <3>5, <3>6 DEF AloneInv
  <2> QED
    BY <2>4, <2>5, <2>6, <2>7, StepOf
<1>8. ASSUME NEW c \in All, Return(c) PROVE IInv'
  <2>1. ProxyTypeOK'
    <3>1. switch' \in [All -> SwitchStates]
      BY Zenon, <1>0, <1>8, SwitchTypes DEF Return, ProxyTypeOK
    <3> QED
      BY <1>0, <1>8, <3>1, TypeStep DEF Return, ProxyTypeOK, envVars
  <2>2. \A d \in All : ~switch'[d].alone
    BY ZenonT(40), SMT, <1>0, <1>1, <1>8 DEF Return, ProxyTypeOK, NoSwitch
  <2>3. \A d \in All : switch'[d].at = "rotate" => switch'[d].rotations < length'
    BY <1>0, <1>8 DEF IInv, Return, ProxyTypeOK, NoSwitch
  <2> QED
    BY Zenon, <2>1, <2>2, <2>3, StepOf
<1>9. ASSUME NEW i \in Proxies, Flap(i) PROVE IInv'
  <2>1. ProxyTypeOK'
    <3>1. switch' \in [All -> SwitchStates]
      BY Zenon, <1>0, <1>9, SwitchTypes DEF Flap, ProxyTypeOK
    <3> QED
      BY <1>0, <1>9, <3>1, TypeStep DEF Flap, ProxyTypeOK, envVars
  <2>2. \A d \in All : switch'[d] = Disturbed[d]
    BY <1>9 DEF Flap
  <2>3. \A d \in All : switch'[d].at = "rotate" => switch'[d].rotations < length'
    BY ZenonT(40), SMT, <1>0, <1>9, <2>2, DisturbedFields DEF IInv, Flap
  <2> QED
    BY ZenonT(40), SMT, <1>0, <2>1, <2>2, <2>3, StepOf, DisturbedFields DEF IInv, All
<1>10. ASSUME Minute \/ Fault \/ UNCHANGED proxyVars PROVE IInv'
  <2>1. /\ length' = length /\ activeProxyIndex' = activeProxyIndex /\ health' = health
        /\ HTTPS_PROXY' = HTTPS_PROXY /\ HTTP_PROXY' = HTTP_PROXY /\ switch' = switch
        /\ recent' \in BOOLEAN /\ (recent' => recent) /\ faults' \in Nat
    <3>1. CASE Minute
      BY Zenon, <1>0, <3>1 DEF Minute, envVars, ProxyTypeOK
    <3>2. CASE Fault
      BY SMT, Z3, <1>0, <3>2 DEF Fault, envVars, ProxyTypeOK
    <3>3. CASE UNCHANGED proxyVars
      BY <1>0, <3>3 DEF proxyVars, envVars, ProxyTypeOK
    <3> QED
      BY <1>10, <3>1, <3>2, <3>3
  <2>2. ProxyTypeOK'
    BY Zenon, <1>0, <2>1, TypeStep DEF ProxyTypeOK
  <2>3. ASSUME NEW c \in All, switch'[c].alone
        PROVE (Searching(c) \/ Ended(c))' /\ AloneInv(c)'
    <3>1. AloneInv(c) /\ (Searching(c) \/ Ended(c))
      BY ZenonT(40), SMT, <2>1, <2>3 DEF IInv
    <3>2. Searching(c)' = Searching(c) /\ Ended(c)' = Ended(c)
      BY <2>1 DEF Searching, Ended, Updating
    <3>3. Working' = Working
      BY Zenon, <2>1 DEF Working, Proxies
    <3>4. Passed(c) => Passed(c)'
      BY Zenon, <2>1, <3>3 DEF Passed, Plus
    <3>5. IsBest(activeProxyIndex, switch[c].before) => IsBest(activeProxyIndex, switch[c].before)'
      BY ZenonT(40), SMT, <2>1, <3>3 DEF IsBest, Ahead
    <3>6. Told(c) => Told(c)'
      BY <2>1 DEF Told
    <3> QED
      BY Zenon, <2>1, <3>1, <3>2, <3>3, <3>4, <3>5, <3>6 DEF AloneInv
  <2> QED
    BY <2>1, <2>2, <2>3 DEF IInv
<1> QED
  BY <1>2, <1>3, <1>4, <1>5, <1>6, <1>7, <1>8, <1>9, <1>10 DEF ProxyNext, Switching

-----------------------------------------------------------------------------
(* Whatever calls and pushers do, the proxies see only what OutboundProxy  *)
(* says callers may do.                                                    *)
LEMMA NextIsProxyNext == [Next]_vars => [ProxyNext]_proxyVars
<1> SUFFICES ASSUME [Next]_vars PROVE [ProxyNext]_proxyVars
  OBVIOUS
<1>1. GrpcCalls \subseteq All /\ Pushers \subseteq All /\ Main \in All
  BY PushAssumption DEF All
<1>2. CASE Started \/ \E c \in All : SwitchStep(c)
  BY <1>1, <1>2 DEF Started, SwitchStep, ProxyNext
<1>3. ASSUME NEW c \in GrpcCalls, Invoke(c) \/ CallStep(c) PROVE ProxyNext
  BY <1>1, <1>3 DEF Invoke, CallStep, RenewConnectionUpdates, ConnectionRenewed, ProxyNext
<1>4. ASSUME NEW p \in Pushers, PushStep(p) PROVE [ProxyNext]_proxyVars
  <2>1. CASE Start(p) \/ Send(p) \/ Resend(p) \/ Repeat(p) \/ Pushed(p) \/ Token(p)
    BY <2>1 DEF Start, Send, Resend, Repeat, Pushed, Token, Stay
  <2>2. CASE Populate(p)
    BY Zenon, <1>1, <2>2 DEF Populate, ProxyNext
  <2>3. CASE PushSwitch(p)
    BY Zenon, <1>1, <2>3 DEF PushSwitch, ProxyNext
  <2> QED
    BY ZenonT(40), SMT, <1>4, <2>1, <2>2, <2>3 DEF PushStep
<1>5. ASSUME NEW p \in Pushers, Expire(p) PROVE ProxyNext
  BY <1>5 DEF Expire, ProxyNext
<1>6. CASE Grant \/ UNCHANGED vars
  BY <1>6 DEF Grant, vars
<1>7. CASE Outside
  BY <1>7 DEF Outside, ProxyNext
<1> QED
  BY <1>2, <1>3, <1>4, <1>5, <1>6, <1>7 DEF Next

(* The proxies of the whole system implement OutboundProxy on its own:     *)
(* calls and pushers begin and end switches in no other way.               *)
THEOREM ImplementsOutboundProxy == Spec => ProxyInit /\ [][ProxyNext]_proxyVars
<1>1. Init => ProxyInit
  BY DEF Init
<1> QED
  BY <1>1, NextIsProxyNext, PTL DEF Spec

(* The invariant holds in every state.                                     *)
LEMMA IInvHolds == Spec => []IInv
<1>1. Init => IInv
  BY ProxyInitIInv DEF Init
<1>2. IInv /\ [Next]_vars => IInv'
  BY NextIsProxyNext, ProxyNextIInv
<1> QED
  BY <1>1, <1>2, PTL DEF Spec

(* A SwitchProxy that nothing interfered with ends on the first proxy that *)
(* works, and the environment names it, however many proxies there are.    *)
THEOREM SwitchSettles == Spec => []SettlesAlone
<1>1. IInv => SettlesAlone
  <2> SUFFICES ASSUME IInv, NEW c \in All, switch[c].at = "done", switch[c].alone
               PROVE LET ahead(i) == (i - switch[c].before + length) % length
                         best == IF Working = {} THEN switch[c].before
                                 ELSE CHOOSE i \in Working : \A j \in Working : ahead(i) <= ahead(j)
                     IN {activeProxyIndex, HTTPS_PROXY, HTTP_PROXY} = {best}
    BY DEF SettlesAlone
  <2> DEFINE b == switch[c].before
             ahead(i) == (i - b + length) % length
             best == IF Working = {} THEN b
                     ELSE CHOOSE i \in Working : \A j \in Working : ahead(i) <= ahead(j)
  <2>1. length \in Nat \ {0} /\ b \in Proxies /\ Working \subseteq Proxies
    BY DEF IInv, ProxyTypeOK, SwitchStates, Working
  <2>2. AloneInv(c) /\ Ended(c)
    BY ZenonT(40), SMT DEF IInv, Ended
  <2>3. HTTPS_PROXY = activeProxyIndex /\ HTTP_PROXY = activeProxyIndex
    BY Zenon, <2>2 DEF AloneInv, Told
  <2>4. IsBest(activeProxyIndex, b)
    BY Zenon, <2>2 DEF AloneInv
  <2>5. ASSUME NEW i \in Proxies PROVE ahead(i) = Ahead(i, b)
    <3> DEFINE x == i - b + length
    <3>1. x \in Nat /\ x < length + length
      BY <2>1 DEF Proxies
    <3>2. x % length = IF x < length THEN x ELSE x - length
      <4> HIDE DEF x
      <4> QED
        BY Zenon, <2>1, <3>1, ModTurn
    <3>3. Ahead(i, b) = IF x < length THEN x ELSE x - length
      BY SMT, Z3, <2>1 DEF Ahead, Proxies
    <3> QED
      BY SMT, Z3, <3>2, <3>3
  <2>6. \A i, j \in Proxies : Ahead(i, b) <= Ahead(j, b) /\ Ahead(j, b) <= Ahead(i, b) => i = j
    BY SMT, Z3, <2>1 DEF Ahead, Proxies
  <2>7. activeProxyIndex = best
    <3>1. CASE Working = {}
      BY <2>4, <3>1 DEF IsBest
    <3>2. CASE Working # {}
      <4>1. activeProxyIndex \in Working /\ \A j \in Working : ahead(activeProxyIndex) <= ahead(j)
        BY ZenonT(40), SMT, <2>1, <2>4, <2>5, <3>2 DEF IsBest
      <4>2. \A i \in Working : (\A j \in Working : ahead(i) <= ahead(j)) => i = activeProxyIndex
        BY <2>1, <2>5, <2>6, <4>1
      <4> HIDE DEF ahead
      <4> QED
        BY Zenon, <3>2, <4>1, <4>2
    <3> QED
      BY Zenon, <3>1, <3>2
  <2> QED
    BY Zenon, <2>3, <2>7
<1> QED
  BY <1>1, IInvHolds, PTL

(* A rotation within a minute of another switch happens only in switches   *)
(* that overlap, however many goroutines call SwitchProxy.                 *)
THEOREM SwitchesApart == Spec => NoHaste
<1> DEFINE A == \A c \in All : activeProxyIndex' # activeProxyIndex /\ switch'[c] # switch[c] =>
                  ~(recent /\ switch[c].alone)
<1>1. IInv /\ [Next]_vars => [A]_vars
  <2> SUFFICES ASSUME IInv, [ProxyNext]_proxyVars, NEW c \in All,
                      activeProxyIndex' # activeProxyIndex, switch'[c] # switch[c],
                      recent, switch[c].alone
               PROVE FALSE
    BY NextIsProxyNext
  <2>1. PICK d \in All : rotateProxy(d)
    BY ZenonT(40), SMT DEF ProxyNext, SwitchProxy, OnlyUpdate, UpdateAgain, Switching, UpdateProxyEnvVars,
           checkActiveProxyStatus, Stamp, Return, Flap, Minute, Fault, proxyVars
  <2>2. d = c /\ switch[c].at = "rotate"
    BY <2>1 DEF rotateProxy, IInv, ProxyTypeOK
  <2>3. Passed(c)
    BY <2>2 DEF IInv, AloneInv, Searching
  <2> QED
    BY <2>3 DEF Passed
<1>2. Spec => [][A]_vars
  BY <1>1, IInvHolds, PTL DEF Spec
<1> QED
  BY Zenon, <1>2 DEF NoHaste

-----------------------------------------------------------------------------
(* The calls that export spans. What a call relies on when it is repeated  *)
(* was made sure before: after an answer Unauthenticated, it has a token   *)
(* of a renewal, and tokens never get older.                               *)

(* What the state of a call consists of.                                   *)
CallRecord ==
    [at : Places, first : Codes, refused : BOOLEAN, open : BOOLEAN,
     taken : BOOLEAN, token : Nat, ticks : Nat, got : Nat]

(* What a call knows at each of its places, when the token is tok.         *)
Sound(r, tok) ==
    /\ r.at = "idle" => r.first = "OK"
    /\ r.at = "conn" => r.first = "Unavailable"
    /\ r.at = "ok" => r.taken
    /\ r.first = "Unauthenticated" =>
          /\ r.at = "token" => r.got > 0 /\ tok + 1 >= r.got
          /\ r.at = "flying" => r.got > 0 /\ r.token + 1 >= r.got

(* The inductive invariant of the calls.                                   *)
UpInv ==
    /\ issued \in Nat /\ token \in Nat /\ token <= issued
    /\ call \in [Calls -> CallRecord]
    /\ \A c \in Calls : Sound(call[c], token)

(* What a call knows stays true when the token is renewed.                 *)
LEMMA SoundGrows ==
    ASSUME NEW r \in CallRecord, NEW t \in Nat, NEW u \in Nat, t <= u, Sound(r, t)
    PROVE  Sound(r, u)
BY DEF Sound, CallRecord

(* Before the first call nothing is known.                                 *)
LEMMA UpInit == UpstreamInit => UpInv
<1> SUFFICES ASSUME UpstreamInit PROVE UpInv
  OBVIOUS
<1>1. NoCall \in CallRecord /\ Bare("failed", FALSE) \in CallRecord
  BY ZenonT(40), SMT DEF NoCall, Bare, CallRecord, Places, Codes
<1>2. Sound(NoCall, 0) /\ Sound(Bare("failed", FALSE), 0)
  BY DEF NoCall, Bare, Sound
<1>3. \A c \in Calls : call[c] \in {NoCall, Bare("failed", FALSE)}
  BY Zenon DEF UpstreamInit
<1>4. call \in [Calls -> CallRecord]
  BY Zenon, <1>1 DEF UpstreamInit
<1>5. \A c \in Calls : Sound(call[c], 0)
  BY Zenon, <1>2, <1>3
<1>6. issued = 0 /\ token = 0
  BY DEF UpstreamInit
<1> QED BY <1>4, <1>5, <1>6 DEF UpInv

(* One call changes, to a sound record, and the token does not go back.    *)
LEMMA OneMoves ==
    ASSUME UpInv, NEW c \in Calls, NEW r \in CallRecord,
           call' = [call EXCEPT ![c] = r],
           issued' \in Nat, token' \in Nat, token <= token', token' <= issued',
           Sound(r, token')
    PROVE  UpInv'
<1>1. call' \in [Calls -> CallRecord]
  BY DEF UpInv
<1>2. \A d \in Calls : call'[d] = IF d = c THEN r ELSE call[d]
  BY DEF UpInv
<1>3. \A d \in Calls : Sound(call[d], token')
  BY SoundGrows DEF UpInv
<1> QED BY <1>1, <1>2, <1>3 DEF UpInv, Calls

(* A call that begins has had no answer.                                   *)
LEMMA BeginKeeps ==
    ASSUME UpInv, NEW c \in Calls, Begin(c)
    PROVE  UpInv'
<1> DEFINE r == [call[c] EXCEPT !.at = "token", !.open = TRUE]
<1>1. call[c] \in CallRecord /\ Sound(call[c], token)
  BY DEF UpInv
<1>2. r \in CallRecord
  BY Zenon, <1>1 DEF CallRecord, Places
<1>3. r.at = "token" /\ r.first = call[c].first
  BY <1>1 DEF CallRecord
<1>4. Sound(r, token)
  BY <1>1, <1>3 DEF Sound, Begin
<1>5. call' = [call EXCEPT ![c] = r] /\ token' = token /\ issued' = issued
  BY Zenon DEF Begin, authVars, UpInv
<1> QED BY <1>2, <1>4, <1>5, OneMoves DEF UpInv

(* A call takes the token in use, which is no older than the one it was    *)
(* given when it renewed.                                                  *)
LEMMA GetTokenKeeps ==
    ASSUME UpInv, NEW c \in Calls, GetToken(c)
    PROVE  UpInv'
<1> DEFINE r == [call[c] EXCEPT !.at = "flying", !.token = token]
<1>1. call[c] \in CallRecord /\ Sound(call[c], token) /\ token \in Nat
  BY DEF UpInv
<1>2. r \in CallRecord
  BY Zenon, <1>1 DEF CallRecord, Places
<1>3. r.at = "flying" /\ r.first = call[c].first /\ r.token = token /\ r.got = call[c].got
  BY <1>1 DEF CallRecord
<1>4. Sound(r, token)
  BY <1>1, <1>3 DEF Sound, GetToken
<1>5. call' = [call EXCEPT ![c] = r] /\ token' = token /\ issued' = issued
  BY Zenon DEF GetToken, authVars, UpInv
<1> QED BY <1>2, <1>4, <1>5, OneMoves DEF UpInv

(* The answer of OpsRamp ends the call or makes it wait for its back-off.  *)
LEMMA InvokedKeeps ==
    ASSUME UpInv, NEW c \in Calls, Invoked(c)
    PROVE  UpInv'
<1>1. call[c] \in CallRecord /\ Sound(call[c], token) /\ token \in Nat
  BY DEF UpInv
<1>2. PICK answer \in Answers(c), retryInfo \in BOOLEAN :
        call' = [call EXCEPT ![c] =
                    IF answer[1] = "OK" THEN Bare("ok", answer[2])
                    ELSE IF ~shouldRetry(answer[1], retryInfo) THEN Bare("failed", FALSE)
                    ELSE [call[c] EXCEPT !.at = "waiting", !.token = 0, !.got = 0,
                                         !.taken = call[c].taken \/ answer[2],
                                         !.refused = answer[1] = "Unauthenticated",
                                         !.first = IF call[c].ticks = 0 THEN answer[1]
                                                   ELSE call[c].first]]
  BY Zenon, <1>1 DEF Invoked, UpInv
<1>3. token' = token /\ issued' = issued
  BY DEF Invoked, authVars
<1>4. /\ answer[1] \in Codes /\ answer[2] \in BOOLEAN
      /\ answer[1] = "OK" => answer[2] = TRUE
  <2>1. \/ answer \in {"Canceled", "Unavailable"} \X BOOLEAN
        \/ answer = <<"Unauthenticated", FALSE>>
        \/ answer = <<"OK", TRUE>>
        \/ answer = <<"ResourceExhausted", FALSE>>
    BY Zenon DEF Answers
  <2>2. CASE answer \in {"Canceled", "Unavailable"} \X BOOLEAN
    BY <2>2 DEF Codes
  <2>3. CASE answer = <<"Unauthenticated", FALSE>>
    BY <2>3 DEF Codes
  <2>4. CASE answer = <<"OK", TRUE>>
    BY <2>4 DEF Codes
  <2>5. CASE answer = <<"ResourceExhausted", FALSE>>
    BY <2>5 DEF Codes
  <2> QED BY Zenon, <2>1, <2>2, <2>3, <2>4, <2>5
<1>5. CASE answer[1] = "OK"
  <2> DEFINE r == Bare("ok", TRUE)
  <2>1. r \in CallRecord /\ Sound(r, token)
    BY DEF CallRecord, Sound, Bare, Places, Codes
  <2>3. call' = [call EXCEPT ![c] = r]
    BY Zenon, <1>2, <1>4, <1>5
  <2> QED BY ZenonT(40), SMT, <2>1, <2>3, <1>3, OneMoves DEF UpInv
<1>6. CASE answer[1] # "OK" /\ ~shouldRetry(answer[1], retryInfo)
  <2> DEFINE r == Bare("failed", FALSE)
  <2>1. r \in CallRecord /\ Sound(r, token)
    BY Zenon DEF CallRecord, Sound, Bare, Places, Codes
  <2>4. call' = [call EXCEPT ![c] = r]
    BY <1>2, <1>6
  <2> QED BY ZenonT(40), SMT, <2>1, <2>4, <1>3, OneMoves DEF UpInv
<1>7. CASE answer[1] # "OK" /\ shouldRetry(answer[1], retryInfo)
  <2> DEFINE g == IF call[c].ticks = 0 THEN answer[1] ELSE call[c].first
             r == [call[c] EXCEPT !.at = "waiting", !.token = 0, !.got = 0,
                                  !.taken = call[c].taken \/ answer[2],
                                  !.refused = answer[1] = "Unauthenticated", !.first = g]
  <2>1. g \in Codes
    BY <1>1, <1>4 DEF CallRecord
  <2>2. r \in CallRecord /\ r.at = "waiting"
    <3> HIDE DEF g
    <3>1. /\ (call[c].taken \/ answer[2]) \in BOOLEAN
          /\ (answer[1] = "Unauthenticated") \in BOOLEAN
      OBVIOUS
    <3>2. "waiting" \in Places
      BY DEF Places
    <3> QED BY Zenon, <3>1, <3>2, <1>1, <2>1 DEF CallRecord
  <2>3. Sound(r, token)
    BY <2>2 DEF Sound
  <2>4. call' = [call EXCEPT ![c] = r]
    BY <1>2, <1>7
  <2> QED BY ZenonT(40), SMT, <2>2, <2>3, <2>4, <1>3, OneMoves DEF UpInv
<1> QED BY <1>5, <1>6, <1>7

(* The back-off stops.                                                     *)
LEMMA StopKeeps ==
    ASSUME UpInv, NEW c \in Calls, Stop(c)
    PROVE  UpInv'
<1> DEFINE r == Bare("exhausted", FALSE)
<1>1. r \in CallRecord /\ Sound(r, token)
  BY DEF CallRecord, Sound, Bare, Places, Codes
<1>2. call' = [call EXCEPT ![c] = r] /\ token' = token /\ issued' = issued
  BY DEF Stop, authVars
<1> QED BY ZenonT(40), SMT, <1>1, <1>2, OneMoves DEF UpInv

(* A call gets the new connection.                                         *)
LEMMA GetConnKeeps ==
    ASSUME UpInv, NEW c \in Calls, GetConn(c)
    PROVE  UpInv'
<1> DEFINE r == [call[c] EXCEPT !.at = "token", !.open = TRUE]
<1>1. call[c] \in CallRecord /\ Sound(call[c], token)
  BY DEF UpInv
<1>2. r \in CallRecord
  BY Zenon, <1>1 DEF CallRecord, Places
<1>3. r.at = "token" /\ r.first = call[c].first
  BY <1>1 DEF CallRecord
<1>4. Sound(r, token)
  BY <1>1, <1>3 DEF Sound, GetConn
<1>5. call' = [call EXCEPT ![c] = r] /\ token' = token /\ issued' = issued
  BY Zenon DEF GetConn, authVars, UpInv
<1> QED BY <1>2, <1>4, <1>5, OneMoves DEF UpInv

(* A tick of the back-off: by the first code, the call renews the          *)
(* connection or the token, or tries again.                                *)
LEMMA TickKeeps ==
    ASSUME UpInv, NEW c \in Calls, Tick(c)
    PROVE  UpInv'
<1>1. call[c] \in CallRecord /\ Sound(call[c], token)
  BY DEF UpInv
<1>2. token' = token /\ issued' = issued
  BY DEF Tick, TryLock, authVars
<1>3. CASE /\ call[c].first = "Unavailable"
           /\ call' = [RenewConnection EXCEPT ![c].at = "conn",
                                                 ![c].ticks = call[c].ticks + 1]
  <2> DEFINE shut(d) == [call[d] EXCEPT !.open = FALSE]
  <2>1. \A d \in Calls : /\ shut(d) \in CallRecord
                            /\ shut(d).at = call[d].at /\ shut(d).first = call[d].first
                            /\ shut(d).got = call[d].got /\ shut(d).token = call[d].token
    BY ZenonT(40), SMT DEF UpInv, CallRecord
  <2>2. \A d \in Calls : shut(d).taken = call[d].taken
    BY DEF UpInv, CallRecord
  <2>3. \A d \in Calls : Sound(shut(d), token)
    BY <2>1, <2>2 DEF UpInv, Sound
  <2> DEFINE r == [shut(c) EXCEPT !.at = "conn", !.ticks = call[c].ticks + 1]
  <2>4. call' = [d \in Calls |-> IF d = c THEN r ELSE shut(d)]
    BY Zenon, <1>3 DEF RenewConnection
  <2>5. r \in CallRecord /\ r.at = "conn" /\ r.first = call[c].first
    <3>1. "conn" \in Places /\ call[c].ticks + 1 \in Nat
      BY <1>1 DEF Places, CallRecord
    <3>2. shut(c) \in CallRecord
      BY <2>1
    <3>3. shut(c).first = call[c].first
      BY <2>1
    <3> HIDE DEF shut
    <3> QED BY ZenonT(40), SMT, <3>1, <3>2, <3>3 DEF CallRecord
  <2>6. Sound(r, token)
    BY Zenon, <2>5, <1>3 DEF Sound
  <2> HIDE DEF r, shut
  <2>7. call' \in [Calls -> CallRecord]
    BY <2>1, <2>4, <2>5
  <2>8. \A d \in Calls : Sound(call'[d], token)
    BY <2>3, <2>4, <2>6
  <2> QED BY <2>7, <2>8, <1>2 DEF UpInv, Calls
<1>4. CASE call' = [call EXCEPT ![c].at = "renew", ![c].ticks = call[c].ticks + 1]
  <2> DEFINE r == [call[c] EXCEPT !.at = "renew", !.ticks = call[c].ticks + 1]
  <2>0. "renew" \in Places /\ call[c].ticks + 1 \in Nat
    BY <1>1 DEF Places, CallRecord
  <2>1. r \in CallRecord /\ r.at = "renew"
    BY Zenon, <1>1, <2>0 DEF CallRecord
  <2>2. Sound(r, token)
    BY <2>1 DEF Sound
  <2>3. call' = [call EXCEPT ![c] = r]
    BY Zenon, <1>4 DEF UpInv
  <2> QED BY Zenon, <2>1, <2>2, <2>3, <1>2, OneMoves DEF UpInv
<1>5. CASE /\ call[c].first # "Unauthenticated"
           /\ call' = [call EXCEPT ![c].at = "token", ![c].ticks = call[c].ticks + 1]
  <2> DEFINE r == [call[c] EXCEPT !.at = "token", !.ticks = call[c].ticks + 1]
  <2>0. "token" \in Places /\ call[c].ticks + 1 \in Nat
    BY <1>1 DEF Places, CallRecord
  <2>1. r \in CallRecord /\ r.at = "token" /\ r.first = call[c].first
    BY Zenon, <1>1, <2>0 DEF CallRecord
  <2>2. Sound(r, token)
    BY <1>5, <2>1 DEF Sound
  <2>3. call' = [call EXCEPT ![c] = r]
    BY Zenon, <1>5 DEF UpInv
  <2> QED BY ZenonT(40), SMT, <2>1, <2>2, <2>3, <1>2, OneMoves DEF UpInv
<1> QED BY <1>3, <1>4, <1>5 DEF Tick

(* Renew puts a token in the place of the old one that is not older.       *)
LEMMA RenewGrows ==
    ASSUME UpInv, NEW r, Renew(r)
    PROVE  issued' \in Nat /\ token' \in Nat /\ token <= token' /\ token' <= issued'
BY DEF UpInv, Renew, Issue

(* Steps that leave the calls alone.                                       *)
LEMMA CallsStay ==
    ASSUME UpInv, call' = call,
           issued' \in Nat, token' \in Nat, token <= token', token' <= issued'
    PROVE  UpInv'
<1>1. \A c \in Calls : Sound(call[c], token')
  BY SoundGrows DEF UpInv
<1> QED BY <1>1 DEF UpInv, Calls

(* A call that waited for the renewal has a token of it, or fails with its *)
(* error.                                                                  *)
LEMMA RenewedKeeps ==
    ASSUME UpInv, NEW c \in Calls, Renewed(c)
    PROVE  UpInv'
<1>1. call[c] \in CallRecord /\ issued \in Nat /\ token \in Nat /\ token <= issued
  BY DEF UpInv
<1> DEFINE back(n) == [call[c] EXCEPT !.at = "token", !.got = n]
<1>2. \A n \in Nat : back(n) \in CallRecord /\ back(n).at = "token" /\ back(n).got = n
  <2>1. "token" \in Places
    BY Zenon DEF Places
  <2> QED BY Zenon, <1>1, <2>1 DEF CallRecord
<1>5. \A n \in Nat : back(n + 1) \in CallRecord /\ Sound(back(n + 1), n)
  <2> SUFFICES ASSUME NEW n \in Nat
               PROVE  back(n + 1) \in CallRecord /\ Sound(back(n + 1), n)
    BY Zenon
  <2> HIDE DEF back
  <2>1. n + 1 \in Nat /\ n + 1 > 0 /\ n + 1 >= n + 1
    OBVIOUS
  <2>2. /\ back(n + 1) \in CallRecord /\ back(n + 1).at = "token"
        /\ back(n + 1).got = n + 1
    BY <1>2, <2>1
  <2> QED BY <2>1, <2>2 DEF Sound
<1>3. CASE Renew(c)
  <2>1. issued' \in Nat /\ token' \in Nat /\ token <= token' /\ token' <= issued'
    BY <1>3, RenewGrows
  <2>2. CASE issuing = "broken" /\ call' = [call EXCEPT ![c] = Bare("failed", FALSE)]
    <3> DEFINE r == Bare("failed", FALSE)
    <3>1. r \in CallRecord /\ Sound(r, token')
      BY <2>1 DEF CallRecord, Sound, Bare, Places, Codes
    <3> QED BY ZenonT(40), SMT, <2>1, <2>2, <3>1, OneMoves
  <2>3. CASE call' = [call EXCEPT ![c] = back(token' + 1)]
    <3>1. back(token' + 1) \in CallRecord /\ Sound(back(token' + 1), token')
      BY Zenon, <1>5, <2>1
    <3> HIDE DEF back
    <3> QED BY Zenon, <2>1, <2>3, <3>1, OneMoves
  <2>4. call' = [call EXCEPT ![c] =
                    IF issuing = "broken" THEN Bare("failed", FALSE)
                    ELSE back(token' + 1)]
     BY Zenon, <1>3 DEF Renewed, Renew, Served
  <2> QED BY Zenon, <2>2, <2>3, <2>4
<1>4. CASE Served(c) /\ call' = [call EXCEPT ![c].at = "token", ![c].got = token + 1]
  <2>1. back(token + 1) \in CallRecord /\ Sound(back(token + 1), token)
    BY Zenon, <1>5, <1>1
  <2>2. call' = [call EXCEPT ![c] = back(token + 1)]
    BY Zenon, <1>4 DEF UpInv
  <2>3. token' = token /\ issued' = issued
    BY <1>4 DEF Served
  <2>4. Sound(back(token + 1), token')
    BY <2>1, <2>3
  <2>5. issued' \in Nat /\ token' \in Nat /\ token <= token' /\ token' <= issued'
    BY <1>1, <2>3
  <2> HIDE DEF back
  <2> QED BY Zenon, <2>1, <2>2, <2>4, <2>5, OneMoves
<1> QED BY Zenon, <1>3, <1>4 DEF Renewed

(* Every step keeps the invariant.                                         *)
LEMMA UpStep ==
    ASSUME UpInv, [UpstreamNext]_upstreamVars
    PROVE  UpInv'
<1>1. CASE StartRenews
  BY <1>1, RenewGrows, CallsStay DEF StartRenews
<1>2. CASE Liveliness
  <2>1. call' = call
    BY <1>2 DEF Liveliness
  <2>2. CASE Renew(Live)
    BY ZenonT(40), SMT, <2>1, <2>2, RenewGrows, CallsStay
  <2>3. CASE TryLock(Live) \/ Served(Live)
    BY <2>1, <2>3, CallsStay DEF TryLock, Served, UpInv
  <2> QED BY <1>2, <2>2, <2>3 DEF Liveliness
<1>3. CASE \/ Change \/ \E b \in BOOLEAN : Set(b)
           \/ newRedisPeers \/ registerSelf \/ Expires \/ UNCHANGED upstreamVars
  <2>1. call' = call /\ issued' = issued /\ token' = token
    BY <1>3 DEF Change, Set, newRedisPeers, registerSelf, Heartbeat,
                Unregister, Expires, upstreamVars, authVars
  <2> QED BY ZenonT(40), SMT, <2>1, CallsStay DEF UpInv
<1>4. ASSUME NEW c \in Calls, Begin(c) \/ Proceed(c)
      PROVE  UpInv'
  BY ZenonT(40), SMT, <1>4, BeginKeeps, GetTokenKeeps, InvokedKeeps, StopKeeps, TickKeeps, GetConnKeeps,
     RenewedKeeps DEF Proceed
<1> QED BY <1>1, <1>2, <1>3, <1>4 DEF UpstreamNext

(* The invariant holds in every state that can be reached.                 *)
LEMMA UpInvHolds == UpstreamSpec => []UpInv
<1>1. UpInv /\ [UpstreamNext]_upstreamVars => UpInv'
  BY UpStep
<1> QED BY UpInit, <1>1, PTL DEF UpstreamSpec

(* OKMeansDelivered, for any number of calls, retries and renewals: a call *)
(* that reports success has been taken by OpsRamp.                         *)
THEOREM OKIsDelivered == UpstreamSpec => []OKMeansDelivered
<1>1. UpInv => OKMeansDelivered
  BY DEF UpInv, Sound, CallRecord, OKMeansDelivered
<1> QED BY <1>1, UpInvHolds, PTL

(* FirstRefusalRenews, for any number of calls, retries and renewals: a    *)
(* call whose first answer was Unauthenticated is repeated with a token at *)
(* least as new as the one its renewal gave it.                            *)
THEOREM RetriesWithNewToken == UpstreamSpec => []FirstRefusalRenews
<1>1. UpInv => FirstRefusalRenews
  BY DEF UpInv, Sound, CallRecord, FirstRefusalRenews
<1> QED BY <1>1, UpInvHolds, PTL
=============================================================================
