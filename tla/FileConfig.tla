----------------------------- MODULE FileConfig -----------------------------
(***************************************************************************)
(* The live configuration: a config file and a rules file, each held by a  *)
(* viper whose watcher goroutine re-reads the file after a change and then *)
(* calls onChange; onChange validates, unmarshals both vipers into conf    *)
(* and runs the reload callbacks.  The two watchers run concurrently.      *)
(*                                                                         *)
(* The contents of a file are abstract values.  Rejected ones fail the     *)
(* struct tags or validateGeneralConfigs (config) or the sampler checks    *)
(* (rules); Garbled ones do not decode into configContents; Unparsable     *)
(* ones are not YAML.                                                      *)
(***************************************************************************)
EXTENDS Naturals

CONSTANTS
    Contents,       \* what either file may hold
    Start,          \* what both hold when the process starts
    Rejected,
    Garbled,
    Unparsable,
    Consumers,      \* of the configuration: the collector, the transmissions
    MaxEdits        \* bound: edits of the two files

ASSUME ContentsAssumption ==
    /\ Start \in Contents
    /\ Rejected \subseteq Contents /\ Start \notin Rejected
    /\ Garbled \subseteq Contents /\ Start \notin Garbled
    /\ Unparsable \subseteq Contents /\ Start \notin Unparsable
    /\ MaxEdits \in Nat

Files == {"config", "rules"}

VARIABLES
    file,       \* on disk
    events,     \* file change events each watcher has yet to handle
    viper,      \* what the viper of each file last read
    conf,       \* f.conf: the part decoded from each file
    pc,         \* of each watcher
    todo,       \* callbacks the running onChange of each watcher has yet to call
    callbacks,  \* f.callbacks
    started,    \* consumers that have read their first values
    seen,       \* the configuration each consumer last looked at
    edits,
    early       \* a file changed before every consumer had registered

configVars == <<file, events, viper, conf, pc, todo, callbacks, started, seen, edits, early>>

Both == [Files -> Contents]

ConfigTypeOK ==
    /\ file \in Both /\ viper \in Both /\ conf \in Both
    /\ events \in [Files -> Nat]
    /\ pc \in [Files -> {"watch", "check", "load", "notify", "call"}]
    /\ todo \in [Files -> SUBSET Consumers]
    /\ callbacks \subseteq started /\ started \subseteq Consumers
    /\ seen \in [Consumers -> Both]
    /\ edits \in 0..MaxEdits /\ early \in BOOLEAN

(* NewConfig refuses to start on files that do not validate.               *)
ConfigInit ==
    /\ file = [f \in Files |-> Start]
    /\ viper = file /\ conf = file
    /\ events = [f \in Files |-> 0]
    /\ pc = [f \in Files |-> "watch"]
    /\ todo = [f \in Files |-> {}]
    /\ callbacks = {} /\ started = {}
    /\ seen = [c \in Consumers |-> file]
    /\ edits = 0 /\ early = FALSE

(* An operator, or a config map update, rewrites a file.  Truncating and   *)
(* then writing it is two edits.                                           *)
Edit(f, x) ==
    /\ edits < MaxEdits
    /\ x # file[f]
    /\ file' = [file EXCEPT ![f] = x]
    /\ events' = [events EXCEPT ![f] = @ + 1]
    /\ edits' = edits + 1
    /\ early' = (early \/ callbacks # Consumers)
    /\ UNCHANGED <<viper, conf, pc, todo, callbacks, started, seen>>

(* A consumer's Start reads its settings first and registers afterwards.   *)
ReadAtStart(c) ==
    /\ c \notin started
    /\ started' = started \cup {c}
    /\ seen' = [seen EXCEPT ![c] = conf]
    /\ UNCHANGED <<file, events, viper, conf, pc, todo, callbacks, edits, early>>

RegisterReloadCallback(c) ==
    /\ c \in started \ callbacks
    /\ callbacks' = callbacks \cup {c}
    /\ UNCHANGED <<file, events, viper, conf, pc, todo, started, seen, edits, early>>

(* viper.WatchConfig: read the file, keep the old contents when it does    *)
(* not parse, and call onChange either way.                                *)
ReadInConfig(f) ==
    /\ pc[f] = "watch" /\ events[f] > 0
    /\ events' = [events EXCEPT ![f] = @ - 1]
    /\ viper' = [viper EXCEPT ![f] = IF file[f] \in Unparsable THEN @ ELSE file[f]]
    /\ pc' = [pc EXCEPT ![f] = "check"]
    /\ UNCHANGED <<file, conf, todo, callbacks, started, seen, edits, early>>

(* The struct tags and validateGeneralConfigs look at f.conf, which holds  *)
(* the settings in use; validateSamplerConfigs looks at the rules viper.   *)
Passes ==
    /\ \A g \in Files : conf[g] \notin Rejected
    /\ viper["rules"] \notin Rejected

validate(f) ==
    /\ pc[f] = "check"
    /\ pc' = [pc EXCEPT ![f] = IF Passes THEN "load" ELSE "watch"]
    /\ UNCHANGED <<file, events, viper, conf, todo, callbacks, started, seen, edits, early>>

(* Variant: the callbacks are not run.                                     *)
unmarshalSilent(f) ==
    /\ pc[f] = "load"
    /\ conf' = viper
    /\ pc' = [pc EXCEPT ![f] = "watch"]
    /\ UNCHANGED <<file, events, viper, todo, callbacks, started, seen, edits, early>>

(* Variant: the rules are not decoded again.                               *)
unmarshalStale(f) ==
    /\ pc[f] = "load"
    /\ conf' = [conf EXCEPT !["config"] = viper["config"]]
    /\ pc' = [pc EXCEPT ![f] = "notify"]
    /\ UNCHANGED <<file, events, viper, todo, callbacks, started, seen, edits, early>>

(* Under the write lock.  A config that does not decode leaves the rules   *)
(* undecoded; onChange ignores the error.                                  *)
unmarshal(f) ==
    /\ pc[f] = "load"
    /\ conf' = IF viper["config"] \in Garbled
               THEN [conf EXCEPT !["config"] = viper["config"]]
               ELSE viper
    /\ pc' = [pc EXCEPT ![f] = "notify"]
    /\ UNCHANGED <<file, events, viper, todo, callbacks, started, seen, edits, early>>

(* The range over f.callbacks, without the lock.                           *)
RangeCallbacks(f) ==
    /\ pc[f] = "notify"
    /\ todo' = [todo EXCEPT ![f] = callbacks]
    /\ pc' = [pc EXCEPT ![f] = "call"]
    /\ UNCHANGED <<file, events, viper, conf, callbacks, started, seen, edits, early>>

Callback(f) ==
    /\ pc[f] = "call"
    /\ \E c \in todo[f] :
          /\ todo' = [todo EXCEPT ![f] = @ \ {c}]
          /\ seen' = [seen EXCEPT ![c] = conf]
    /\ UNCHANGED <<file, events, viper, conf, pc, callbacks, started, edits, early>>

EndOnChange(f) ==
    /\ pc[f] = "call" /\ todo[f] = {}
    /\ pc' = [pc EXCEPT ![f] = "watch"]
    /\ UNCHANGED <<file, events, viper, conf, todo, callbacks, started, seen, edits, early>>

onChange(f) ==
    validate(f) \/ unmarshal(f) \/ RangeCallbacks(f) \/ Callback(f) \/ EndOnChange(f)

ConfigNext ==
    \/ \E f \in Files, x \in Contents : Edit(f, x)
    \/ \E c \in Consumers : ReadAtStart(c) \/ RegisterReloadCallback(c)
    \/ \E f \in Files : ReadInConfig(f) \/ onChange(f)

ConfigSpec == ConfigInit /\ [][ConfigNext]_configVars

(* The watchers are goroutines the runtime schedules; startup goes on.     *)
ConfigFairness ==
    /\ \A f \in Files : WF_configVars(ReadInConfig(f) \/ onChange(f))
    /\ \A c \in Consumers : WF_configVars(ReadAtStart(c) \/ RegisterReloadCallback(c))

ConfigFairSpec == ConfigSpec /\ ConfigFairness
-----------------------------------------------------------------------------
Quiet ==
    /\ callbacks = Consumers
    /\ \A f \in Files : pc[f] = "watch" /\ events[f] = 0

(* Once both watchers are done, every consumer has looked at the           *)
(* configuration in use, however the two onChange calls interleaved: the   *)
(* callbacks run after the unmarshal they announce.  A file that changes   *)
(* between a consumer's first look and its registration is the exception.  *)
ConsumersCurrent ==
    Quiet /\ ~early => \A c \in Consumers : seen[c] = conf

Valid(x) == x \notin Rejected \cup Garbled \cup Unparsable

(* With files that validate, the settings in use end up being those on     *)
(* disk, both files included, whichever watcher comes last.                *)
FilesTakeEffect ==
    [](\A f \in Files : Valid(file[f])) => <>[](conf = file)

(* A change of a setting takes effect once the files on disk are valid     *)
(* again and stay so.                                                      *)
LiveReload ==
    <>[](\A f \in Files : Valid(file[f])) => <>[](conf = file)
=============================================================================
