--------------------------- MODULE TraceVerdicts ----------------------------
(***************************************************************************)
(* What a tail-sampling collector promises its clients.  A span is refused *)
(* at once or held.  A trace without a remembered verdict is judged, and   *)
(* the spans gathered for it are delivered or discarded together; later    *)
(* spans follow the verdict for as long as it is remembered.  While dry    *)
(* run is on every span is delivered.                                      *)
(***************************************************************************)
EXTENDS Traces

VARIABLES
    status,   \* of each span
    verdict,  \* remembered for each trace: "keep", "drop" or "none"
    dryRun

vars == <<status, verdict, dryRun>>

Init ==
    /\ status = [s \in Spans |-> "new"]
    /\ verdict = [id \in TraceIDs |-> "none"]
    /\ dryRun \in BOOLEAN

Fate(v) == IF v = "keep" \/ dryRun THEN "delivered" ELSE "discarded"

Submit(s) ==
    /\ status[s] = "new"
    /\ \E r \in {"held", "refused"} : status' = [status EXCEPT ![s] = r]
    /\ UNCHANGED <<verdict, dryRun>>

(* Memory is bounded: a new verdict may push others out.                   *)
Judge(id) ==
    /\ verdict[id] = "none"
    /\ \E v \in {"keep", "drop"}, forgotten \in SUBSET (TraceIDs \ {id}),
          S \in SUBSET {s \in Spans : TraceOf[s] = id /\ status[s] = "held"} :
          /\ S # {}
          /\ status' = [s \in Spans |-> IF s \in S THEN Fate(v) ELSE status[s]]
          /\ verdict' = [j \in TraceIDs |-> IF j = id THEN v
                                            ELSE IF j \in forgotten THEN "none"
                                            ELSE verdict[j]]
    /\ UNCHANGED dryRun

Follow(s) ==
    /\ status[s] = "held" /\ verdict[TraceOf[s]] # "none"
    /\ status' = [status EXCEPT ![s] = Fate(verdict[TraceOf[s]])]
    /\ UNCHANGED <<verdict, dryRun>>

Forget ==
    /\ \E forgotten \in SUBSET TraceIDs :
          verdict' = [id \in TraceIDs |-> IF id \in forgotten THEN "none"
                                                              ELSE verdict[id]]
    /\ UNCHANGED <<status, dryRun>>

SwitchDryRun ==
    /\ dryRun' = ~dryRun
    /\ UNCHANGED <<status, verdict>>

Next ==
    \/ \E s \in Spans : Submit(s) \/ Follow(s)
    \/ \E id \in TraceIDs : Judge(id)
    \/ Forget \/ SwitchDryRun

Spec == Init /\ [][Next]_vars
=============================================================================
