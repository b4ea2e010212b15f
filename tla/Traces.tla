------------------------------- MODULE Traces -------------------------------
(***************************************************************************)
(* The spans and trace IDs that the collector's modules share              *)
(* (types/event.go).                                                       *)
(***************************************************************************)
EXTENDS Integers, Sequences

CONSTANTS
    Spans,     \* the spans that ever reach this node
    TraceIDs,
    TraceOf,   \* TraceOf[s]: the trace ID that span s carries
    Nil        \* a nil pointer

ASSUME SpansAssumption ==
    /\ TraceOf \in [Spans -> TraceIDs]
    /\ Nil \notin Spans
=============================================================================
