------------------------------ MODULE MCRouting ------------------------------
(* Two nodes and five requests of the three kinds; the spans of trace t      *)
(* arrive at both nodes.  Requests 4 and 5 meet at the environment cache of  *)
(* n2, and 5 is compressed with gzip.                                        *)
EXTENDS Routing

MCKind == [r \in Requests |-> CASE r \in {1, 5} -> "event" [] r \in {2, 4} -> "batch" [] OTHER -> "otlp"]
MCAt == [r \in Requests |-> IF r \in {1, 2} THEN "n1" ELSE "n2"]
MCEvents == [r \in Requests |-> CASE r = 1 -> <<1>> [] r = 2 -> <<2, 3>> [] OTHER -> <<r + 1>>]
MCTraceOf == [s \in Spans |-> IF s = 3 THEN NoTrace ELSE "t"]
MCViews == [Traces -> Nodes]
=============================================================================
