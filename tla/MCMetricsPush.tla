---------------------------- MODULE MCMetricsPush ---------------------------
(* Configurations of one to three proxies, with fields of unequal length.  *)
EXTENDS MetricsPush

Parts(hosts, others, n) ==
    [cfg |-> [f \in Fields |-> IF f = "Host" THEN hosts ELSE others], faults |-> n]
ConfigsDef == {Parts(1, 1, 1), Parts(2, 3, 1), Parts(3, 3, 0)}
=============================================================================
