---------------------------- MODULE MCCollector -----------------------------
(* Small instances of Collector for TLC.                                   *)
EXTENDS Collector

CONSTANTS a1, a2, b1, A, B

MCTraceOf == [s \in Spans |-> IF s = b1 THEN B ELSE A]
MCRoots == {a2, b1}
MCSamplerKeyOf == [id \in TraceIDs |-> IF id = B /\ "kb" \in SamplerKeys THEN "kb" ELSE "ka"]

Conf(c, k, o, d) == [capacity |-> c, keptSize |-> k, overrun |-> o, dryRun |-> d]
MCStart == Conf(1, 1, "resize", FALSE)
MCConfigs == {Conf(0, 1, "impact", FALSE), Conf(2, 1, "resize", TRUE)}
MCKeptSizes == {Conf(2, 2, "impact", FALSE)}
=============================================================================
