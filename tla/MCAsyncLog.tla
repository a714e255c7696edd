---------------------------- MODULE MCAsyncLog ------------------------------
(* Small instances of AsyncLog.                                            *)
EXTENDS AsyncLog, TLC

CONSTANTS p1, p2, w1, w2

MCProducers == {p1, p2}
MCPools == {{w1}, {w1, w2}}
MCPolicies == {{p1}}
MCBursts == [s \in Senders |-> IF s = p1 THEN 2 ELSE 1]
=============================================================================
