--------------------------- MODULE MCCommandPath ---------------------------
(* Instances of CommandPath for TLC: requests are model values.           *)
EXTENDS CommandPath

CONSTANTS r1, r2, r3, r4

MCRequests == {r1, r2, r3, r4}
MCUndecodable == {r4}
MCMalformed == {r4}
MCDiagnostics == {r3}
MCNone == {}
=============================================================================
