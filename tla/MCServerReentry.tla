-------------------------- MODULE MCServerReentry ---------------------------
(* Instances of ServerReentry for TLC *)
EXTENDS ServerReentry

CONSTANTS a1, a2, s1, s2

TwoApps   == {a1, a2}
TwoShells == {s1, s2}

=============================================================================
