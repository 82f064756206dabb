-------------------------- MODULE MCRequestManager --------------------------
(* Instances of RequestManager for TLC. *)
EXTENDS RequestManager, TLC

CONSTANTS r1, r2, r3, s1, s2

OneSession == [r \in Requests |-> s1]
TwoSessions == [r \in Requests |-> IF r = r3 THEN s2 ELSE s1]

\* Everybody asks for P3_NORMAL, the gateway's default.
AllNormal == [r \in Requests |-> 3]

\* r1 asks for P3_NORMAL, r2 for P0_EMERGENCY, r3 for P4_BACKGROUND.
Mixed == [r \in Requests |-> CASE r = r1 -> 3 [] r = r2 -> 0 [] OTHER -> 4]

RunSymmetry == Permutations(Runs)
=============================================================================
