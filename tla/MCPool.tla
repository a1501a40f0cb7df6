------------------------------- MODULE MCPool -------------------------------
(* Small instances of Pool for TLC: three applications, the first with two clients. *)
EXTENDS Pool

CONSTANTS r1, r2, r3, r4
MCOrder == <<"A", "B", "C">>
MCApp == [r \in Request |-> IF r \in {r1, r2} THEN "A" ELSE IF r = r3 THEN "B" ELSE "C"]
=============================================================================
