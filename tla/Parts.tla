------------------------------- MODULE Parts -------------------------------
(***************************************************************************)
(* For checking several parts of the programs in one run of TLC: a         *)
(* behaviour is one of the part that is chosen in its first state.  The    *)
(* variables of a part take the first of the slots, the others are not     *)
(* used; parts never interact here.                                        *)
(***************************************************************************)
EXTENDS Integers

VARIABLES
    part,       \* the part that runs
    s1, s2, s3, s4, s5, s6, s7,
    s8, s9, s10, s11, s12, s13, s14, s15

allvars == <<part, s1, s2, s3, s4, s5, s6, s7, s8, s9, s10, s11, s12, s13, s14, s15>>

\* The part p with n variables is the one that runs, and it is the one that steps.
Starts(p, n) ==
    /\ part = p
    /\ IF n < 3 THEN s3 = 0 ELSE TRUE
    /\ IF n < 4 THEN s4 = 0 ELSE TRUE
    /\ IF n < 5 THEN s5 = 0 ELSE TRUE
    /\ IF n < 6 THEN s6 = 0 ELSE TRUE
    /\ IF n < 7 THEN s7 = 0 ELSE TRUE
    /\ IF n < 8 THEN s8 = 0 ELSE TRUE
    /\ IF n < 9 THEN s9 = 0 ELSE TRUE
    /\ IF n < 10 THEN s10 = 0 ELSE TRUE
    /\ IF n < 11 THEN s11 = 0 ELSE TRUE
    /\ IF n < 12 THEN s12 = 0 ELSE TRUE
    /\ IF n < 13 THEN s13 = 0 ELSE TRUE
    /\ IF n < 14 THEN s14 = 0 ELSE TRUE
    /\ IF n < 15 THEN s15 = 0 ELSE TRUE
Steps(p, n) ==
    /\ part = p /\ UNCHANGED part
    /\ IF n < 3 THEN UNCHANGED s3 ELSE TRUE
    /\ IF n < 4 THEN UNCHANGED s4 ELSE TRUE
    /\ IF n < 5 THEN UNCHANGED s5 ELSE TRUE
    /\ IF n < 6 THEN UNCHANGED s6 ELSE TRUE
    /\ IF n < 7 THEN UNCHANGED s7 ELSE TRUE
    /\ IF n < 8 THEN UNCHANGED s8 ELSE TRUE
    /\ IF n < 9 THEN UNCHANGED s9 ELSE TRUE
    /\ IF n < 10 THEN UNCHANGED s10 ELSE TRUE
    /\ IF n < 11 THEN UNCHANGED s11 ELSE TRUE
    /\ IF n < 12 THEN UNCHANGED s12 ELSE TRUE
    /\ IF n < 13 THEN UNCHANGED s13 ELSE TRUE
    /\ IF n < 14 THEN UNCHANGED s14 ELSE TRUE
    /\ IF n < 15 THEN UNCHANGED s15 ELSE TRUE
=============================================================================
