--------------------------- MODULE MCSwapProtocol ---------------------------
(* Small instances of SwapProtocol: one party per side, short timeouts.    *)
EXTENDS SwapProtocol

MCTimelock == [p \in Party |-> 1]
MCHour == [p \in Party |-> 1]
MCAmount == [p \in Party |-> 2]
MCFee == [p \in Party |-> 1]
\* Inputs that leave change, leave none, or do not cover a fee.
Funded == [p \in Party |-> 4]
MCValues == {Funded}
MCAllValues == {Funded, [Funded EXCEPT !["mw"] = 3], [Funded EXCEPT !["mw"] = 2],
                [Funded EXCEPT !["btc"] = 2]}
=============================================================================
