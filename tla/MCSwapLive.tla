----------------------------- MODULE MCSwapLive -----------------------------
(***************************************************************************)
(* The liveness of SwapProtocol, for TLC.  A behaviour is of one of three  *)
(* kinds: processes are killed; none is; or none is and the users cancel a *)
(* swap that is set up.                                                    *)
(***************************************************************************)
EXTENDS MCSwapProtocol

VARIABLE kind
liveVars == <<kind, vars>>

LiveInit ==
    /\ kind \in {"killed", "unharmed", "cancelled"} /\ Init
    /\ exact \/ value = Funded
    /\ kind # "unharmed" => exact /\ value = Funded

\* Bounds on the numbers of sessions and of blocks.
Few(sessions, btc, grin) == session' <= sessions /\ btcHeight' <= btc /\ grinHeight' <= grin
Killed == kind = "killed" /\ Next /\ Few(1, 2, 1) /\ UNCHANGED kind
Quiet == (\E p \in Party : ProcessStep(p)) \/ UserStep \/ Mine
Unharmed == kind = "unharmed" /\ Quiet /\ Few(2, 2, 2) /\ UNCHANGED kind
Cancelled == kind = "cancelled" /\ Quiet /\ Cancelling /\ Few(1, 3, 3) /\ UNCHANGED kind
LiveNext == Killed \/ Unharmed \/ Cancelled

\* FairSpec for the first two kinds and CancelSpec for the third.
Kept(A) == A /\ UNCHANGED kind
Canceller(A) == kind = "cancelled" /\ Kept(A)
LiveSpec ==
    /\ LiveInit /\ [][LiveNext]_liveVars
    /\ \A p \in Party : WF_liveVars(Kept(ProcessStep(p)))
    /\ WF_liveVars(Canceller(MineBtc /\ Mine)) /\ WF_liveVars(Canceller(MineGrin /\ Mine))
    /\ WF_liveVars(Canceller(Listen)) /\ SF_liveVars(Canceller(Cancel))

-----------------------------------------------------------------------------
\* Every session ends, whoever is killed: neither party waits for the other for
\* ever (read_from_stream fails when the connection is closed).
SessionsAlwaysEnd == kind # "cancelled" => SessionsEnd
\* When the execution has paid one party and no process is killed, it pays the
\* other one (exec_phase_swap_mw, exec_phase_swap_btc).
UnharmedGetPaid == kind = "unharmed" => BothGetPaid
\* Parties that keep cancelling once both lock times have passed get their coins
\* back (refund_phase_swap_mw, refund_phase_swap_btc).
CancelUnlocksInTheEnd == kind = "cancelled" => MatureCancelUnlocks
=============================================================================
