--------------------------- MODULE SwapRefinement ---------------------------
(***************************************************************************)
(* The protocol of the two programs implements AtomicSwap.  The coins are  *)
(* where the ledgers say; Alice has x once exec_phase_swap_mw has          *)
(* extracted it; the time that counts is that of the Bitcoin chain.        *)
(***************************************************************************)
EXTENDS SwapProtocol

btcHolder ==
    CASE btcOut.state = "none" -> "bob"
      [] btcOut.state = "redeemed" -> "alice"
      [] btcOut.state = "refunded" -> "refunded"
      [] OTHER -> "locked"
mwHolder ==
    CASE mwOut.state = "none" -> "alice"
      [] mwOut.state = "contract" -> "bob"
      [] OTHER -> mwOut.state
btcExpired == btcOut.state # "none" /\ btcHeight > btcOut.lock_time

Swap == INSTANCE AtomicSwap WITH btc <- btcHolder, mw <- mwHolder, secret <- (x # 0), expired <- btcExpired

\* Whatever the processes do, crashed and restarted ones included, every step of locking_phase_swap_*,
\* exec_phase_swap_* and refund_phase_swap_* is a step of the abstract swap or changes nothing in it.
ImplementsAtomicSwap == Swap!Spec
=============================================================================
