----------------------------- MODULE AtomicSwap -----------------------------
(***************************************************************************)
(* What the swap promises, without processes, messages, slates or blocks:  *)
(* who holds the two coins, whether Alice has the witness x, and whether   *)
(* the lock time of the Bitcoin output has passed.  The design is the one  *)
(* of src/README.md: the bitcoins are committed first, the grins only      *)
(* after them; x passes to Alice while the grins are shared and neither    *)
(* coin moves on to its buyer before that; a refund waits for the lock     *)
(* time, and for that of the bitcoins on either side.                      *)
(***************************************************************************)
VARIABLES
    btc,       \* "bob", "locked", "alice" or "refunded"
    mw,        \* "alice", "shared", "bob" or "refunded"
    secret,    \* Alice has x
    expired    \* the lock time of the bitcoins has passed
vars == <<btc, mw, secret, expired>>

Init == btc = "bob" /\ mw = "alice" /\ secret = FALSE /\ expired = FALSE

Lock == btc = "bob" /\ btc' = "locked" /\ expired' \in BOOLEAN /\ UNCHANGED <<mw, secret>>
Expire == btc # "bob" /\ expired' = TRUE /\ UNCHANGED <<btc, mw, secret>>
Fund == mw = "alice" /\ btc # "bob" /\ mw' = "shared" /\ UNCHANGED <<btc, secret, expired>>
Reveal == mw = "shared" /\ secret' = TRUE /\ UNCHANGED <<btc, mw, expired>>
Redeem == secret /\ btc = "locked" /\ btc' = "alice" /\ UNCHANGED <<mw, secret, expired>>
Claim == secret /\ mw = "shared" /\ mw' = "bob" /\ UNCHANGED <<btc, secret, expired>>
RefundBtc == expired /\ btc = "locked" /\ btc' = "refunded" /\ UNCHANGED <<mw, secret, expired>>
RefundMw == expired /\ mw = "shared" /\ mw' = "refunded" /\ UNCHANGED <<btc, secret, expired>>

Next == Lock \/ Expire \/ Fund \/ Reveal \/ Redeem \/ Claim \/ RefundBtc \/ RefundMw
Spec == Init /\ [][Next]_vars
=============================================================================
