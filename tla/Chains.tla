------------------------------- MODULE Chains -------------------------------
(***************************************************************************)
(* The Bitcoin and the Grin ledger as the swap sees them through its two   *)
(* nodes (src/bitcoin/bitcoin_core.rs, src/grin/grin_core.rs).  The nodes  *)
(* are not part of the repository: they are modelled from the calls the    *)
(* code makes and from what it does with the answers.                      *)
(*                                                                         *)
(* Each ledger carries the one output the swap is about.  A swap has one   *)
(* set of inputs on either side, so a second lock or funding transaction   *)
(* spends inputs that are gone and is refused; of two transactions that    *)
(* spend the same output the first one wins.  `keys' is the number of the  *)
(* locking session whose keys the output is bound to (0: none).            *)
(***************************************************************************)
EXTENDS Naturals

CONSTANTS
    MaxBtcHeight,    \* bound: last Bitcoin block that is mined
    MaxGrinHeight    \* bound: last Grin block that is mined

VARIABLES
    btcHeight,       \* what getblockcount answers
    grinHeight,      \* what get_tip answers
    btcOut,          \* the Bitcoin lock output
    mwOut,           \* the Mimblewimble output shared by Alice and Bob
    watched,         \* sessions whose lock address Alice's node has imported
    seen             \* Alice's node counts the lock output for its address

chainVars == <<btcHeight, grinHeight, btcOut, mwOut, watched, seen>>

ChainsInit ==
    /\ btcHeight = 0
    /\ grinHeight = 0
    /\ btcOut = [state |-> "none", keys |-> 0, lock_time |-> 0]
    /\ mwOut = [state |-> "none", keys |-> 0]
    /\ watched = {}
    /\ seen = FALSE

BtcUnspent == btcOut.state \in {"mempool", "mined"}

-----------------------------------------------------------------------------
(* Blocks.  A block may or may not contain the waiting lock transaction.   *)

MineBtc ==
    /\ btcHeight < MaxBtcHeight
    /\ btcHeight' = btcHeight + 1
    /\ \/ UNCHANGED <<btcOut, seen>>
       \/ /\ btcOut.state = "mempool"
          /\ btcOut' = [btcOut EXCEPT !.state = "mined"]
          /\ seen' = (seen \/ btcOut.keys \in watched)
    /\ UNCHANGED <<grinHeight, mwOut, watched>>

MineGrin ==
    /\ grinHeight < MaxGrinHeight
    /\ grinHeight' = grinHeight + 1
    /\ UNCHANGED <<btcHeight, btcOut, mwOut, watched, seen>>

-----------------------------------------------------------------------------
(* Node operations.  None of them moves the heights.                       *)

\* importaddress with rescan = false: transactions that are already in a
\* block, or already in the mempool, are not looked at again.
import_btc_address(s) ==
    /\ watched' = watched \cup {s}
    /\ UNCHANGED <<btcHeight, grinHeight, btcOut, mwOut, seen>>

\* listunspent with minconf = 0 finds the lock output of session s.
BalanceVisible(s) == seen /\ BtcUnspent /\ btcOut.keys = s

\* sendrawtransaction of the lock transaction of session s.
LockAccepted == btcOut.state = "none"
SendLock(s, lockTime) ==
    /\ LockAccepted
    /\ btcOut' = [state |-> "mempool", keys |-> s, lock_time |-> lockTime]
    /\ seen' = (s \in watched)
    /\ UNCHANGED <<btcHeight, grinHeight, mwOut, watched>>

\* sendrawtransaction of the redeem transaction, signed with the secret key
\* of session k and with the witness x.
RedeemAccepted(k, x) == BtcUnspent /\ k = btcOut.keys /\ x = btcOut.keys
SendRedeem(k, x) ==
    /\ RedeemAccepted(k, x)
    /\ btcOut' = [btcOut EXCEPT !.state = "redeemed"]
    /\ UNCHANGED <<btcHeight, grinHeight, mwOut, watched, seen>>

\* sendrawtransaction of the refund transaction; the lock time it names has
\* to be the one in the script, and has to be reached.
BtcRefundAccepted(k, lockTime) ==
    BtcUnspent /\ k = btcOut.keys /\ lockTime = btcOut.lock_time /\ btcHeight >= lockTime
SendBtcRefund(k, lockTime) ==
    /\ BtcRefundAccepted(k, lockTime)
    /\ btcOut' = [btcOut EXCEPT !.state = "refunded"]
    /\ UNCHANGED <<btcHeight, grinHeight, mwOut, watched, seen>>

\* push_transaction of the funding transaction of session s.
FundingAccepted == mwOut.state = "none"
PushFunding(s) ==
    /\ FundingAccepted
    /\ mwOut' = [state |-> "shared", keys |-> s]
    /\ UNCHANGED <<btcHeight, grinHeight, btcOut, watched, seen>>

\* push_transaction of the contract transaction that pays Bob.
ContractAccepted(k) == mwOut.state = "shared" /\ k = mwOut.keys
PushContract(k) ==
    /\ ContractAccepted(k)
    /\ mwOut' = [mwOut EXCEPT !.state = "contract"]
    /\ UNCHANGED <<btcHeight, grinHeight, btcOut, watched, seen>>

\* push_transaction of the refund transaction, whose kernel is height locked.
MwRefundAccepted(k, lockHeight) ==
    mwOut.state = "shared" /\ k = mwOut.keys /\ grinHeight >= lockHeight
PushMwRefund(k, lockHeight) ==
    /\ MwRefundAccepted(k, lockHeight)
    /\ mwOut' = [mwOut EXCEPT !.state = "refunded"]
    /\ UNCHANGED <<btcHeight, grinHeight, btcOut, watched, seen>>
=============================================================================
