--------------------------- MODULE CoinSelection ---------------------------
(***************************************************************************)
(* How the Grin wallet picks the coins it spends and splits the change     *)
(* (grin-wallet/libwallet/src/internal/selection.rs).  Everything is a     *)
(* function of the arguments.  A coin is a record with its value in the    *)
(* field v; sums of u64 wrap at Word in a build without overflow checks.   *)
(***************************************************************************)
EXTENDS Naturals, FiniteSets, SequencesExt

CONSTANTS
    Word,                           \* 2^64 of the u64 arithmetic
    FeeInput, FeeOutput, FeeKernel  \* what an input, an output, a kernel costs

WordAssumption == Word \in Nat \ {0}
FeeAssumption == FeeInput \in Nat /\ FeeOutput \in Nat /\ FeeKernel \in Nat

tx_fee(inputs, outputs, kernels) ==
    inputs * FeeInput + outputs * FeeOutput + kernels * FeeKernel
Plus(a, b) == (a + b) % Word
Minus(a, b) == (a + Word - b) % Word
Total(coins) == FoldLeft(LAMBDA sum, c : Plus(sum, c.v), 0, coins)
NoCoins == <<[v |-> Word]>>      \* None: no coin is worth 2^64
Prefix(coins, n) == SubSeq(coins, 1, n)

\* The coins from the smallest one on, until the amount is covered.
select_from(amount, select_all, coins) ==
    IF Total(coins) < amount THEN NoCoins
    ELSE IF select_all THEN coins
    ELSE CHOOSE p \in {Prefix(coins, n) : n \in 0 .. Len(coins)} :
            /\ Total(p) >= amount
            /\ \A n \in 0 .. Len(p) - 1 : Total(Prefix(coins, n)) < amount

Windows(coins, size) == [i \in 1 .. Len(coins) - size + 1 |-> SubSeq(coins, i, i + size - 1)]
FirstOf(choices, other) ==
    LET some == {i \in DOMAIN choices : choices[i] # NoCoins}
    IN IF some = {} THEN other ELSE choices[CHOOSE i \in some : \A j \in some : i <= j]

\* eligible is sorted by value.  When no choice covers the amount the largest
\* coins are returned, for the error message.
select_coins(eligible, amount, max_outputs, select_all) ==
    LET From(coins) == select_from(amount, select_all, coins)
        windows == Windows(eligible, max_outputs)
    IN IF Len(eligible) <= max_outputs
       THEN FirstOf(<<From(eligible)>>, Reverse(eligible))
       ELSE FirstOf(Append([i \in DOMAIN windows |-> From(windows[i])],
                           select_from(amount, FALSE, eligible)),
                    SubSeq(Reverse(eligible), 1, max_outputs))

Pending == [ok |-> FALSE, why |-> "pending"]
NotEnoughFunds == [ok |-> FALSE, why |-> "funds"]
Panic == [ok |-> FALSE, why |-> "panic"]

Fee(coins, outs) == tx_fee(Len(coins), outs, 1)
Short(coins, amount, outs) == Total(coins) < Plus(amount, Fee(coins, outs))
NumOutputs(first, amount, change_outputs) ==
    IF Total(first) = Plus(amount, Fee(first, 1)) THEN 1 ELSE change_outputs + 1

\* The while loop selects again with the fee of the previous selection, until
\* the coins cover amount and fee or there are no more of them.  The first call
\* replaces max_outputs by the number of eligible coins.
SelectAgain(eligible, amount, outs, select_all, first) ==
    LET Grow[k \in 0 .. Len(eligible) + 1] ==
            IF k = 0 THEN first
            ELSE LET coins == Grow[k - 1]
                 IN IF ~Short(coins, amount, outs) \/ Len(coins) = Len(eligible) THEN coins
                    ELSE select_coins(eligible, Plus(amount, Fee(coins, outs)),
                                      Len(eligible), select_all)
    IN Grow[Len(eligible) + 1]

SelectedWithFee(coins, amount, outs) ==
    IF Short(coins, amount, outs) THEN NotEnoughFunds
    ELSE [ok |-> TRUE, coins |-> coins, total |-> Total(coins), fee |-> Fee(coins, outs)]
\* first is the selection for the amount alone, outs the number of outputs.
FeeSelection_GiveUp(eligible, amount, select_all, first, outs) ==
    SelectedWithFee(first, amount, outs)
FeeSelection(eligible, amount, select_all, first, outs) ==
    IF \/ Total(first) = 0
       \/ Short(first, amount, 1) /\ Len(first) = Len(eligible)
    THEN NotEnoughFunds
    ELSE SelectedWithFee(SelectAgain(eligible, amount, outs, select_all, first), amount, outs)
CoinsAndFee(eligible, amount, change_outputs, select_all, first) ==
    FeeSelection(eligible, amount, select_all, first, NumOutputs(first, amount, change_outputs))
select_coins_and_fee(eligible, amount, max_outputs, change_outputs, select_all) ==
    IF max_outputs = 0 /\ eligible # <<>> THEN Panic
    ELSE CoinsAndFee(eligible, amount, change_outputs, select_all,
                     select_coins(eligible, amount, max_outputs, select_all))

\* The change of each change output.
Panics(change, n) == change # 0 /\ (n = 0 \/ change \div n = 0)
Rest(coins, amount, fee) == Minus(Minus(Total(coins), amount), fee)
inputs_and_change(change, n) ==
    LET part == change \div n
    IN IF change = 0 THEN <<>>
       ELSE [x \in 1 .. n |-> IF x = n THEN part + (change % part) ELSE part]

WithChange(sel, change, n) ==
    IF Panics(change, n) THEN Panic
    ELSE [ok |-> TRUE, coins |-> sel.coins, fee |-> sel.fee, change |-> inputs_and_change(change, n)]
BuildSendTx(sel, amount, n) ==
    IF ~sel.ok THEN sel ELSE WithChange(sel, Rest(sel.coins, amount, sel.fee), n)
select_send_tx(eligible, amount, max_outputs, change_outputs, select_all) ==
    BuildSendTx(select_coins_and_fee(eligible, amount, max_outputs, change_outputs, select_all),
                amount, change_outputs)
=============================================================================
