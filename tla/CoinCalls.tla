------------------------------ MODULE CoinCalls ------------------------------
(***************************************************************************)
(* Every call of the coin selection of a wallet with few coins.            *)
(***************************************************************************)
EXTENDS CoinSelection

CONSTANTS
    CoinValues, MaxCoins,           \* the coins of the enumerated wallets
    Amounts,                        \* amounts to send
    MaxOutputs,                     \* values of the max_outputs argument
    ChangeOutputs                   \* values of num_change_outputs

InputsAssumption ==
    /\ CoinValues \subseteq 0 .. Word - 1 /\ Amounts \subseteq 0 .. Word - 1
    /\ MaxOutputs \subseteq Nat /\ ChangeOutputs \subseteq Nat /\ MaxCoins \in Nat

VARIABLES
    args,       \* the arguments of the call
    result      \* Pending before the call

vars == <<args, result>>

Sorted(coins) == \A i, j \in DOMAIN coins : i < j => coins[i].v <= coins[j].v
Wallets == {w \in UNION {[1 .. n -> [v : CoinValues]] : n \in 0 .. MaxCoins} : Sorted(w)}
Init ==
    /\ args \in [coins : Wallets, amount : Amounts, max_outputs : MaxOutputs,
                 change_outputs : ChangeOutputs, select_all : BOOLEAN]
    /\ result = Pending
build_send_tx ==
    /\ result = Pending
    /\ result' = select_send_tx(args.coins, args.amount, args.max_outputs,
                                args.change_outputs, args.select_all)
    /\ UNCHANGED args
Next == build_send_tx
Spec == Init /\ [][Next]_vars

-----------------------------------------------------------------------------
Sum(values) == FoldLeft(LAMBDA a, b : a + b, 0, values)
Values(coins) == Sum([i \in DOMAIN coins |-> coins[i].v])
Built == result.ok
\* No selection spends more than its coins are worth: what the receiver gets,
\* the fee and the change outputs never exceed the inputs, and with one change
\* output nothing is left over.
Conserved ==
    Built => LET spent == args.amount + result.fee + Sum(result.change)
             IN /\ spent <= Values(result.coins)
                /\ args.change_outputs = 1 => spent = Values(result.coins)

\* "Not enough funds" is only reported when all eligible coins together do not
\* pay for the amount and the fee of spending them all: the sliding window and
\* the loop over growing fees overlook no coins.
FundsReallyMissing ==
    ~result.ok /\ result.why = "funds" /\ args.amount > 0
        => Values(args.coins) < args.amount + tx_fee(Len(args.coins), args.change_outputs + 1, 1)

\* The alternative strategy spends "only as many as necessary": without the
\* largest of the chosen coins the others would not pay for amount and fee.
OnlyAsNeeded ==
    Built /\ ~args.select_all
        => LET fewer == Front(result.coins)
           IN Values(fewer) < args.amount + tx_fee(Len(fewer), args.change_outputs + 1, 1)

\* Selection pays what was asked, finds the funds if they are there and takes no coin
\* that is not needed.
SelectionSound == Conserved /\ FundsReallyMissing /\ OnlyAsNeeded

\* selection.rs:524: the change outputs are "n-1 equal change_outputs and a
\* final one accounting for any remainder".
ChangeAddsUp ==
    Built => Sum(result.change) = Values(result.coins) - args.amount - result.fee

=============================================================================
