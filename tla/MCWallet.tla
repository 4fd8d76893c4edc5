----------------------------- MODULE MCWallet -------------------------------
(***************************************************************************)
(* The Grin wallet's handling of coins, slates and accounts, for TLC: coin *)
(* selection, the transactions of two wallets (plain, with kills, with     *)
(* scans and cancellations, with coinbases), the updater that runs beside  *)
(* them, the accounts, and the slates with their cryptography.             *)
(***************************************************************************)
EXTENDS Parts

\* Of all wallets, unless stated otherwise: Alice pays Bob out of a small coin.
Word == 100
FeeInput == 0
FeeOutput == 0
FeeKernel == 1
Maturity == 1
OldCoinbase == 50
ScanBack == 1
Wallets == {"alice", "bob"}
OneCoin(wallets) == [w \in wallets |-> IF w = "alice" THEN <<4>> ELSE <<>>]
Coins == OneCoin(Wallets)
Amounts == {2}
TtlBlocks == {0}
MinConfirmations == 1
MaxOutputs == 5
NumChange == 1
SelectAll == FALSE
Repeat == FALSE
SelfSend == FALSE
Faults == FALSE
MaxSlates == 1
MaxLog == 4
MaxKeys == 4
MaxHeight == 4
MaxReorgs == 0
Reward == 6
MaxCalls == 0

\* No old output; two accounts, one of them beyond a gap; several outputs in one.
Lost == {{}, {<<0, 0>>, <<2, 1>>}, {<<1, 0>>, <<1, 1>>, <<2, 0>>}, {<<0, 1>>, <<1, 1>>, <<2, 0>>}}

\* The fee of a slate is 25, 46 or 67 for one input and no, one or two change
\* outputs: an exact payment, change of one unit, change that does not divide.
Keys == {"c1", "c2", "d1", "d2", "o", "sk", "sn", "rk", "rn"}
SlateCoins == {<<30>>, <<52>>, <<75>>, <<31, 45>>}

Selection == INSTANCE CoinCalls WITH
    Word <- 64, FeeInput <- 1, FeeOutput <- 2, CoinValues <- {1, 3, 4, 7},
    MaxCoins <- 4, Amounts <- {0, 1, 2, 3, 5, 8, 13}, MaxOutputs <- {1, 2, 4},
    ChangeOutputs <- {0, 1, 2, 3},
    args <- s1, result <- s2
Send == INSTANCE WalletTx WITH
    Amounts <- {2, 3}, Flows <- {"send", "late"}, SelfSend <- TRUE, MaxKeys <- 6,
    wal <- s1, chain <- s2, pool <- s3, msgs <- s4, reorgs <- s5, calls <- s6
Crash == INSTANCE WalletTx WITH
    Amounts <- {2, 3}, Flows <- {"send"}, Faults <- TRUE, MaxHeight <- 3,
    wal <- s1, chain <- s2, pool <- s3, msgs <- s4, reorgs <- s5, calls <- s6
Scan == INSTANCE WalletTx WITH
    Flows <- {"send"}, TtlBlocks <- {0, 1}, MaxCalls <- 2,
    wal <- s1, chain <- s2, pool <- s3, msgs <- s4, reorgs <- s5, calls <- s6
Coinbase == INSTANCE WalletTx WITH
    OldCoinbase <- 1, Wallets <- {"alice"}, Coins <- OneCoin({"alice"}),
    Flows <- {"coinbase", "invoice"}, SelfSend <- TRUE, MaxKeys <- 3,
    MaxHeight <- 5, MaxReorgs <- 1, MaxCalls <- 1,
    wal <- s1, chain <- s2, pool <- s3, msgs <- s4, reorgs <- s5, calls <- s6
Race == INSTANCE WalletUpdate WITH
    Flows <- {"send"}, TtlBlocks <- {0, 2}, MaxHeight <- 3, MaxReorgs <- 1,
    Me <- "alice", Scans <- BOOLEAN, NodeFaults <- TRUE, MaxUpdates <- 2,
    wal <- s1, chain <- s2, pool <- s3, msgs <- s4, reorgs <- s5, calls <- s6,
    upd <- s7
Labels == INSTANCE Accounts WITH
    UserLabels <- {<<"savings", 1>>, <<"shop", 1>>}, OldKeys <- Lost, MaxPath <- 3,
    MaxChild <- 1, MaxKills <- 1,
    acct <- s1, parent <- s2, child <- s3, outputs <- s4, utxos <- s5, scan <- s6,
    scanned <- s7, reused <- s8, kills <- s9
Restore == INSTANCE Accounts WITH
    UserLabels <- {<<"savings", 1>>, <<"shop", 1>>}, OldKeys <- Lost, MaxPath <- 3,
    MaxChild <- 1, MaxKills <- 0,
    acct <- s1, parent <- s2, child <- s3, outputs <- s4, utxos <- s5, scan <- s6,
    scanned <- s7, reused <- s8, kills <- s9
Slates == INSTANCE SlateFlow WITH
    Secrets <- Keys, Flows <- {"send", "late", "invoice"}, SelfSends <- BOOLEAN,
    Proofs <- BOOLEAN, CoinValues <- SlateCoins, Amount <- 5,
    Encodings <- {"json", "bin"},
    flow <- s1, self <- s2, proving <- s3, coins <- s4, net <- s5, ctx <- s6,
    known <- s7, log <- s8, final <- s9, chain <- s10, failed <- s11

ASSUME Selection!InputsAssumption
ASSUME Send!StoreAssumption
ASSUME Send!TxAssumption
ASSUME Send!WordAssumption
ASSUME Send!FeeAssumption
ASSUME Crash!StoreAssumption
ASSUME Crash!TxAssumption
ASSUME Crash!WordAssumption
ASSUME Crash!FeeAssumption
ASSUME Scan!StoreAssumption
ASSUME Scan!TxAssumption
ASSUME Scan!WordAssumption
ASSUME Scan!FeeAssumption
ASSUME Coinbase!StoreAssumption
ASSUME Coinbase!TxAssumption
ASSUME Coinbase!WordAssumption
ASSUME Coinbase!FeeAssumption
ASSUME Race!StoreAssumption
ASSUME Race!TxAssumption
ASSUME Race!WordAssumption
ASSUME Race!FeeAssumption
ASSUME Race!UpdateAssumption
ASSUME Labels!AccountsAssumption
ASSUME Restore!AccountsAssumption
ASSUME Slates!FlowAssumption
ASSUME Slates!SecretsAssumption

Init ==
    \/ Starts("coins", 2) /\ Selection!Init
    \/ Starts("send", 6) /\ Send!Init
    \/ Starts("crash", 6) /\ Crash!Init
    \/ Starts("scan", 6) /\ Scan!Init
    \/ Starts("coinbase", 6) /\ Coinbase!Init
    \/ Starts("update", 7) /\ Race!UpdateInit
    \/ Starts("accounts", 9) /\ Labels!Init
    \/ Starts("accounts restored", 9) /\ Restore!Init
    \/ Starts("slates", 11) /\ Slates!Init
SelectionStep == Steps("coins", 2) /\ Selection!Next
SendStep == Steps("send", 6) /\ Send!Next
CrashStep == Steps("crash", 6) /\ Crash!Next
ScanStep == Steps("scan", 6) /\ Scan!Next
CoinbaseStep == Steps("coinbase", 6) /\ Coinbase!Next
RaceStep == Steps("update", 7) /\ Race!UpdateNext
LabelsStep == Steps("accounts", 9) /\ Labels!Next
RestoreStep == Steps("accounts restored", 9) /\ Restore!Next
SlatesStep == Steps("slates", 11) /\ Slates!Next
Next ==
    \/ SelectionStep \/ SendStep \/ CrashStep \/ ScanStep \/ CoinbaseStep \/ RaceStep
    \/ LabelsStep \/ RestoreStep \/ SlatesStep
Spec == Init /\ [][Next]_allvars

-----------------------------------------------------------------------------
\* The databases of the wallets, their accounts and the slates have their types.
TypeOK ==
    /\ part = "send" => Send!TypeOK
    /\ part = "crash" => Crash!TypeOK
    /\ part = "scan" => Scan!TypeOK
    /\ part = "coinbase" => Coinbase!TypeOK
    /\ part \in {"accounts", "accounts restored"} => Labels!TypeOK
    /\ part = "slates" => Slates!TypeOK

\* Coin selection pays what was asked out of the coins it selects, reports a lack of
\* funds only when there is one, and takes no coin that is not needed.
SelectionSound == part = "coins" => Selection!SelectionSound

\* What the database calls confirmed, spendable or its own agrees with the chain as
\* of its last refresh or scan, and the balance shown is what selection would find.
BooksMatchChain ==
    /\ part = "send" => Send!ConfirmedMeansMined /\ Send!SpendableExists
    /\ part = "scan" => Scan!OnChainKnown
    /\ part = "coinbase" => Coinbase!OnChainKnown /\ Coinbase!BalanceIsEligible
\* No key index stands for two values and no output has two records, whatever was
\* killed half way, restored, or updated meanwhile.
OneOutputPerKey ==
    /\ part = "crash" => Crash!KeysNeverReused
    /\ part = "coinbase" => Coinbase!KeysNeverReused
    /\ part = "update" => Race!KeysNeverReused /\ Race!OneRecordEach
\* The log accounts for the outputs: a slate is received once; a final transaction
\* is stored; what a waiting entry debited is locked by it alone; a locked output
\* has an entry that can be cancelled; an entry is confirmed with all its outputs.
LogAccountsForAll ==
    /\ part = "send" => Send!ReceivedOnce
    /\ part = "crash" => Crash!FinalIsStored /\ Crash!LocksAreExclusive
    /\ part = "scan" => Scan!LockedHasEntry /\ Scan!AllOrNone
\* A full scan that deletes what is unconfirmed leaves exactly the outputs that are
\* unspent on the chain.
ScanRestores == [][part = "scan" => Scan!ScanFindsAll]_allvars

\* Labels and paths stand for each other; after a complete scan every restored
\* output belongs to an account with a label whose next key is unused.
AccountsRestored ==
    /\ part = "accounts" => Labels!PathsUnique
    /\ part = "accounts restored" => Restore!OutputsNamed /\ Restore!KeysFresh

\* Between wallets that follow the protocol no operation on a slate fails; the final
\* transaction is valid, pays what was agreed and survives either encoding.
SlatesComplete ==
    part = "slates" => Slates!NothingFails /\ Slates!FinalIsValid /\ Slates!FinalArrives
\* The log of a mined transaction holds its kernel and yields a proof that verifies.
MinedIsProvable == part = "slates" => Slates!EntriesFindKernel /\ Slates!ProofOfPayment
=============================================================================
