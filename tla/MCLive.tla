------------------------------ MODULE MCLive --------------------------------
(***************************************************************************)
(* The liveness of the parts of both programs, for TLC.  The fairness is   *)
(* that of each part's own specification.                                  *)
(***************************************************************************)
EXTENDS Parts

\* One process does all the talking.
OneWayScripts == {[i \in 1 .. n |-> e] : n \in 1 .. 4, e \in {"a", "b"}}

\* With a Bitcoin fee of 5: inputs that are short by one, exact, and with change.
Inputs == {<<4>>, <<9>>, <<10>>, <<11>>, <<20>>}
PaidNear(n) == {v \in (n - 3) .. (n + 3) : v > 0}

\* The Grin fee is 46 or 47 for the funding transaction with one or two inputs and
\* 25 for those that spend the shared output.
Keys == {"in1", "in2", "change", "kA", "kB", "pA", "pB", "refund", "swapped", "x",
         "off1", "off2", "off3", "n1", "n2", "n3", "n4", "n5", "n6", "n7", "n8", "n9", "unused"}
AroundFees == {<<71>>, <<72>>, <<37, 37>>}

\* Alice pays Bob out of a coin of 4; 3 and the fee leave no change.
Word == 100
FeeInput == 0
FeeOutput == 0
FeeKernel == 1
Maturity == 1
OldCoinbase == 50
ScanBack == 1
Wallets == {"alice", "bob"}
Coins == [w \in Wallets |-> IF w = "alice" THEN <<4>> ELSE <<>>]
TtlBlocks == {0}
MinConfirmations == 1
MaxOutputs == 5
NumChange == 1
SelectAll == FALSE
Repeat == FALSE
SelfSend == FALSE
Faults == FALSE
MaxSlates == 1
MaxLog == 4
MaxKeys == 4
Reward == 6

Op(w, kind) == [w |-> w, kind |-> kind]
\* Both wallets send or pay at the same time, one sends twice, or a recipient
\* sends the answer back by a call of its own.
Pairs == {<<Op("a", "init_send_tx"), Op("b", "init_send_tx")>>,
          <<Op("a", "init_send_tx"), Op("a", "init_send_tx")>>,
          <<Op("a", "process_invoice_tx"), Op("b", "process_invoice_tx")>>,
          <<Op("a", "init_send_tx"), Op("b", "process_invoice_tx")>>,
          <<Op("a", "init_send_tx"), Op("b", "receive_back")>>}

Tcp == INSTANCE TcpChannel WITH
    Scripts <- OneWayScripts,
    script <- s1, step <- s2, state <- s3, wire <- s4, sock <- s5, buf <- s6,
    got <- s7
Lock == INSTANCE BtcLock WITH
    Amounts <- {5, 6}, Imports <- Inputs, BtcFee <- 5, WordSize <- 65536,
    Timelock <- 2, MaxHeight <- 5,
    amount <- s1, imports <- s2, height <- s3, lock_time <- s4, mem <- s5,
    utxo <- s6, state <- s7
Rpc == INSTANCE SwapRpc WITH
    Amounts <- {27, 546}, Paid <- PaidNear, MaxAttempts <- 3, MaxCalls <- 1,
    MaxFaults <- 2,
    amount <- s1, coins <- s2, attempts <- s3, verdict <- s4, taken <- s5,
    last <- s6, calls <- s7, faults <- s8
Mw == INSTANCE MwTx WITH
    Secrets <- Keys, Protocols <- {"swap", "build"}, Amounts <- {25, 26},
    InputValues <- AroundFees, WordSize <- 65536, Timelock <- 3, Margin <- 1,
    MaxHeight <- 4,
    protocol <- s1, amount <- s2, inputs <- s3, pc <- s4, chan <- s5, mem <- s6,
    ledger <- s7, height <- s8, sigs <- s9
Pay == INSTANCE WalletTx WITH
    Amounts <- {3}, Flows <- {"send", "invoice", "late"}, MaxHeight <- 4,
    MaxReorgs <- 1, MaxCalls <- 0,
    wal <- s1, chain <- s2, pool <- s3, msgs <- s4, reorgs <- s5, calls <- s6
Upd == INSTANCE WalletUpdate WITH
    Amounts <- {2}, Flows <- {"send"}, MaxHeight <- 3, MaxReorgs <- 0,
    MaxCalls <- 0, Me <- "alice", Scans <- {TRUE}, NodeFaults <- FALSE,
    MaxUpdates <- 1,
    wal <- s1, chain <- s2, pool <- s3, msgs <- s4, reorgs <- s5, calls <- s6,
    upd <- s7
Updater == INSTANCE OwnerUpdater WITH
    Masked <- FALSE, NodeFaults <- FALSE, MaxThreads <- 2, MaxOpens <- 1,
    MaxCalls <- 4, MaxMessages <- 1, QueueLen <- 2, Counts <- {},
    is_running <- s1, threads <- s2, backend <- s3, opens <- s4, calls <- s5,
    told <- s6, stopped <- s7, ignored <- s8, sent <- s9, channel <- s10,
    queue <- s11, read <- s12, dropped <- s13, cli <- s14
Sync == INSTANCE SyncSend WITH
    Scenarios <- Pairs, MaxCalls <- 6,
    calls <- s1, wallet <- s2, tor <- s3, runtime <- s4, version <- s5,
    received <- s6, locked <- s7, final <- s8, posted <- s9

ASSUME Tcp!ScriptsAssumption
ASSUME Tcp!FaultsAssumption
ASSUME Lock!BtcLockAssumption
ASSUME Rpc!RpcAssumption
ASSUME Mw!MwAssumption
ASSUME Pay!StoreAssumption
ASSUME Pay!TxAssumption
ASSUME Upd!TxAssumption
ASSUME Upd!UpdateAssumption
ASSUME Updater!UpdaterAssumption
ASSUME Sync!SendAssumption

Init ==
    \/ Starts("tcp", 7) /\ Tcp!Init
    \/ Starts("lock", 7) /\ Lock!Init
    \/ Starts("rpc", 8) /\ Rpc!Init
    \/ Starts("mw", 9) /\ Mw!Init
    \/ Starts("wallet", 6) /\ Pay!Init
    \/ Starts("update", 7) /\ Upd!UpdateInit
    \/ Starts("updater", 14) /\ Updater!Init
    \/ Starts("sync", 9) /\ Sync!Init
TcpStep == Steps("tcp", 7) /\ Tcp!Next
LockStep == Steps("lock", 7) /\ Lock!Next
RpcStep == Steps("rpc", 8) /\ Rpc!Next
MwStep == Steps("mw", 9) /\ Mw!Next
PayStep == Steps("wallet", 6) /\ Pay!Next
UpdStep == Steps("update", 7) /\ Upd!UpdateNext
UpdaterStep == Steps("updater", 14) /\ Updater!Next
SyncStep == Steps("sync", 9) /\ Sync!Next
Next ==
    \/ TcpStep \/ LockStep \/ RpcStep \/ MwStep \/ PayStep \/ UpdStep
    \/ UpdaterStep \/ SyncStep

\* The fairness of each part.  The part does not change, so that the conditions of
\* the parts can be stated together.
Due(p) ==
    \/ part = "mw" /\ Mw!Due(p)
    \/ part = "wallet" /\ Pay!UpdateDue(IF p = "mw" THEN "alice" ELSE "bob")
    \/ p = "mw" /\ part = "lock" /\ s7["bob"] = "locked" /\ Lock!can_refund
    \/ p = "mw" /\ part = "rpc" /\ Rpc!AttemptDue
    \/ p = "mw" /\ part = "update" /\ s7.pc # "dead"
DueStep(p) ==
    \/ Steps("mw", 9) /\ Mw!PartyStep(p)
    \/ Steps("wallet", 6) /\ Pay!Update(IF p = "mw" THEN "alice" ELSE "bob")
    \/ p = "mw" /\ Steps("lock", 7) /\ Lock!RefundBtc
    \/ p = "mw" /\ Steps("rpc", 8) /\ Rpc!Verify
    \/ p = "mw" /\ Steps("update", 7) /\ Upd!UpdateStep
Fairness ==
    /\ \A e \in {"a", "b"} :
        /\ WF_allvars(Steps("tcp", 7) /\ Tcp!Arrive(e))
        /\ WF_allvars(Steps("tcp", 7) /\ Tcp!ProcessStep(e))
    /\ WF_allvars(\/ Steps("lock", 7) /\ Lock!NewBlock
                  \/ Steps("rpc", 8) /\ Rpc!GiveUp
                  \/ Steps("wallet", 6) /\ Pay!MineBlock /\ s3' # s3
                  \/ Steps("updater", 14) /\ Updater!LogMessage)
    /\ \A t \in 1 .. 2 : WF_allvars(Steps("updater", 14) /\ t \in DOMAIN s2 /\ Updater!Thread(t))
    /\ \A i \in 1 .. 6 : WF_allvars(Steps("sync", 9) /\ i \in DOMAIN s1 /\ Sync!CallStep(i))
    /\ \A p \in {"mw", "btc"} : []<>~Due(p) \/ []<><<DueStep(p)>>_allvars
Spec == Init /\ [][Next]_allvars /\ Fairness

-----------------------------------------------------------------------------
\* The protocols of a swap come to their end: a script of send_msg and receive_msg
\* with one sender is played, the wait for the locked coin is over, each
\* Mimblewimble protocol ends for both parties, locked bitcoins are moved again.
ProtocolsEnd ==
    /\ <>(part = "tcp" => \A e \in {"a", "b"} : Tcp!Done(e))
    /\ <>(part = "rpc" => s4 # "waiting")
    /\ <>(part = "mw" => \A p \in {"mw", "btc"} : s4[p] \in {"done", "dead"})
    /\ (part = "lock" /\ Lock!BobLocked) ~> (part = "lock" => Lock!Moved)
\* The wallet catches up with the chain: a transaction that the nodes have accepted
\* is confirmed in both logs, and the updater finds every output of the wallet.
WalletCatchesUp ==
    /\ \A w \in Wallets :
           (part = "wallet" /\ Pay!Accepted(w, 1)) ~> (part = "wallet" => Pay!Confirmed(w, 1))
    /\ \A n \in 1 .. MaxKeys : []<>(part = "update" => ~Upd!Missing(n))
\* Calls end: stop_updater ends the thread that is running when it is called, and
\* every call of two wallets that send to each other over Tor returns.
CallsEnd ==
    /\ \A t \in 1 .. 2 :
           (part = "updater" /\ s6 = t) ~> (part = "updater" => s6 # t \/ s2[t].pc = "ended")
    /\ <>[](part = "sync" => Sync!AllReturned)
=============================================================================
