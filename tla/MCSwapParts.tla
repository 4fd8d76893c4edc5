---------------------------- MODULE MCSwapParts -----------------------------
(***************************************************************************)
(* The parts of the swap program below SwapProtocol, for TLC: the message  *)
(* channel, the setup commands, the Bitcoin transactions, the RPC clients  *)
(* and the Mimblewimble protocols.                                         *)
(***************************************************************************)
EXTENDS Parts

\* Every order in which two processes can send up to four messages.
AnyScripts == UNION {[1 .. n -> {"a", "b"}] : n \in 1 .. 4}

\* Requests in both directions, between the same currency, over the limits, and
\* with timeouts around multiples of an hour and of the block times.
Request(from, to, fa, ta, timeout) ==
    [from |-> from, to |-> to, from_amount |-> fa, to_amount |-> ta, timeout |-> timeout]
AnyRequests ==
    {Request("BTC", "GRIN", 3, 5, 60), Request("GRIN", "BTC", 3, 5, 119), Request("BTC", "BTC", 3, 5, 60),
     Request("GRIN", "BTC", 10, 5, 60), Request("GRIN", "BTC", 3, 4, 7201)}
Limits == [c \in {"BTC", "GRIN"} |-> IF c = "BTC" THEN 9 ELSE 8]

\* With a Bitcoin fee of 5: inputs that are short by one, exact, and with change.
Inputs == {<<4>>, <<9>>, <<10>>, <<11>>, <<20>>}

\* The values of the repository's own test of the balance, the smallest amounts,
\* and both sides of the width of the mantissa.
NearTest == {31432, 7055, 546, 9937874, 1263314}
Satoshis == (1 .. 24) \cup NearTest \cup UNION {(n - 2) .. (n + 2) : n \in {2^20, 2^23, 2^24 - 10}}
PaidNear(n) == {v \in (n - 3) .. (n + 3) : v > 0}

\* The Grin fee is 46 or 47 for the funding transaction with one or two inputs and
\* 25 for those that spend the shared output.
Keys == {"in1", "in2", "change", "kA", "kB", "pA", "pB", "refund", "swapped", "x",
         "off1", "off2", "off3", "n1", "n2", "n3", "n4", "n5", "n6", "n7", "n8", "n9", "unused"}
AroundFees == {<<46>>, <<71>>, <<72>>, <<73>>, <<36, 37>>, <<37, 37>>}
Enough == {<<73>>, <<37, 37>>}

Tcp == INSTANCE TcpChannel WITH
    Scripts <- AnyScripts, Faults <- TRUE,
    script <- s1, step <- s2, state <- s3, wire <- s4, sock <- s5, buf <- s6,
    got <- s7
Setup == INSTANCE SwapSetup WITH
    Requests <- AnyRequests, Values <- {2, 3}, MaxAmounts <- Limits,
    MaxTimeout <- 7200, Overlap <- FALSE, Kills <- FALSE, MaxCommands <- 4,
    asked <- s1, disk <- s2, procs <- s3
Kill == INSTANCE SwapSetup WITH
    Requests <- {Request("BTC", "GRIN", 3, 5, 60)}, Values <- {2, 3},
    MaxAmounts <- Limits, MaxTimeout <- 7200, Overlap <- TRUE, Kills <- TRUE,
    MaxCommands <- 3,
    asked <- s1, disk <- s2, procs <- s3
Lock == INSTANCE BtcLock WITH
    Amounts <- {3, 5, 6}, Imports <- Inputs, BtcFee <- 5, WordSize <- 65536,
    Timelock <- 2, MaxHeight <- 5,
    amount <- s1, imports <- s2, height <- s3, lock_time <- s4, mem <- s5,
    utxo <- s6, state <- s7
Rpc == INSTANCE SwapRpc WITH
    Amounts <- Satoshis, Paid <- PaidNear, MaxAttempts <- 3, MaxCalls <- 1,
    MaxFaults <- 1,
    amount <- s1, coins <- s2, attempts <- s3, verdict <- s4, taken <- s5,
    last <- s6, calls <- s7, faults <- s8
Funds == INSTANCE MwTx WITH
    Secrets <- Keys, Protocols <- {"swap", "build"}, Amounts <- {0, 24, 25, 26},
    InputValues <- AroundFees, WordSize <- 65536, Timelock <- 3, Margin <- 1,
    MaxHeight <- 4, Faults <- FALSE,
    protocol <- s1, amount <- s2, inputs <- s3, pc <- s4, chan <- s5, mem <- s6,
    ledger <- s7, height <- s8, sigs <- s9
Mw == INSTANCE MwTx WITH
    Secrets <- Keys, Protocols <- {"swap"}, Amounts <- {26}, InputValues <- Enough,
    WordSize <- 65536, Timelock <- 3, Margin <- 1, MaxHeight <- 4, Faults <- TRUE,
    protocol <- s1, amount <- s2, inputs <- s3, pc <- s4, chan <- s5, mem <- s6,
    ledger <- s7, height <- s8, sigs <- s9

ASSUME Tcp!ScriptsAssumption
ASSUME Tcp!FaultsAssumption
ASSUME Setup!SetupAssumption
ASSUME Kill!SetupAssumption
ASSUME Lock!BtcLockAssumption
ASSUME Rpc!RpcAssumption
ASSUME Funds!MwAssumption
ASSUME Mw!MwAssumption

Init ==
    \/ Starts("tcp", 7) /\ Tcp!Init
    \/ Starts("setup", 3) /\ Setup!Init
    \/ Starts("setup killed", 3) /\ Kill!Init
    \/ Starts("lock", 7) /\ Lock!Init
    \/ Starts("rpc", 8) /\ Rpc!Init
    \/ Starts("funds", 9) /\ Funds!Init
    \/ Starts("mw", 9) /\ Mw!Init
TcpStep == Steps("tcp", 7) /\ Tcp!Next
SetupStep == Steps("setup", 3) /\ Setup!Next
KillStep == Steps("setup killed", 3) /\ Kill!Next
LockStep == Steps("lock", 7) /\ Lock!Next
RpcStep == Steps("rpc", 8) /\ Rpc!Next
FundsStep == Steps("funds", 9) /\ Funds!Next
MwStep == Steps("mw", 9) /\ Mw!Next
Next ==
    \/ TcpStep \/ SetupStep \/ KillStep \/ LockStep \/ RpcStep \/ FundsStep
    \/ MwStep
Spec == Init /\ [][Next]_allvars

-----------------------------------------------------------------------------
\* The state of each part has its type.
TypeOK ==
    /\ part = "tcp" => Tcp!TypeOK
    /\ part = "setup" => Setup!TypeOK
    /\ part = "setup killed" => Kill!TypeOK
    /\ part = "lock" => Lock!TypeOK
    /\ part = "rpc" => Rpc!TypeOK
    /\ part = "funds" => Funds!TypeOK
    /\ part = "mw" => Mw!TypeOK

\* Messages are handed over once and in order, and an ACK is never ahead of its message.
DeliveredInOrder == part = "tcp" => Tcp!DeliveredInOrder

\* A party listens with the slate that init was asked for and with all coins that
\* it has imported, which cover what it offers.
PreparedAsAsked == part = "setup" => Setup!PreparedAsAsked
\* The public slate files never say anything but what init wrote, even when
\* commands overlap and are killed half-way.
PublicFilesAgree == part = "setup killed" => Kill!PublicFilesAgree

\* The lock script opens for the right signatures and for nothing else, and Bob's
\* locked coin can be moved: by Alice with x, by Bob from the time of can_refund.
LockOpensRight == part = "lock" => Lock!LockOpensRight

\* What the client tells of the node is so: a transaction sent is taken, a coin
\* verified is worth the agreed amount up to a satoshi.
ClientTellsTrue == part = "rpc" => Rpc!ClientTellsTrue

\* The Mimblewimble protocols fail only for a lack of funds or of time.
FailsOnlyIfShort == part = "funds" => Funds!FailsOnlyIfShort
\* Neither party can lose by the three Grin transactions: the funding is backed by a
\* refund that will be valid, x is given away for a complete contract only, and
\* publishing the contract gives x away.
ExchangeIsFair == part = "mw" => Mw!ExchangeIsFair
=============================================================================
