----------------------------- MODULE MCProgram ------------------------------
(***************************************************************************)
(* The Grin wallet program around its transactions, for TLC: slatepack     *)
(* messages, the client of the node, creating, opening and recovering a    *)
(* wallet, sessions of the owner API, the updater thread and its messages, *)
(* sending over Tor, and the commands of the command line.                 *)
(***************************************************************************)
EXTENDS Parts

CONSTANTS w1, w2, slate, c1, c2, c3, tx

Op(w, kind) == [w |-> w, kind |-> kind]
\* Both wallets send or pay at the same time, one sends twice, or a recipient
\* sends the answer back by a call of its own.
Pairs == {<<Op("a", "init_send_tx"), Op("b", "init_send_tx")>>,
          <<Op("a", "init_send_tx"), Op("a", "init_send_tx")>>,
          <<Op("a", "process_invoice_tx"), Op("b", "process_invoice_tx")>>,
          <<Op("a", "init_send_tx"), Op("b", "process_invoice_tx")>>,
          <<Op("a", "init_send_tx"), Op("b", "receive_back")>>}
AllMethods == {"init_secure_api", "open_wallet", "close_wallet", "accounts", "retrieve_txs",
               "create_config", "foreign"}
AllCommands == {"send", "receive", "finalize", "invoice", "pay", "post", "repost", "cancel"}

Pack == INSTANCE Slatepack WITH
    Wallets <- {w1, w2}, Slates <- {slate}, Accounts <- {0}, Indices <- {0, 1},
    MaxMessages <- 1, Newer <- {FALSE}, Forms <- {"message"},
    Damages <- {"space", "alter", "cut"},
    active <- s1, msgs <- s2
Replies == INSTANCE Slatepack WITH
    Wallets <- {w1, w2}, Slates <- {slate}, Accounts <- {0, 1}, Indices <- {0, 1},
    MaxMessages <- 2, Newer <- BOOLEAN,
    Forms <- {"message", "armored", "bin", "json"}, Damages <- {},
    active <- s1, msgs <- s2
Outputs == INSTANCE NodeClient WITH
    Commits <- {c1, c2, c3}, Asked <- {<<c1, c2, c3>>, <<>>}, Txs <- {},
    ChunkSizes <- {1, 2}, BatchSize <- 2, MaxHeight <- 3, MaxReorgs <- 1,
    MaxCalls <- 1, MaxFaults <- 1,
    height <- s1, pmmr <- s2, pool <- s3, kernels <- s4, old <- s5,
    node_version_info <- s6, call <- s7, last <- s8, moments <- s9, calls <- s10,
    faults <- s11, reorgs <- s12
Node == INSTANCE NodeClient WITH
    Commits <- {c1, c2}, Asked <- {<<>>}, Txs <- {tx}, ChunkSizes <- {1, 2},
    BatchSize <- 2, MaxHeight <- 3, MaxReorgs <- 1, MaxCalls <- 2, MaxFaults <- 1,
    height <- s1, pmmr <- s2, pool <- s3, kernels <- s4, old <- s5,
    node_version_info <- s6, call <- s7, last <- s8, moments <- s9, calls <- s10,
    faults <- s11, reorgs <- s12
Life == INSTANCE WalletLifecycle WITH
    Passwords <- {"p", "q"}, MaxSeeds <- 2, MaxFaults <- 1, MaxCalls <- 5,
    disk <- s1, backend <- s2, todo <- s3, result <- s4, phrases <- s5, drawn <- s6,
    chain <- s7, gone <- s8, faults <- s9, calls <- s10
Alone == INSTANCE OwnerSession WITH
    Clients <- {"a"}, Methods <- AllMethods, Notify <- TRUE, AtOnce <- 1,
    MaxRequests <- 6,
    shared_key <- s1, api_key <- s2, keychain_mask <- s3, backend <- s4,
    requests <- s5, client <- s6, drawn <- s7, settled <- s8
Shared == INSTANCE OwnerSession WITH
    Clients <- {"a", "b"},
    Methods <- AllMethods \ {"create_config", "retrieve_txs"}, Notify <- FALSE,
    AtOnce <- 2, MaxRequests <- 4,
    shared_key <- s1, api_key <- s2, keychain_mask <- s3, backend <- s4,
    requests <- s5, client <- s6, drawn <- s7, settled <- s8
Updater == INSTANCE OwnerUpdater WITH
    Masked <- TRUE, NodeFaults <- TRUE, MaxThreads <- 2, MaxOpens <- 2,
    MaxCalls <- 5, MaxMessages <- 4, QueueLen <- 2, Counts <- {1, 2},
    is_running <- s1, threads <- s2, backend <- s3, opens <- s4, calls <- s5,
    told <- s6, stopped <- s7, ignored <- s8, sent <- s9, channel <- s10,
    queue <- s11, read <- s12, dropped <- s13, cli <- s14
Sync == INSTANCE SyncSend WITH
    Scenarios <- Pairs, Faults <- TRUE, MaxCalls <- 6,
    calls <- s1, wallet <- s2, tor <- s3, runtime <- s4, version <- s5,
    received <- s6, locked <- s7, final <- s8, posted <- s9
Cmd == INSTANCE WalletCommands WITH
    Coins <- {c1, c2}, MaxSlates <- 2, MaxCommands <- 3, MaxKills <- 1,
    Commands <- AllCommands, LateLocks <- BOOLEAN, Estimates <- BOOLEAN,
    ctx <- s1, sel <- s2, log <- s3, stored <- s4, coin <- s5, files <- s6,
    inbox <- s7, sent <- s8, posted <- s9, chain <- s10, cmd <- s11, result <- s12,
    typed <- s13, commands <- s14, kills <- s15

ASSUME Pack!SlatepackAssumption
ASSUME Replies!SlatepackAssumption
ASSUME Outputs!NodeClientAssumption
ASSUME Node!NodeClientAssumption
ASSUME Life!LifecycleAssumption
ASSUME Alone!SessionAssumption
ASSUME Shared!SessionAssumption
ASSUME Updater!UpdaterAssumption
ASSUME Sync!SendAssumption
ASSUME Cmd!CommandsAssumption

Init ==
    \/ Starts("slatepack", 2) /\ Pack!Init
    \/ Starts("slatepack answered", 2) /\ Replies!Init
    \/ Starts("node outputs", 12) /\ Outputs!Init
    \/ Starts("node", 12) /\ Node!Init
    \/ Starts("lifecycle", 10) /\ Life!Init
    \/ Starts("session", 8) /\ Alone!Init
    \/ Starts("session shared", 8) /\ Shared!Init
    \/ Starts("updater", 14) /\ Updater!Init
    \/ Starts("sync", 9) /\ Sync!Init
    \/ Starts("commands", 15) /\ Cmd!Init
PackStep == Steps("slatepack", 2) /\ Pack!Next
RepliesStep == Steps("slatepack answered", 2) /\ Replies!Next
OutputsStep == Steps("node outputs", 12) /\ Outputs!Next
NodeStep == Steps("node", 12) /\ Node!Next
LifeStep == Steps("lifecycle", 10) /\ Life!Next
AloneStep == Steps("session", 8) /\ Alone!Next
SharedStep == Steps("session shared", 8) /\ Shared!Next
UpdaterStep == Steps("updater", 14) /\ Updater!Next
SyncStep == Steps("sync", 9) /\ Sync!Next
CmdStep == Steps("commands", 15) /\ Cmd!Next
Next ==
    \/ PackStep \/ RepliesStep \/ OutputsStep \/ NodeStep \/ LifeStep \/ AloneStep
    \/ SharedStep \/ UpdaterStep \/ SyncStep \/ CmdStep
Spec == Init /\ [][Next]_allvars

-----------------------------------------------------------------------------
\* The state of each part has its type.
TypeOK ==
    /\ part = "slatepack" => Pack!TypeOK
    /\ part = "slatepack answered" => Replies!TypeOK
    /\ part = "node outputs" => Outputs!TypeOK
    /\ part = "node" => Node!TypeOK
    /\ part = "lifecycle" => Life!TypeOK
    /\ part = "session" => Alone!TypeOK
    /\ part = "session shared" => Shared!TypeOK
    /\ part = "updater" => Updater!TypeOK
    /\ part = "sync" => Sync!TypeOK
    /\ part = "commands" => Cmd!TypeOK

\* A slatepack that was copied without damage other than white space is read by
\* the wallets it is meant for and by no other, by older versions too; a damaged one
\* is read as it was written or refused; an answer is readable for the sender.
SlatepacksRead ==
    /\ part = "slatepack" => Pack!ReadByAddressees /\ Pack!NothingElseIsRead
    /\ part = "slatepack answered" => Replies!ReadByAddressees /\ Replies!ReplyOnlyForSender

\* What the node client returns, in however many requests, was so at some moment of
\* the call; pages miss and repeat nothing; absent means that the node said so.
NodeReadsTrue ==
    /\ part = "node outputs" => Outputs!AnswersTimely /\ Outputs!PagesCover /\ Outputs!PagesDisjoint
    /\ part = "node" => Node!AbsentIsAbsent

\* No failure and no kill loses a seed that has outputs on the chain; a password
\* that was changed opens it; a wallet made from its phrase finds the outputs.
SeedSurvives ==
    part = "lifecycle" => Life!SeedSurvives /\ Life!PasswordChanged /\ Life!RestoredIsFound

\* A client that is alone with the server can use the key it was given and read its
\* replies; a foreign request that nothing overtakes finds an open keychain.
RepliesUsable ==
    part = "session" => Alone!ReplyReadable /\ Alone!KeyAgreed /\ Alone!ForeignServed
\* A method that needs the keychain succeeds only with the latest token.
OnlyCurrentToken == [][part = "session shared" => Shared!ServedByToken]_allvars

\* What is reported has happened: the updater's messages are complete up to what a
\* full queue drops, the result of a send over Tor is true, a command that ends well
\* has done its work, has locked what its file spends and has posted nothing partial.
ReportsTrue ==
    /\ part = "updater" => Updater!HistoryComplete
    /\ part = "sync" => Sync!OutcomeTrue
    /\ part = "commands" => Cmd!FileIsLocked /\ Cmd!PostedIsFinal /\ Cmd!OkMeansDone
=============================================================================
