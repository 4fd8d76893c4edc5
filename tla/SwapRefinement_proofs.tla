------------------------ MODULE SwapRefinement_proofs ------------------------
(***************************************************************************)
(* What the induction is for: the safety properties of SwapProtocol, and   *)
(* that it implements AtomicSwap, for every value of the constants.        *)
(***************************************************************************)
EXTENDS SwapProtocol_proofs, SwapBtcLock_proofs, SwapHandshake_proofs, SwapTrade_proofs

USE DEF Party, Peer

-----------------------------------------------------------------------------
(* The induction.                                                          *)

\* The steps of Alice's process.
LEMMA MwStepDeal ==
    ASSUME TypeOK, Conversation, Deal, MwStep
    PROVE  Deal'
<1>1. CASE locking_phase_swap_mw
  <2>1. mw_funds_panic => Deal'
    BY DieDeal, Zenon DEF mw_funds_panic
  <2> QED
    BY <1>1, <2>1, MwSendPubADeal, MwReceiveKeysDeal, MwVerifyDeal, MwLookAgainDeal, MwSendLockHeightDeal,
       MwSharedOutDeal, MwRefundTxDeal, MwPushFundingDeal, ZenonT(30) DEF locking_phase_swap_mw
<1>2. CASE exec_phase_swap_mw
  <2>1. mw_contract_tx => Deal'
    BY MwContractTxDeal, MwExtractDeal, Zenon DEF mw_contract_tx
  <2> QED
    BY <1>2, <2>1, StartExecutionDeal, MwRedeemDeal, ZenonT(30) DEF exec_phase_swap_mw
<1>3. CASE refund_phase_swap_mw
  BY <1>3, StartRefundDeal, MwRefundDeal, ZenonT(30) DEF refund_phase_swap_mw
<1> QED
  BY <1>1, <1>2, <1>3, Zenon DEF MwStep

\* The steps of Bob's process.
LEMMA BtcStepDeal ==
    ASSUME TypeOK, Conversation, Deal, BtcStep
    PROVE  Deal'
<1>1. CASE locking_phase_swap_btc
  <2>1. btc_lock_fails => Deal'
    BY DieDeal, Zenon DEF btc_lock_fails
  <2>2. btc_refund_tx => Deal'
    BY BtcRefundTxDeal, BtcLastLineDeal, Zenon
  <2> QED
    BY <1>1, <2>1, <2>2, BtcKeysDeal, BtcSendLockTimeDeal, BtcSendLockDeal, BtcAddressDeal, BtcSharedOutDeal, ZenonT(30) DEF
           locking_phase_swap_btc
<1>2. CASE exec_phase_swap_btc
  BY <1>2, StartExecutionDeal, BtcContractTxDeal, BtcContractDeal, ZenonT(30) DEF exec_phase_swap_btc
<1>3. CASE refund_phase_swap_btc
  BY <1>3, StartRefundDeal, BtcRefundDeal, Zenon DEF refund_phase_swap_btc
<1> QED
  BY <1>1, <1>2, <1>3, ZenonT(30) DEF BtcStep

\* The steps that do not depend on the currency.
LEMMA CommonDeal ==
    ASSUME TypeOK, Conversation, Deal, NEW p \in Party, CommonStep(p) \/ Crash(p)
    PROVE  Deal' /\ Conversation'
<1>1. Die(p) => Deal' /\ Conversation'
  BY DieDeal, DieTalk, Zenon
<1>2. ReadAck(p) \/ WritePrv(p) \/ WritePub(p) => Deal' /\ Conversation'
  BY ReadAckDeal, WritePrvDeal, WritePubDeal, ReadAckTalk, WriteTalk, ZenonT(30)
<1> QED
  BY <1>1, <1>2, Zenon DEF CommonStep, Crash, Err, BadTime, NodeRefuses, PeerGone

\* The handshake.
LEMMA HandshakeDeal ==
    ASSUME TypeOK, Conversation, Deal, ListenStep \/ ClientStep
    PROVE  Deal' /\ Conversation'
<1>1. CASE ListenStep
  <2>1. ListenAnswer => Deal'
    BY ListenAnswerDeal, ListenStartsDeal, Zenon
  <2> QED
    BY <1>1, <2>1, ListenChecksumDeal, ListenCommandDeal, ListenNextClientDeal, ListenChecksumTalk,
       ListenAnswerTalk, ListenCommandTalk, NextClientTalk, ZenonT(30) DEF ListenStep
<1>2. CASE ClientAnswered
  <2>1. pc[Client] \in AskSteps
    BY <1>2, Zenon DEF ClientAnswered, ReceiveStep, At, AskSteps
  <2>2. HasLine(Client) /\ LineTo(Client).type = "OK" =>
           /\ pub[Client].status = "INITIALIZED" => pc[Listener] \notin {"next_client", "command"}
           /\ pub[Client].status = "SETUP" => pc[Listener] \notin LockSteps(Listener) \cup {"next_client"}
    BY <2>1, AnswerKnown, Zenon
  <2> QED
    BY <1>2, <2>2, ClientAnsweredTalk, ClientAnsweredDeal, ZenonT(30)
<1>3. CASE ClientSendsCommand
  BY <1>3, ClientSendsDeal, ClientSendsTalk, Zenon
<1> QED
  BY <1>1, <1>2, <1>3, Zenon DEF ClientStep

\* Every step preserves the invariant.
LEMMA NextDeal ==
    ASSUME TypeOK, Conversation, Deal, [Next]_vars
    PROVE  Conversation' /\ Deal'
<1>1. CASE UNCHANGED vars
  BY <1>1, SameDeal, SameConversation, Zenon DEF vars, slateVars, auxVars, chainVars, Quiet
<1>2. CASE UserStep
  <2>1. Conversation'
    BY <1>2, ListenTalk, CommandTalk, ZenonT(30) DEF UserStep, Lock, Execute, Cancel, AskSteps
  <2> QED
    BY <1>2, <2>1, UserDeal, Zenon
<1>3. CASE Mine
  BY <1>3, MineDeal, SameConversation, ZenonT(30) DEF Mine
<1>4. ASSUME NEW p \in Party, ProcessStep(p) \/ Crash(p)
      PROVE  Conversation' /\ Deal'
  BY <1>4, MwTalk, MwStepDeal, BtcTalk, BtcStepDeal, HandshakeDeal, CommonDeal, ZenonT(30) DEF ProcessStep
<1> QED
  BY <1>1, <1>2, <1>3, <1>4, ZenonT(30) DEF Next

\* It holds when the swap begins.
LEMMA InitDeal ==
    ASSUME Init
    PROVE  Conversation /\ Deal
<1>1. /\ \A p \in Party : /\ pc[p] = "idle" /\ ~ack[p] /\ net[p] = <<>>
                          /\ pub[p] = NewPub /\ pubFile[p] = NewPub /\ prv[p] = NewPrv /\ prvFile[p] = NewPrv
      /\ ~link /\ x = 0 /\ session = 0
      /\ btcOut = [state |-> "none", keys |-> 0, lock_time |-> 0] /\ mwOut = [state |-> "none", keys |-> 0]
  BY Zenon DEF Init, ChainsInit
<1>2. \A p \in Party : ~HasLine(p) /\ ~HasAck(p) /\ Queue(p)
  BY <1>1, SMTT(30) DEF HasLine, HasAck, Queue
<1>3. \A p \in Party : ~Filed(p) /\ ~Set(p) /\ ~Dated(p)
  BY <1>1, OtherPlaces, SMTT(30) DEF Filed, Set, Dated, NewPub
<1>4. \A p \in Party : /\ "idle" \notin TalkSteps(p) /\ "idle" \notin HandshakeSteps(p)
                       /\ "idle" \in Steps(p) /\ "idle" \in OutSteps
  BY HandshakePlaces, PhasesApart, Zenon DEF Steps, OutSteps
<1>5. "idle" \notin AskSteps /\ "idle" \notin SendCommandSteps
  BY ZenonT(30) DEF AskSteps, SendCommandSteps
<1>6. Conversation
  BY <1>1, <1>2, <1>4, Roles, ZenonT(30) DEF Conversation, Turns, InStep, Together, Handshake
<1>7. MwMemory /\ BtcMemory /\ Filing /\ Settling
  BY <1>1, <1>3, OtherPlaces, MwPlaces, BtcPlaces, SMTT(30) DEF MwMemory, BtcMemory, Filing, Settling
<1>8. \A p \in Party : FilesOf(p)
  BY <1>1, <1>3, <1>5, OtherPlaces, SMTT(30) DEF FilesOf, NewPub
<1>9. Session /\ LineValues
  BY <1>1, <1>5, Roles, OtherPlaces, SMTT(30) DEF Session, LineValues
<1>10. Outcome
  BY <1>1, Zenon DEF Outcome
<1> QED
  BY <1>6, <1>7, <1>8, <1>9, <1>10, ZenonT(30) DEF Deal

\* The inductive invariant: the conversation of the two processes is in step, and what
\* the slates, the files, the lines under way and the ledgers say fits together.
THEOREM SwapInvariantHolds == Spec => [](TypeOK /\ Conversation /\ Deal)
<1>1. Init => Conversation /\ Deal
  BY InitDeal, Zenon
<1>2. TypeOK /\ Conversation /\ Deal /\ [Next]_vars => Conversation' /\ Deal'
  BY NextDeal, Zenon
<1> QED
  BY <1>1, <1>2, TypeCorrect, PTL DEF Spec

-----------------------------------------------------------------------------
(* The invariants.                                                         *)

\* The line a process reads next is the one Expected names.
LEMMA DueIsExpected ==
    ASSUME NEW p \in Party, NEW l \in Steps(p), l \in DOMAIN Expected
    PROVE  \/ l \in TalkSteps(p) /\ Due[l] \in Expected[l]
           \/ p = Client /\ l \in AskSteps /\ Expected[l] = {"OK", "FAULT"}
           \/ p = Listener /\ l = "checksum" /\ Expected[l] = {"checksum"}
           \/ p = Listener /\ l = "command" /\ Expected[l] = {"EXECUTE", "CANCEL"}
<1>1. l \in TalkSteps(p) => Due[l] \in Expected[l]
  BY SMTT(30) DEF TalkSteps, LockSteps, ExecSteps, MwLockSteps, BtcLockSteps, MwExecSteps, BtcExecSteps, Due, Expected
<1>2. l \in AskSteps => Expected[l] = {"OK", "FAULT"}
  BY SMTT(30) DEF AskSteps, Expected
<1>3. Expected["checksum"] = {"checksum"} /\ Expected["command"] = {"EXECUTE", "CANCEL"}
  BY Zenon DEF Expected
<1>4. l \notin RefundSteps(p) \cup {"idle", "err", "write_prv", "write_pub"} \cup SendCommandSteps
        /\ l \notin {"ok", "fault", "accept", "next_client"}
  BY Zenon DEF Expected, RefundSteps, SendCommandSteps
<1>5. l \in TalkSteps(p) \/ l \in HandshakeSteps(p)
  BY <1>4, Zenon DEF Steps
<1>6. l \in HandshakeSteps(p) => \/ p = Listener /\ l \in {"checksum", "command"}
                                 \/ p = Client /\ l \in AskSteps
  BY <1>4, Roles, Zenon DEF HandshakeSteps, AnswerSteps
<1> QED
  BY <1>1, <1>2, <1>3, <1>5, <1>6, ZenonT(30)

\* The two processes never misunderstand each other: the line a process reads is always
\* of the kind that the code at that place parses, whatever crashes and restarts happen.
THEOREM LinesInStepHolds == Spec => []LinesInStep
<1>1. TypeOK /\ Conversation => LinesInStep
  <2>1. SUFFICES ASSUME TypeOK, Conversation, NEW p \in Party, net[p] # <<>>
                 PROVE  IF ack[p] THEN Head(net[p]).type = "ACK"
                        ELSE pc[p] \in DOMAIN Expected => Head(net[p]).type \in Expected[pc[p]]
    BY Zenon DEF LinesInStep
  <2>2. /\ Queue(p) /\ pc[p] \in Steps(p)
        /\ HasAck(p) => ack[p]
        /\ ack[p] /\ HasLine(p) => HasAck(p)
    BY <2>1, Zenon DEF Conversation, Turns
  <2>3. CASE ack[p]
    BY <2>1, <2>2, <2>3, QueueShape, ZenonT(30)
  <2>4. CASE ~ack[p] /\ pc[p] \in DOMAIN Expected
    <3>1. HasLine(p) /\ Head(net[p]) = LineTo(p)
      BY <2>1, <2>2, <2>4, QueueShape, ZenonT(30)
    <3>2. pc[p] \in TalkSteps(p) => LineTo(p).type = Due[pc[p]]
      BY <2>1, <3>1, ZenonT(30) DEF Conversation, InStep
    <3>3. /\ pc[Client] \in AskSteps /\ HasLine(Client) => LineTo(Client).type \in {"OK", "FAULT"}
          /\ pc[Listener] = "checksum" /\ HasLine(Listener) => LineTo(Listener).type = "checksum"
          /\ pc[Listener] = "command" /\ HasLine(Listener) => LineTo(Listener).type \in {"EXECUTE", "CANCEL"}
      BY <2>1, ZenonT(30) DEF Conversation, Handshake
    <3> QED
      BY <2>2, <2>4, <3>1, <3>2, <3>3, DueIsExpected, SMTT(30)
  <2> QED
    BY <2>3, <2>4, Zenon
<1> QED
  BY <1>1, SwapInvariantHolds, PTL

\* The public files of two complete slates name the same terms.
LEMMA FiledTerms ==
    ASSUME TypeOK, Deal, Filed("mw"), Filed("btc")
    PROVE  SameTerms(pubFile["mw"], pubFile["btc"])
<1>1. MwDeal(pubFile["mw"], prvFile["mw"]) /\ BtcDeal(pubFile["btc"], prvFile["btc"])
  BY Zenon DEF Deal, Filing
<1>2. pub["mw"].mw_lock_time = pub["btc"].mw_lock_time
  BY Zenon DEF Deal, Settling, Dated, Set
<1>3. SameTerms(pub["mw"], pubFile["mw"]) /\ SameTerms(pub["btc"], pubFile["btc"])
  BY Zenon DEF Deal, FilesOf
<1> QED
  BY <1>1, <1>2, <1>3, ZenonT(30) DEF MwDeal, BtcDeal, SameTerms

\* When both slates are in SETUP the public files are the same, so that the checksums
\* compared by execute and cancel match.
THEOREM SlatesAgreeHolds == Spec => []SlatesAgree
<1>1. TypeOK /\ Deal => SlatesAgree
  <2>1. SUFFICES ASSUME TypeOK, Deal, pubFile["mw"].status = "SETUP", pubFile["btc"].status = "SETUP"
                 PROVE  pubFile["mw"] = pubFile["btc"]
    BY Zenon DEF SlatesAgree
  <2>2. SameTerms(pubFile["mw"], pubFile["btc"])
    BY <2>1, FiledTerms, ZenonT(30) DEF Filed
  <2>3. pubFile["mw"] \in PubSlate /\ pubFile["btc"] \in PubSlate
    BY <2>1, ZenonT(30) DEF TypeOK
  <2> QED
    BY <2>1, <2>2, <2>3, SMTT(30) DEF PubSlate, SameTerms
<1> QED
  BY <1>1, SwapInvariantHolds, PTL

\* At every point a process can be killed at, what the slate files say happened on the
\* chains did happen, and the secrets the next command needs are in them.
THEOREM FilesBackedHolds == Spec => []FilesBacked
<1>1. TypeOK /\ Deal => FilesBacked
  <2>1. SUFFICES ASSUME TypeOK, Deal
                 PROVE  FilesBacked
    OBVIOUS
  <2>2. \A p \in Party : pubFile[p].status # "EXECUTING"
    BY <2>1, ZenonT(30) DEF Deal, FilesOf
  <2>3. MwFilesBacked
    BY <2>1, <2>2, ZenonT(30) DEF Deal, Filing, Filed, MwDeal, Locked, MwFilesBacked
  <2>4. BtcFilesBacked
    BY <2>1, <2>2, ZenonT(30) DEF Deal, Filing, Filed, BtcDeal, Locked, BtcFilesBacked
  <2> QED
    BY <2>3, <2>4, ZenonT(30) DEF FilesBacked
<1> QED
  BY <1>1, SwapInvariantHolds, PTL

\* Bob has the shared output only when Alice has received the line from which she
\* extracts x, and the x she has is the one that opens the lock output.
THEOREM ContractRevealsXHolds == Spec => []ContractRevealsX
<1>1. TypeOK /\ Deal => ContractRevealsX
  BY ZenonT(30) DEF ContractRevealsX, Deal, Outcome, Filing, MwDeal, Locked
<1> QED
  BY <1>1, SwapInvariantHolds, PTL

\* When one party has been refunded, the refund of the other is mature.
THEOREM RefundsMatureTogetherHolds == Spec => []RefundsMatureTogether
<1>1. TypeOK /\ Deal => RefundsMatureTogether
  <2>1. SUFFICES ASSUME TypeOK, Deal
                 PROVE  RefundsMatureTogether
    OBVIOUS
  <2>2. ASSUME btcOut.state = "refunded"
        PROVE  grinHeight > prvFile["mw"].refund_height
    <3>1. Filed("mw") /\ Filed("btc") /\ grinHeight > pubFile["btc"].mw_lock_time
      BY <2>1, <2>2, ZenonT(30) DEF Deal, Outcome
    <3> QED
      BY <2>1, <3>1, FiledTerms, ZenonT(30) DEF SameTerms, Deal, Filing, MwDeal
  <2>3. ASSUME mwOut.state = "refunded"
        PROVE  btcHeight > pubFile["btc"].btc_lock_time
    <3>1. Filed("mw") /\ Filed("btc") /\ btcHeight > pubFile["mw"].btc_lock_time
      BY <2>1, <2>3, ZenonT(30) DEF Deal, Outcome
    <3> QED
      BY <2>1, <3>1, FiledTerms, ZenonT(30) DEF SameTerms
  <2> QED
    BY <2>2, <2>3, ZenonT(30) DEF RefundsMatureTogether
<1> QED
  BY <1>1, SwapInvariantHolds, PTL

-----------------------------------------------------------------------------
(* The steps that move coins.                                              *)

\* Alice receives the last line of the contract transaction.
mw_extract_x ==
    /\ At("mw", "mw_ctr_final") /\ receive_msg("mw", "ctr_final") /\ x' = Msg("mw") /\ Goto("mw", "mw_redeem")
    /\ UNCHANGED <<chainVars, slateVars, fileVars, attempts, session, givenVars>>
\* Everything else leaves the two outputs, x and the Bitcoin height alone.
Apart == UNCHANGED <<btcOut, mwOut, x, btcHeight>>

\* What changes an output, x or the Bitcoin height.
LEMMA CoinsMove ==
    ASSUME [Next]_vars
    PROVE  \/ Apart \/ (Mine /\ MineBtc)
           \/ btc_send_lock \/ mw_push_funding \/ mw_extract_x \/ mw_redeem \/ btc_push_contract
           \/ mw_push_refund \/ btc_send_refund
<1>1. CASE UNCHANGED vars \/ UserStep
  BY <1>1, Zenon DEF vars, chainVars, auxVars, UserStep, Listen, Lock, Execute, Cancel, Command, Apart
<1>2. CASE Mine
  BY <1>2, Zenon DEF Mine, MineGrin, auxVars, Apart
<1>3. \A p \in Party : Die(p) => Apart
  BY Zenon DEF Die, chainVars, auxVars, Apart
<1>4. ASSUME NEW p \in Party, CommonStep(p) \/ Crash(p)
      PROVE  Apart
  <2>1. ReadAck(p) \/ WritePrv(p) \/ WritePub(p) => Apart
    BY Zenon DEF ReadAck, WritePrv, WritePub, chainVars, auxVars, Apart
  <2> QED
    BY <1>3, <1>4, <2>1, ZenonT(30) DEF CommonStep, Crash, Err, BadTime, NodeRefuses, PeerGone
<1>5. ListenStep \/ ClientStep => Apart
  BY Zenon DEF ListenStep, ClientStep, ListenChecksum, ListenAnswer, ListenCommand, ListenCommandEof,
         ListenNextClient, ClientAnswered, ClientSendsCommand, SendStep, ReceiveStep, chainVars, auxVars, Apart
<1>6. locking_phase_swap_mw => Apart \/ mw_push_funding
  <2>1. mw_funds_panic => Apart
    BY <1>3, Zenon DEF mw_funds_panic
  <2>2. mw_send_pub_a \/ mw_receive_pub_b \/ mw_receive_lock_time \/ mw_import_address \/ mw_receive_address => Apart
    BY Zenon DEF mw_send_pub_a, mw_receive_pub_b, mw_receive_lock_time, mw_import_address, mw_receive_address,
           import_btc_address, chainVars, auxVars, Apart
  <2>3. mw_balance_found \/ mw_balance_differs \/ mw_balance_zero \/ mw_not_verified \/ mw_send_lock_height => Apart
    BY Zenon DEF mw_balance_found, mw_balance_differs, mw_balance_zero, mw_not_verified, mw_send_lock_height,
           chainVars, auxVars, Apart
  <2>4. mw_shared_out \/ mw_refund_tx => Apart
    BY Zenon DEF mw_shared_out, mw_refund_tx, SendStep, ReceiveStep, chainVars, auxVars, Apart
  <2> QED
    BY <2>1, <2>2, <2>3, <2>4, ZenonT(30) DEF locking_phase_swap_mw
<1>7. locking_phase_swap_btc => Apart \/ btc_send_lock
  <2>1. btc_lock_fails => Apart
    BY <1>3, Zenon DEF btc_lock_fails
  <2>2. btc_receive_pub_a \/ btc_send_pub_b \/ btc_send_lock_time \/ btc_send_address \/ btc_receive_lock_height
           \/ btc_shared_out \/ btc_refund_tx => Apart
    BY Zenon DEF btc_receive_pub_a, btc_send_pub_b, btc_send_lock_time, btc_send_address, btc_receive_lock_height,
           btc_shared_out, btc_refund_tx, SendStep, ReceiveStep, chainVars, auxVars, Apart
  <2> QED
    BY <2>1, <2>2, Zenon DEF locking_phase_swap_btc
<1>8. \A p \in Party : \A l, m : StartExecution(p, l, m) \/ StartRefund(p, l, m) => Apart
  BY Zenon DEF StartExecution, StartRefund, chainVars, auxVars, Apart
<1>9. mw_contract_tx => Apart \/ mw_extract_x
  BY Zenon DEF mw_contract_tx, mw_extract_x, SendStep, chainVars, auxVars, Apart
<1>10. btc_contract_tx => Apart
  BY Zenon DEF btc_contract_tx, SendStep, ReceiveStep, chainVars, auxVars, Apart
<1>11. MwStep => Apart \/ mw_push_funding \/ mw_extract_x \/ mw_redeem \/ mw_push_refund
  BY <1>6, <1>8, <1>9, Zenon DEF MwStep, exec_phase_swap_mw, refund_phase_swap_mw
<1>12. BtcStep => Apart \/ btc_send_lock \/ btc_push_contract \/ btc_send_refund
  BY <1>7, <1>8, <1>10, ZenonT(30) DEF BtcStep, exec_phase_swap_btc, refund_phase_swap_btc
<1> QED
  BY <1>1, <1>2, <1>4, <1>5, <1>11, <1>12, ZenonT(30) DEF Next, ProcessStep

\* What each of them does to the ledgers.
LEMMA CoinsMoved ==
    ASSUME TypeOK
    PROVE  /\ MineBtc => /\ mwOut' = mwOut /\ btcHeight' = btcHeight + 1
                         /\ btcOut' = btcOut \/ (btcOut.state = "mempool" /\ btcOut'.state = "mined")
                         /\ btcOut'.lock_time = btcOut.lock_time
           /\ btc_send_lock => /\ btcOut.state = "none" /\ btcOut'.state = "mempool"
                               /\ UNCHANGED <<mwOut, x, btcHeight>>
           /\ mw_push_funding => /\ pc["mw"] = "mw_fund" /\ mwOut.state = "none" /\ mwOut'.state = "shared"
                                 /\ UNCHANGED <<btcOut, x, btcHeight>>
           /\ mw_redeem => /\ pc["mw"] = "mw_redeem" /\ x = btcOut.keys /\ btcOut.state \in {"mempool", "mined"}
                           /\ btcOut'.state = "redeemed" /\ btcOut'.lock_time = btcOut.lock_time
                           /\ UNCHANGED <<mwOut, x, btcHeight>>
           /\ btc_push_contract => /\ mwOut.state = "shared" /\ mwOut'.state = "contract"
                                   /\ UNCHANGED <<btcOut, x, btcHeight>>
           /\ mw_push_refund => /\ pc["mw"] = "mw_refund_push" /\ ~ack["mw"]
                                /\ mwOut.state = "shared" /\ mwOut'.state = "refunded"
                                /\ UNCHANGED <<btcOut, x, btcHeight>>
           /\ btc_send_refund => /\ pc["btc"] = "btc_refund_push" /\ ~ack["btc"]
                                 /\ btcOut.state \in {"mempool", "mined"} /\ btcOut'.state = "refunded"
                                 /\ btcOut'.lock_time = btcOut.lock_time
                                 /\ UNCHANGED <<mwOut, x, btcHeight>>
<1>1. MineBtc => /\ mwOut' = mwOut /\ btcHeight' = btcHeight + 1
                 /\ btcOut' = btcOut \/ (btcOut.state = "mempool" /\ btcOut'.state = "mined")
                 /\ btcOut'.lock_time = btcOut.lock_time
  BY Zenon DEF MineBtc, TypeOK
<1>2. btc_send_lock => /\ btcOut.state = "none" /\ btcOut'.state = "mempool"
                       /\ UNCHANGED <<mwOut, x, btcHeight>>
  BY SMTT(30) DEF btc_send_lock, SendLock, LockAccepted, auxVars
<1>3. mw_push_funding => /\ pc["mw"] = "mw_fund" /\ mwOut.state = "none" /\ mwOut'.state = "shared"
                         /\ UNCHANGED <<btcOut, x, btcHeight>>
  BY SMTT(30) DEF mw_push_funding, PushFunding, FundingAccepted, auxVars, At
<1>4. mw_redeem => /\ pc["mw"] = "mw_redeem" /\ x = btcOut.keys /\ btcOut.state \in {"mempool", "mined"}
                   /\ btcOut'.state = "redeemed" /\ btcOut'.lock_time = btcOut.lock_time
                   /\ UNCHANGED <<mwOut, x, btcHeight>>
  BY SMTT(30) DEF mw_redeem, SendRedeem, RedeemAccepted, BtcUnspent, auxVars, At
<1>5. btc_push_contract => /\ mwOut.state = "shared" /\ mwOut'.state = "contract"
                           /\ UNCHANGED <<btcOut, x, btcHeight>>
  BY SMTT(30) DEF btc_push_contract, PushContract, ContractAccepted, auxVars
<1>6. mw_push_refund => /\ pc["mw"] = "mw_refund_push" /\ ~ack["mw"]
                        /\ mwOut.state = "shared" /\ mwOut'.state = "refunded"
                        /\ UNCHANGED <<btcOut, x, btcHeight>>
  BY SMTT(30) DEF mw_push_refund, PushMwRefund, MwRefundAccepted, auxVars, At
<1>7. btc_send_refund => /\ pc["btc"] = "btc_refund_push" /\ ~ack["btc"]
                         /\ btcOut.state \in {"mempool", "mined"} /\ btcOut'.state = "refunded"
                         /\ btcOut'.lock_time = btcOut.lock_time
                         /\ UNCHANGED <<mwOut, x, btcHeight>>
  BY SMTT(30) DEF btc_send_refund, SendBtcRefund, BtcRefundAccepted, BtcUnspent, auxVars, At
<1> QED
  BY <1>1, <1>2, <1>3, <1>4, <1>5, <1>6, <1>7, ZenonT(30)

\* A party that refunds has a peer that is not executing.
LEMMA RefundingAlone ==
    ASSUME Conversation, Deal, NEW p \in Party, ~ack[p], pc[p] \in RefundSteps(p)
    PROVE  pub[Peer(p)].status # "EXECUTING"
<1>1. pc[Peer(p)] \in RefundSteps(Peer(p)) \cup {"write_prv"} \cup OutSteps
  BY PhasePeer, Zenon
<1>2. pc[Peer(p)] \notin ExecSteps(Peer(p)) \cup {"err"}
  BY <1>1, Roles, PhasesApart, ZenonT(30) DEF OutSteps
<1> QED
  BY <1>2, ZenonT(30) DEF Deal, FilesOf

\* No coin is refunded while the other party is executing the swap.
THEOREM NoRefundDuringExecutionHolds == Spec => NoRefundDuringExecution
<1>1. TypeOK /\ Conversation /\ Deal /\ [Next]_vars =>
        [/\ btcOut.state # "refunded" /\ btcOut'.state = "refunded" => pub["mw"].status # "EXECUTING"
         /\ mwOut.state # "refunded" /\ mwOut'.state = "refunded" => pub["btc"].status # "EXECUTING"]_vars
  <2>1. SUFFICES ASSUME TypeOK, Conversation, Deal, [Next]_vars
                 PROVE  /\ btcOut.state # "refunded" /\ btcOut'.state = "refunded" => pub["mw"].status # "EXECUTING"
                        /\ mwOut.state # "refunded" /\ mwOut'.state = "refunded" => pub["btc"].status # "EXECUTING"
    OBVIOUS
  <2>2. btcOut.state # "refunded" /\ btcOut'.state = "refunded" => btc_send_refund
    BY <2>1, CoinsMove, CoinsMoved, ZenonT(30) DEF Apart, mw_extract_x, chainVars
  <2>3. mwOut.state # "refunded" /\ mwOut'.state = "refunded" => mw_push_refund
    BY <2>1, CoinsMove, CoinsMoved, ZenonT(30) DEF Apart, mw_extract_x, chainVars
  <2>4. btc_send_refund => pub["mw"].status # "EXECUTING"
    BY <2>1, CoinsMoved, TradePlaces, RefundingAlone, ZenonT(30)
  <2>5. mw_push_refund => pub["btc"].status # "EXECUTING"
    BY <2>1, CoinsMoved, TradePlaces, RefundingAlone, ZenonT(30)
  <2> QED
    BY <2>2, <2>3, <2>4, <2>5, ZenonT(30)
<1> QED
  BY <1>1, SwapInvariantHolds, PTL DEF Spec, NoRefundDuringExecution

-----------------------------------------------------------------------------
(* The refinement.                                                         *)

\* Who holds the coins, by the state of the outputs.
LEMMA Holders ==
    ASSUME TypeOK
    PROVE  /\ btcOut.state = "none" => btcHolder = "bob"
           /\ btcOut.state \in {"mempool", "mined"} => btcHolder = "locked"
           /\ btcOut.state = "redeemed" => btcHolder = "alice"
           /\ btcOut.state = "refunded" => btcHolder = "refunded"
           /\ btcOut.state # "none" => btcHolder # "bob"
           /\ mwOut.state = "none" => mwHolder = "alice"
           /\ mwOut.state = "shared" => mwHolder = "shared"
           /\ mwOut.state = "contract" => mwHolder = "bob"
           /\ mwOut.state = "refunded" => mwHolder = "refunded"
<1>1. btcOut.state \in {"none", "mempool", "mined", "redeemed", "refunded"}
  BY Zenon DEF TypeOK
<1> QED
  BY Zenon DEF btcHolder, mwHolder

\* The same after a step.
LEMMA HoldersAfter ==
    /\ btcOut' = btcOut => btcHolder' = btcHolder
    /\ btcOut'.state \in {"mempool", "mined"} => btcHolder' = "locked"
    /\ btcOut'.state = "redeemed" => btcHolder' = "alice"
    /\ btcOut'.state = "refunded" => btcHolder' = "refunded"
    /\ mwOut' = mwOut => mwHolder' = mwHolder
    /\ mwOut'.state = "shared" => mwHolder' = "shared"
    /\ mwOut'.state = "contract" => mwHolder' = "bob"
    /\ mwOut'.state = "refunded" => mwHolder' = "refunded"
BY Zenon DEF btcHolder, mwHolder

\* The lock time of the bitcoins has passed for a party that is about to refund.
LEMMA RefundExpired ==
    ASSUME TypeOK, Deal, pc["mw"] = "mw_refund_push" \/ pc["btc"] = "btc_refund_push"
    PROVE  btcExpired
<1>1. PICK p \in Party : pc[p] \in RefundSteps(p) /\ can_refund(p)
  BY TradePlaces, Zenon DEF Deal, Outcome
<1>2. btcHeight > pub[p].btc_lock_time
  BY <1>1, Zenon DEF can_refund
<1>3. btcOut.state # "none" /\ btcOut.lock_time = pub[p].btc_lock_time
  BY <1>1, TradeTerms, Zenon DEF MwDeal, BtcDeal, Locked
<1> QED
  BY <1>2, <1>3, ZenonT(30) DEF btcExpired

\* Every step of the program is a step of the abstract swap or changes nothing in it.
LEMMA StepRefines ==
    ASSUME TypeOK, Conversation, Deal, [Next]_vars
    PROVE  [Swap!Next]_(Swap!vars)
<1>1. CASE Apart
  BY <1>1, HoldersAfter, Zenon DEF Apart, Swap!vars, btcExpired
<1>2. CASE Mine /\ MineBtc
  <2>1. /\ btcHolder' = btcHolder /\ mwHolder' = mwHolder /\ x' = x
    BY <1>2, CoinsMoved, Holders, HoldersAfter, ZenonT(30) DEF Mine, auxVars
  <2>2. btcHeight \in Nat /\ btcOut.lock_time \in Nat /\ btcHeight' = btcHeight + 1
        /\ btcOut'.lock_time = btcOut.lock_time /\ (btcOut'.state = "none" <=> btcOut.state = "none")
    BY <1>2, CoinsMoved, ZenonT(30) DEF TypeOK
  <2>3. btcExpired' = btcExpired \/ (btcOut.state # "none" /\ btcExpired' = TRUE)
    BY <2>2, SMTT(30) DEF btcExpired
  <2> QED
    BY <2>1, <2>3, Holders, ZenonT(30) DEF Swap!Next, Swap!Expire, Swap!vars
<1>3. CASE btc_send_lock
  <2>1. btcExpired' \in BOOLEAN
    BY Zenon DEF btcExpired
  <2> QED
    BY <1>3, <2>1, CoinsMoved, Holders, HoldersAfter, ZenonT(30) DEF Swap!Next, Swap!Lock
<1>4. CASE mw_push_funding
  <2>1. btcOut.state # "none"
    BY <1>4, CoinsMoved, MwOrder, MwPlaces, Holders, HoldersAfter, ZenonT(30) DEF Deal, MwMemory, Locked
  <2> QED
    BY <1>4, <2>1, CoinsMoved, Holders, HoldersAfter, ZenonT(30) DEF Swap!Next, Swap!Fund, btcExpired
<1>5. CASE mw_extract_x
  <2>1. UNCHANGED <<btcOut, mwOut, btcHeight>> /\ pc["mw"] = "mw_ctr_final"
    BY <1>5, Zenon DEF mw_extract_x, chainVars, At
  <2>2. x' = session /\ session > 0 /\ session \in Nat /\ mwOut.state # "none"
    BY <1>5, <2>1, MwExtractDeal, TradePlaces, TradeTerms, ZenonT(30) DEF mw_extract_x, MwDeal
  <2>3. mwOut.state # "refunded" /\ (mwOut.state = "contract" => x # 0)
    BY <2>1, TradePlaces, ZenonT(30) DEF Deal, Outcome
  <2>4. mwOut.state = "shared" \/ x # 0
    BY <2>2, <2>3, ZenonT(30) DEF TypeOK
  <2>5. (x # 0)' = TRUE /\ btcExpired' = btcExpired
    BY <2>1, <2>2, HoldersAfter, SMTT(30) DEF btcExpired
  <2> QED
    BY <2>1, <2>4, <2>5, HoldersAfter, ZenonT(30) DEF Swap!Next, Swap!Reveal, Swap!vars
<1>6. CASE mw_redeem
  <2>1. x # 0
    <3>1. x = btcOut.keys /\ btcOut.keys = session /\ session > 0 /\ session \in Nat
      BY <1>6, CoinsMoved, TradePlaces, TradeTerms, ZenonT(30) DEF MwDeal, Locked
    <3> QED
      BY <3>1, SMTT(30)
  <2>2. btcExpired' = btcExpired
    BY <1>6, CoinsMoved, Zenon DEF btcExpired
  <2> QED
    BY <1>6, <2>1, <2>2, CoinsMoved, Holders, HoldersAfter, ZenonT(30) DEF Swap!Next, Swap!Redeem
<1>7. CASE btc_push_contract
  <2>1. x # 0
    BY <1>7, BtcContractDeal, ZenonT(30)
  <2> QED
    BY <1>7, <2>1, CoinsMoved, Holders, HoldersAfter, ZenonT(30) DEF Swap!Next, Swap!Claim, btcExpired
<1>8. CASE mw_push_refund
  <2>1. btcExpired /\ btcExpired' = btcExpired
    BY <1>8, CoinsMoved, RefundExpired, ZenonT(30) DEF btcExpired
  <2> QED
    BY <1>8, <2>1, CoinsMoved, Holders, HoldersAfter, ZenonT(30) DEF Swap!Next, Swap!RefundMw
<1>9. CASE btc_send_refund
  <2>1. btcExpired
    BY <1>9, CoinsMoved, RefundExpired, ZenonT(30)
  <2>2. btcExpired' = btcExpired
    BY <1>9, CoinsMoved, HoldersAfter, ZenonT(30) DEF btcExpired
  <2> QED
    BY <1>9, <2>1, <2>2, CoinsMoved, Holders, HoldersAfter, ZenonT(30) DEF Swap!Next, Swap!RefundBtc
<1> QED
  BY <1>1, <1>2, <1>3, <1>4, <1>5, <1>6, <1>7, <1>8, <1>9, CoinsMove, ZenonT(30)

\* The two programs implement the abstract swap: the bitcoins are committed first and the
\* grins only after them, x passes to Alice while the grins are shared and no coin moves on
\* to its buyer before that, and a refund waits for the lock time.
THEOREM ImplementsAtomicSwapHolds == Spec => ImplementsAtomicSwap
<1>1. Init => Swap!Init
  <2>1. SUFFICES ASSUME Init
                 PROVE  Swap!Init
    OBVIOUS
  <2>2. btcOut.state = "none" /\ mwOut.state = "none" /\ x = 0
    BY <2>1, Zenon DEF Init, ChainsInit
  <2>3. btcHolder = "bob" /\ mwHolder = "alice" /\ btcExpired = FALSE
    BY <2>2, Zenon DEF btcHolder, mwHolder, btcExpired
  <2> QED
    BY <2>2, <2>3, ZenonT(30) DEF Swap!Init
<1>2. TypeOK /\ Conversation /\ Deal /\ [Next]_vars => [Swap!Next]_(Swap!vars)
  BY StepRefines, Zenon
<1> QED
  BY <1>1, <1>2, SwapInvariantHolds, PTL DEF Spec, ImplementsAtomicSwap, Swap!Spec
=============================================================================
