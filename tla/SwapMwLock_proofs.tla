-------------------------- MODULE SwapMwLock_proofs --------------------------
(***************************************************************************)
(* What the two parties hold fits together: the frames of that argument,   *)
(* and the steps of Alice in the locking phase preserve Deal.              *)
(***************************************************************************)
EXTENDS SwapConversation_proofs

USE DEF Party, Peer

-----------------------------------------------------------------------------
(* Frames: what a step leaves alone stays true.                            *)

\* A step that writes no file and touches no ledger.
Quiet == UNCHANGED <<fileVars, session, x, btcOut, mwOut, btcHeight, grinHeight>>

\* What no step does to the ledgers.
ChainsKept ==
    /\ btcOut.state # "none" =>
         btcOut'.state # "none" /\ btcOut'.keys = btcOut.keys /\ btcOut'.lock_time = btcOut.lock_time
    /\ btcOut.state \in {"redeemed", "refunded"} => btcOut'.state = btcOut.state
    /\ mwOut.state # "none" => mwOut'.state # "none" /\ mwOut'.keys = mwOut.keys
    /\ mwOut.state \in {"contract", "refunded"} => mwOut'.state = mwOut.state

\* The node operations, one by one.
LEMMA KeepChains ==
    ASSUME TypeOK
    PROVE  /\ UNCHANGED <<btcOut, mwOut>> => ChainsKept
           /\ \A s, t : SendLock(s, t) => ChainsKept
           /\ \A s, t : SendRedeem(s, t) => ChainsKept
           /\ \A s, t : SendBtcRefund(s, t) => ChainsKept
           /\ \A s : PushFunding(s) => ChainsKept
           /\ \A s : PushContract(s) => ChainsKept
           /\ \A s, t : PushMwRefund(s, t) => ChainsKept
           /\ MineBtc \/ MineGrin => ChainsKept
<1>1. UNCHANGED <<btcOut, mwOut>> => ChainsKept
  BY Zenon DEF ChainsKept
<1>2. \A s, t : SendLock(s, t) => ChainsKept
  BY Zenon DEF SendLock, LockAccepted, ChainsKept
<1>3. \A s, t : SendRedeem(s, t) => ChainsKept
  BY SMTT(30) DEF SendRedeem, RedeemAccepted, BtcUnspent, ChainsKept
<1>4. \A s, t : SendBtcRefund(s, t) => ChainsKept
  BY SMTT(30) DEF SendBtcRefund, BtcRefundAccepted, BtcUnspent, ChainsKept
<1>5. \A s : PushFunding(s) => ChainsKept
  BY Zenon DEF PushFunding, FundingAccepted, ChainsKept
<1>6. \A s : PushContract(s) => ChainsKept
  BY SMTT(30) DEF PushContract, ContractAccepted, ChainsKept
<1>7. \A s, t : PushMwRefund(s, t) => ChainsKept
  BY SMTT(30) DEF PushMwRefund, MwRefundAccepted, ChainsKept
<1>8. MineBtc \/ MineGrin => ChainsKept
  BY Zenon DEF MineBtc, MineGrin, TypeOK, ChainsKept
<1> QED
  BY <1>1, <1>2, <1>3, <1>4, <1>5, <1>6, <1>7, <1>8, Zenon

\* A complete slate stays what it is.
LEMMA KeepDeals ==
    ASSUME ChainsKept, session' = session
    PROVE  /\ pub'["mw"] = pub["mw"] /\ prv'["mw"] = prv["mw"] /\ MwDeal(pub["mw"], prv["mw"]) =>
                MwDeal(pub["mw"], prv["mw"])'
           /\ pub'["btc"] = pub["btc"] /\ prv'["btc"] = prv["btc"] /\ BtcDeal(pub["btc"], prv["btc"]) =>
                BtcDeal(pub["btc"], prv["btc"])'
           /\ UNCHANGED fileVars /\ Filing => Filing'
<1>1. pub'["mw"] = pub["mw"] /\ prv'["mw"] = prv["mw"] /\ MwDeal(pub["mw"], prv["mw"]) =>
        MwDeal(pub["mw"], prv["mw"])'
  BY Zenon DEF MwDeal, Locked, ChainsKept
<1>2. pub'["btc"] = pub["btc"] /\ prv'["btc"] = prv["btc"] /\ BtcDeal(pub["btc"], prv["btc"]) =>
        BtcDeal(pub["btc"], prv["btc"])'
  BY Zenon DEF BtcDeal, Locked, ChainsKept
<1>3. UNCHANGED fileVars /\ Filing => Filing'
  BY Zenon DEF Filing, Filed, MwDeal, BtcDeal, Locked, ChainsKept, fileVars
<1> QED
  BY <1>1, <1>2, <1>3, Zenon

\* The memory of a party that takes no step.
LEMMA KeepMwMemory ==
    ASSUME MwMemory, ChainsKept, session' = session, pubFile'["mw"] = pubFile["mw"],
           pc'["mw"] = pc["mw"], pub'["mw"] = pub["mw"], prv'["mw"] = prv["mw"],
           pc["mw"] \in MwTimed => LockedAt(pub["mw"].btc_lock_time)'
    PROVE  MwMemory'
<1>1. (Set("mw") => MwDeal(pub["mw"], prv["mw"]))'
  BY KeepDeals, Zenon DEF MwMemory, Set, Filed
<1>2. Locked => Locked'
  BY Zenon DEF Locked, ChainsKept
<1> QED
  BY <1>1, <1>2, Zenon DEF MwMemory

\* The same for Bob.
LEMMA KeepBtcMemory ==
    ASSUME BtcMemory, ChainsKept, session' = session, pubFile'["btc"] = pubFile["btc"],
           pc'["btc"] = pc["btc"], pub'["btc"] = pub["btc"], prv'["btc"] = prv["btc"]
    PROVE  BtcMemory'
<1>1. (Set("btc") => BtcDeal(pub["btc"], prv["btc"]))'
  BY KeepDeals, Zenon DEF BtcMemory, Set, Filed
<1>2. Locked => Locked' /\ btcOut'.lock_time = btcOut.lock_time
  BY Zenon DEF Locked, ChainsKept
<1> QED
  BY <1>1, <1>2, Zenon DEF BtcMemory

\* The files of a party that takes no step.
LEMMA KeepFiles ==
    ASSUME NEW p \in Party, FilesOf(p), UNCHANGED fileVars,
           pc'[p] = pc[p], pub'[p] = pub[p], prv'[p] = prv[p]
    PROVE  FilesOf(p)'
BY Zenon DEF FilesOf, Filed, fileVars

\* The files of a party that takes no step, when the peer writes its own.
LEMMA KeepFilesApart ==
    ASSUME NEW p \in Party, FilesOf(p), pubFile'[p] = pubFile[p], prvFile'[p] = prvFile[p],
           \A q \in Party : Filed(q) => Filed(q)',
           pc'[p] = pc[p], pub'[p] = pub[p], prv'[p] = prv[p]
    PROVE  FilesOf(p)'
BY Zenon DEF FilesOf, Filed

\* The lines, when nobody moves or changes a slate.
LEMMA KeepLineValues ==
    ASSUME LineValues, pc' = pc, session' = session, pub' = pub, pubFile' = pubFile,
           \A q \in Party : (HasLine(q)' <=> HasLine(q)) /\ (HasLine(q) => LineTo(q)' = LineTo(q)),
           \A q \in Party : (Filed(q)' <=> Filed(q)) /\ (Dated(q)' <=> Dated(q)),
           \A t : LockedAt(t)' <=> LockedAt(t)
    PROVE  LineValues'
<1>1. (/\ pc["btc"] = "btc_keys" /\ HasLine("btc") => LineTo("btc").val = session /\ session > 0
       /\ pc["mw"] = "mw_pub_b" /\ HasLine("mw") => LineTo("mw").val = session
       /\ pc["btc"] = "btc_mw_lock_time" /\ HasLine("btc") /\ Dated("mw") =>
             LineTo("btc").val = pub["mw"].mw_lock_time
       /\ pc["mw"] = "mw_ctr_final" /\ HasLine("mw") => LineTo("mw").val = session)'
  BY Zenon DEF LineValues
<1>2. (pc["mw"] = "mw_lock_time" /\ HasLine("mw") => LockedAt(LineTo("mw").val))'
  <2>1. pc["mw"] = "mw_lock_time" /\ HasLine("mw") => \A t : t = LineTo("mw").val => LockedAt(t)'
    BY Zenon DEF LineValues
  <2> QED
    BY <2>1, Zenon DEF LockedAt
<1>3. (/\ pc[Listener] = "checksum" /\ HasLine(Listener) => LineTo(Listener).slate = pubFile[Client]
       /\ pc[Listener] = "ok" => pubFile[Client] = pubFile[Listener]
       /\ pc[Listener] = "command" => pub[Listener].status = "SETUP" /\ Filed(Client)
       /\ pc[Client] \in AskSteps /\ HasLine(Client) /\ LineTo(Client).type = "OK" =>
             /\ pubFile[Client] = pubFile[Listener]
             /\ pc[Listener] = "next_client" => pub[Listener].status \notin {"INITIALIZED", "SETUP"})'
  BY Roles, Zenon DEF LineValues
<1> QED
  BY <1>1, <1>2, <1>3, Zenon DEF LineValues

-----------------------------------------------------------------------------
(* The places of the two processes.                                        *)

\* The sets of her steps.
LEMMA MwPlaces ==
    /\ LockSteps("mw") = MwLockSteps /\ ExecSteps("mw") = MwExecSteps
    /\ RefundSteps("mw") = {"mw_refund", "mw_refund_push"}
    /\ FirstLockStep("mw") = "mw_keys" /\ FirstExecStep("mw") = "mw_exec" /\ FirstRefundStep("mw") = "mw_refund"
    /\ "mw_keys" \in MwLockSteps /\ "mw_fund" \in MwLockSteps
    /\ \A l \in MwLockSteps : l = "mw_keys" \/ l \in MwKeyed
    /\ \A l \in MwKeyed : l \in MwLockSteps /\ l # "mw_keys"
    /\ \A l \in MwMet : l \in MwKeyed
    /\ \A l \in MwTimed : l \in MwMet
    /\ \A l \in MwVerified : l \in MwTimed
    /\ \A l \in MwDated : l \in MwVerified
    /\ \A l \in MwShared : l \in MwDated
    /\ \A l \in BtcDated : l \notin MwLockSteps /\ l # "err"
BY Zenon DEF LockSteps, ExecSteps, RefundSteps, FirstLockStep, FirstExecStep, FirstRefundStep, MwLockSteps, MwKeyed,
       MwMet, MwTimed, MwVerified, MwDated, MwShared, BtcLockSteps, BtcKeyed, BtcLocked, BtcNamed, BtcDated

\* The sets of his steps.
LEMMA BtcPlaces ==
    /\ LockSteps("btc") = BtcLockSteps /\ ExecSteps("btc") = BtcExecSteps
    /\ RefundSteps("btc") = {"btc_refund", "btc_refund_push"}
    /\ FirstLockStep("btc") = "btc_keys" /\ FirstExecStep("btc") = "btc_exec" /\ FirstRefundStep("btc") = "btc_refund"
    /\ "btc_keys" \in BtcLockSteps
    /\ \A l \in BtcLockSteps : l = "btc_keys" \/ l \in BtcKeyed
    /\ \A l \in BtcKeyed : l \in BtcLockSteps /\ l # "btc_keys"
    /\ \A l \in BtcLocked : l \in BtcKeyed
    /\ \A l \in BtcNamed : l \in BtcLocked
    /\ \A l \in BtcDated : l \in BtcNamed
    /\ \A l \in BtcShared : l \in BtcDated
    /\ \A l \in MwDated : l \notin BtcLockSteps /\ l # "err"
    /\ "btc_mw_lock_time" \in BtcLockSteps
BY Zenon DEF LockSteps, ExecSteps, RefundSteps, FirstLockStep, FirstExecStep, FirstRefundStep, MwLockSteps, MwKeyed,
       MwMet, MwTimed, MwVerified, MwDated, BtcLockSteps, BtcKeyed, BtcLocked, BtcNamed, BtcDated, BtcShared

\* Some of the lines that are due.
LEMMA SomeDue ==
    /\ Due["btc_keys"] = "pub_a" /\ Due["btc_mw_lock_time"] = "mw_lock_time"
    /\ Due["mw_pub_b"] = "pub_b" /\ Due["mw_lock_time"] = "lock_time" /\ Due["mw_ctr_final"] = "ctr_final"
BY Zenon DEF Due

\* Which lines are due at the steps of the locking phase, and which no longer.
LEMMA LockDue ==
    /\ Due["mw_height"] = "mw_lock_time" /\ Due["mw_fund"] = "locked"
    /\ \A l \in BtcLockSteps : Due[l] # "locked"
    /\ \A l \in BtcDated : Due[l] # "mw_lock_time"
<1>1. Due["mw_height"] = "mw_lock_time" /\ Due["mw_fund"] = "locked"
  BY Zenon DEF Due
<1>2. /\ Due["btc_keys"] = "pub_a" /\ Due["btc_pub_b"] = "pub_b" /\ Due["btc_height"] = "lock_time"
      /\ Due["btc_lock"] = "address" /\ Due["btc_address"] = "address"
      /\ Due["btc_mw_lock_time"] = "mw_lock_time"
  BY Zenon DEF Due
<1>3. /\ Due["btc_ptx"] = "ptx" /\ Due["btc_ptx2"] = "ptx2" /\ Due["btc_final"] = "final"
      /\ Due["btc_ref_ptx"] = "ref_ptx" /\ Due["btc_ref_ptx2"] = "ref_ptx2"
      /\ Due["btc_ref_final"] = "ref_final"
  BY Zenon DEF Due
<1>4. \A l \in BtcLockSteps : Due[l] # "locked"
  BY <1>2, <1>3, Zenon DEF BtcLockSteps
<1>5. \A l \in BtcDated :
        l \in {"btc_ptx", "btc_ptx2", "btc_final", "btc_ref_ptx", "btc_ref_ptx2", "btc_ref_final"}
  BY Zenon DEF BtcDated, BtcNamed, BtcLocked, BtcKeyed, BtcLockSteps
<1>6. \A l \in BtcDated : Due[l] # "mw_lock_time"
  BY <1>3, <1>5, Zenon
<1> QED
  BY <1>1, <1>4, <1>6, Zenon

\* Which lines Alice waits for, or sends, in her locking phase.
LEMMA MwDue ==
    /\ \A l \in MwLockSteps : Due[l] = "ref_final" => l = "mw_ref_final"
    /\ \A l \in MwTimed : Due[l] # "lock_time"
    /\ Due["btc_height"] = "lock_time"
<1>1. /\ Due["mw_keys"] = "pub_a" /\ Due["mw_pub_b"] = "pub_b" /\ Due["mw_lock_time"] = "lock_time"
      /\ Due["mw_import"] = "address" /\ Due["mw_address"] = "address"
      /\ Due["mw_verify"] = "mw_lock_time" /\ Due["mw_height"] = "mw_lock_time"
  BY Zenon DEF Due
<1>2. /\ Due["mw_spend"] = "ptx" /\ Due["mw_ptx2"] = "ptx2" /\ Due["mw_final"] = "final"
      /\ Due["mw_ref_ptx"] = "ref_ptx" /\ Due["mw_ref_ptx2"] = "ref_ptx2" /\ Due["mw_fund"] = "locked"
      /\ Due["btc_height"] = "lock_time"
  BY Zenon DEF Due
<1>3. \A l \in MwLockSteps : Due[l] = "ref_final" => l = "mw_ref_final"
  BY <1>1, <1>2, Zenon DEF MwLockSteps
<1>4. Due["mw_ref_final"] = "ref_final"
  BY Zenon DEF Due
<1>5. \A l \in MwTimed : Due[l] # "lock_time"
  BY <1>1, <1>2, <1>4, Zenon DEF MwLockSteps, MwKeyed, MwMet, MwTimed
<1> QED
  BY <1>2, <1>3, <1>5, Zenon

\* In the locking phase, with no line under way, both processes are due the same line.
LEMMA LinesMeet ==
    ASSUME Conversation, link, ~HasLine("mw"), ~HasLine("btc"),
           pc["mw"] \in MwLockSteps, pc["btc"] \in BtcLockSteps
    PROVE  Due[pc["btc"]] = Due[pc["mw"]]
<1>1. pc["mw"] \in TalkSteps("mw") /\ pc["btc"] \in TalkSteps("btc")
  BY Zenon DEF TalkSteps, LockSteps
<1>2. Position("mw") = Position("btc")
  BY <1>1, Zenon DEF Conversation, InStep
<1> QED
  BY <1>2, Zenon DEF Position

\* Where she is within her locking phase.
LEMMA MwOrder ==
    /\ \A l \in {"mw_pub_b", "mw_lock_time", "mw_import", "mw_address", "mw_verify"} : l \notin MwDated
    /\ "mw_pub_b" \in MwKeyed \ MwMet /\ "mw_lock_time" \in MwMet \ MwTimed
    /\ \A l \in {"mw_import", "mw_address", "mw_verify"} : l \in MwTimed \ MwVerified
    /\ "mw_height" \in MwVerified \ MwDated
    /\ \A l \in {"mw_spend", "mw_ptx2", "mw_final"} : l \in MwDated \ MwShared
    /\ \A l \in MwShared : l \in {"mw_ref_ptx", "mw_ref_ptx2", "mw_ref_final", "mw_fund"}
    /\ \A l \in {"mw_ref_ptx", "mw_ref_ptx2", "mw_ref_final", "mw_fund"} : l \in MwShared
    /\ "err" \notin MwLockSteps
BY Zenon DEF MwLockSteps, MwKeyed, MwMet, MwTimed, MwVerified, MwDated, MwShared

\* Where he is within his locking phase.
LEMMA BtcOrder ==
    /\ \A l \in {"btc_pub_b", "btc_height", "btc_lock"} : l \in BtcKeyed \ BtcLocked
    /\ "btc_address" \in BtcLocked \ BtcNamed /\ "btc_mw_lock_time" \in BtcNamed \ BtcDated
    /\ \A l \in {"btc_ptx", "btc_ptx2", "btc_final"} : l \in BtcDated \ BtcShared
    /\ \A l \in {"btc_ref_ptx", "btc_ref_ptx2", "btc_ref_final"} : l \in BtcShared
    /\ \A l \in BtcShared : l \in {"btc_ref_ptx", "btc_ref_ptx2", "btc_ref_final"}
    /\ \A l \in {"btc_pub_b", "btc_height", "btc_lock", "btc_address", "btc_mw_lock_time"} : l \notin BtcDated
    /\ \A l \in BtcKeyed : l \notin MwDated
BY Zenon DEF BtcLockSteps, BtcKeyed, BtcLocked, BtcNamed, BtcDated, BtcShared, MwLockSteps, MwKeyed, MwMet, MwTimed,
       MwVerified, MwDated

\* Places of no phase.
LEMMA OtherPlaces ==
    ASSUME NEW l \in {"idle", "accept", "write_prv", "write_pub", "err", "lock", "execute", "cancel",
                      "send_execute", "send_cancel", "checksum", "ok", "fault", "command", "next_client"}
    PROVE  /\ l \notin MwLockSteps /\ l \notin BtcLockSteps
           /\ l \notin MwExecSteps /\ l \notin BtcExecSteps
           /\ l \notin MwDated /\ l \notin BtcDated
           /\ \A p \in Party : l \notin LockSteps(p) /\ l \notin ExecSteps(p) /\ l \notin RefundSteps(p)
                                 /\ l # FirstLockStep(p)
BY MwPlaces, BtcPlaces, PhasesApart, Zenon

\* The places of the handshake, and the first steps.
LEMMA HandshakePlaces ==
    ASSUME NEW p \in Party
    PROVE  /\ \A l \in HandshakeSteps(p) \cup {"idle", "err"} :
                /\ l \notin LockSteps(p) /\ l \notin ExecSteps(p) /\ l \notin RefundSteps(p)
                /\ l \notin {"write_prv", "write_pub"}
                /\ l \notin MwDated /\ l \notin BtcDated
           /\ "idle" \notin HandshakeSteps(p) /\ "err" \notin HandshakeSteps(p)
           /\ \A l \in {FirstLockStep(p), FirstExecStep(p), FirstRefundStep(p)} :
                /\ l \notin MwDated /\ l \notin BtcDated
                /\ l \notin {"write_prv", "write_pub"}
                /\ l \notin HandshakeSteps(p) /\ l \notin SendCommandSteps \cup {"command", "idle", "err"}
<1>1. \A l \in HandshakeSteps(p) \cup {"idle", "err"} :
        l \in {"idle", "accept", "err", "lock", "execute", "cancel",
                      "send_execute", "send_cancel", "checksum", "ok", "fault", "command", "next_client"}
  BY Zenon DEF HandshakeSteps, AnswerSteps, AskSteps, SendCommandSteps
<1>2. \A l \in HandshakeSteps(p) \cup {"idle", "err"} :
        /\ l \notin LockSteps(p) /\ l \notin ExecSteps(p) /\ l \notin RefundSteps(p)
        /\ l \notin {"write_prv", "write_pub"}
        /\ l \notin MwDated /\ l \notin BtcDated
  BY <1>1, OtherPlaces, SMTT(30)
<1>3. "idle" \notin HandshakeSteps(p) /\ "err" \notin HandshakeSteps(p)
  BY Zenon DEF HandshakeSteps, AnswerSteps, AskSteps, SendCommandSteps
<1>4. \A l \in {FirstLockStep(p), FirstExecStep(p), FirstRefundStep(p)} :
        /\ l \notin MwDated /\ l \notin BtcDated
  BY Zenon DEF FirstLockStep, FirstExecStep, FirstRefundStep, MwDated, MwVerified, MwTimed, MwMet, MwKeyed,
         MwLockSteps, BtcDated, BtcNamed, BtcLocked, BtcKeyed, BtcLockSteps
<1>5. \A l \in {FirstLockStep(p), FirstExecStep(p), FirstRefundStep(p)} :
        /\ l \notin {"write_prv", "write_pub"}
        /\ l \notin HandshakeSteps(p) /\ l \notin SendCommandSteps \cup {"command", "idle", "err"}
  BY Zenon DEF FirstLockStep, FirstExecStep, FirstRefundStep, HandshakeSteps, AnswerSteps, AskSteps, SendCommandSteps
<1> QED
  BY <1>2, <1>3, <1>4, <1>5, Zenon

\* Places of the handshake by name.
LEMMA HandshakeNames ==
    /\ \A l \in AnswerSteps \cup {"accept", "command", "next_client"} : l \in HandshakeSteps(Listener)
    /\ \A l \in AskSteps \cup SendCommandSteps : l \in HandshakeSteps(Client)
    /\ {"checksum", "ok", "fault"} = AnswerSteps /\ {"lock", "execute", "cancel"} = AskSteps
    /\ {"send_execute", "send_cancel"} = SendCommandSteps
    /\ FirstLockStep(Listener) # "mw_ref_final"
    /\ \A p \in Party : /\ FirstLockStep(p) # FirstExecStep(p) /\ FirstLockStep(p) # FirstRefundStep(p)
                        /\ FirstRefundStep(p) \notin TalkSteps(p)
                        /\ \A l \in HandshakeSteps(p) \cup {"idle"} : l \notin TalkSteps(p)
                                     /\ l # "btc_contract" /\ l # "mw_ref_final"
<1>1. /\ \A l \in AnswerSteps \cup {"accept", "command", "next_client"} : l \in HandshakeSteps(Listener)
      /\ \A l \in AskSteps \cup SendCommandSteps : l \in HandshakeSteps(Client)
  BY Roles, Zenon DEF HandshakeSteps
<1>2. /\ {"checksum", "ok", "fault"} = AnswerSteps /\ {"lock", "execute", "cancel"} = AskSteps
      /\ {"send_execute", "send_cancel"} = SendCommandSteps
  BY Zenon DEF AnswerSteps, AskSteps, SendCommandSteps
<1>3. \A p \in Party : /\ FirstLockStep(p) # FirstExecStep(p) /\ FirstLockStep(p) # FirstRefundStep(p)
                       /\ FirstRefundStep(p) \notin TalkSteps(p)
                       /\ \A l \in HandshakeSteps(p) \cup {"idle"} : l \notin TalkSteps(p)
  BY PhasesApart, HandshakePlaces, ZenonT(30)
<1>4. FirstLockStep(Listener) # "mw_ref_final"
  BY Zenon DEF FirstLockStep
<1>5. \A p \in Party : \A l \in HandshakeSteps(p) \cup {"idle"} : l # "btc_contract" /\ l # "mw_ref_final"
  BY Zenon DEF HandshakeSteps, AnswerSteps, AskSteps, SendCommandSteps
<1> QED
  BY <1>1, <1>2, <1>3, <1>4, <1>5, Zenon

-----------------------------------------------------------------------------
(* The locking phase of Alice.                                             *)

\* A step of her locking phase that writes no file and touches no ledger concerns
\* her own memory and her lines only.
LEMMA MwLockFrame ==
    ASSUME TypeOK, Conversation, Deal, NEW m \in MwKeyed \cup {"err"}, Goto("mw", m),
           pc["mw"] \in MwLockSteps, pc["mw"] # "mw_fund", ~ack["mw"],
           Quiet,
           pub'["btc"] = pub["btc"], prv'["btc"] = prv["btc"],
           pub'["mw"].status # "EXECUTING",
           pc["mw"] = "mw_ref_final" => m = "mw_fund",
           m \in MwDated /\ pc["mw"] \in MwDated => pub'["mw"].mw_lock_time = pub["mw"].mw_lock_time,
           m \in MwDated /\ pc["mw"] \notin MwDated => ~Dated("btc"),
           m \in {"mw_pub_b", "mw_lock_time"} => ~HasLine("mw")',
           HasLine("btc")' =>
               \/ /\ HasLine("btc") /\ LineTo("btc")' = LineTo("btc")
                  /\ m \in MwDated => pc["mw"] \in MwDated
               \/ LineTo("btc")'.type = "pub_a" /\ LineTo("btc")'.val = session /\ session > 0
               \/ LineTo("btc")'.type = "mw_lock_time" /\ LineTo("btc")'.val = pub'["mw"].mw_lock_time
               \/ LineTo("btc")'.type \notin {"pub_a", "mw_lock_time"},
           Conversation', MwMemory'
    PROVE  Deal'
<1>1. /\ pc'["mw"] = m /\ pc'["btc"] = pc["btc"] /\ m \notin {"write_prv", "write_pub", "idle"}
      /\ m \in MwLockSteps \/ m = "err"
  BY MwPlaces, PhasesApart, Zenon DEF Goto, TypeOK, Quiet
<1>2. pc["btc"] \in BtcLockSteps \cup {"err", "write_prv"} \cup OutSteps
  BY PhasePeer, BtcPlaces, MwPlaces, Zenon DEF Quiet
<1>3. ChainsKept
  BY KeepChains, Zenon DEF Quiet
<1>4. ~Filed("mw") /\ ~Set("mw") /\ ~Set("mw")' /\ (Set("btc")' <=> Set("btc")) /\ (Filed("btc")' <=> Filed("btc"))
      /\ ~Filed("mw")'
  BY <1>1, MwPlaces, PhasesApart, Zenon DEF Deal, FilesOf, Set, Filed, fileVars, Quiet
<1>5. BtcMemory'
  BY <1>1, <1>3, KeepBtcMemory, Zenon DEF Deal, fileVars, Quiet
<1>6. Filing'
  BY <1>3, KeepDeals, Zenon DEF Deal, Quiet
<1>7. FilesOf("btc")'
  BY <1>1, KeepFiles, Zenon DEF Deal, Quiet
<1>8. FilesOf("mw")'
  <2>1. m \notin HandshakeSteps("mw") \cup {"idle", "mw_keys"} \cup ExecSteps("mw") \cup RefundSteps("mw")
                  \cup SendCommandSteps \cup {"command"}
    BY MwPlaces, PhasesApart, Zenon DEF HandshakeSteps, AnswerSteps, AskSteps, SendCommandSteps
  <2> QED
    BY <1>1, <1>4, <2>1, MwPlaces, ZenonT(30) DEF FilesOf, Deal, fileVars, Quiet
<1>9. Settling'
  <2>1. (pc["btc"] \in BtcLockSteps => ~Set("mw"))'
    BY <1>4, Zenon
  <2>2. (pc["mw"] \in MwLockSteps /\ Set("btc") =>
           pc["mw"] = "mw_fund" \/ (pc["mw"] = "mw_ref_final" /\ HasLine("mw")))'
    BY <1>1, <1>4, Zenon DEF Deal, Settling
  <2>3. /\ Dated("btc")' <=> Dated("btc")
        /\ Dated("mw")' => m \in MwDated
    BY <1>1, <1>4, MwPlaces, Zenon DEF Dated
  <2>4. (Dated("mw") /\ Dated("btc") => pub["mw"].mw_lock_time = pub["btc"].mw_lock_time)'
    BY <2>3, Zenon DEF Deal, Settling, Dated
  <2> QED
    BY <2>1, <2>2, <2>4, Zenon DEF Settling
<1>10. Session'
  <2>1. pc["btc"] \notin AskSteps /\ m \notin AskSteps /\ m # "mw_keys"
    BY <1>2, BtcPlaces, MwPlaces, PhasesApart, Roles, ZenonT(30) DEF OutSteps, AskSteps
  <2> QED
    BY <1>1, <2>1, MwPlaces, Roles, Zenon DEF Deal, Session, Locked, Quiet
<1>11. Outcome'
  <2>1. pc["btc"] # "btc_contract" /\ m \notin MwExecSteps /\ m # "mw_refund_push"
    BY <1>1, <1>2, MwPlaces, PhasesApart, Zenon DEF OutSteps, BtcLockSteps
  <2> QED
    BY <1>1, <2>1, Roles, Zenon DEF Deal, Outcome, Filed, can_refund, fileVars, Quiet
<1>12. LineValues'
  <2>1. (pc["btc"] = "btc_keys" /\ HasLine("btc") => LineTo("btc").val = session /\ session > 0)'
    <3>1. pc["btc"] = "btc_keys" /\ HasLine("btc")' => LineTo("btc")'.type = "pub_a"
      BY <1>1, BtcPlaces, SomeDue, MwPlaces, PhasesApart, Roles, SMTT(30) DEF Conversation, InStep, Quiet
    <3> QED
      BY <1>1, <3>1, Zenon DEF Deal, LineValues, Quiet
  <2>2. (pc["btc"] = "btc_mw_lock_time" /\ HasLine("btc") /\ Dated("mw") =>
           LineTo("btc").val = pub["mw"].mw_lock_time)'
    <3>1. pc["btc"] = "btc_mw_lock_time" /\ HasLine("btc")' => LineTo("btc")'.type = "mw_lock_time"
      BY <1>1, BtcPlaces, SomeDue, MwPlaces, PhasesApart, Roles, SMTT(30) DEF Conversation, InStep, Quiet
    <3>2. Dated("mw")' => m \in MwDated
      BY <1>1, <1>4, MwPlaces, Zenon DEF Dated
    <3> QED
      BY <1>1, <3>1, <3>2, ZenonT(30) DEF Deal, LineValues, Dated
  <2>3. /\ m \notin AskSteps \cup {"checksum", "ok", "command", "next_client", "mw_ctr_final"}
        /\ pc["btc"] \notin AskSteps \cup {"checksum", "ok", "command", "next_client"}
    BY <1>1, <1>2, BtcPlaces, PhasesApart, ZenonT(30) DEF AskSteps, OutSteps, MwLockSteps
  <2> QED
    BY <1>1, <2>1, <2>2, <2>3, Roles, Zenon DEF LineValues
<1> QED
  BY <1>5, <1>6, <1>7, <1>8, <1>9, <1>10, <1>11, <1>12, Zenon DEF Deal

\* What her slate says once she has made a step of the locking phase.
LEMMA MwLockMemory ==
    ASSUME TypeOK, Deal, NEW m \in MwKeyed \cup {"err"}, Goto("mw", m), Quiet,
           pc["mw"] \in MwLockSteps, pub'["btc"] = pub["btc"],
           m \in MwKeyed => /\ pub'["mw"].status = "SETUP" /\ session > 0
                            /\ pub'["mw"].pub_a = session /\ prv'["mw"].sk = session,
           m \in MwMet => pub'["mw"].pub_b = session /\ pub'["mw"].pub_x = session,
           m \in MwTimed => LockedAt(pub'["mw"].btc_lock_time),
           m \in MwVerified => Locked /\ prv'["mw"].lock = session,
           m \in MwShared => prv'["mw"].shared_coin = session,
           m = "mw_fund" => /\ prv'["mw"].refund_tx = session
                            /\ prv'["mw"].refund_height = pub'["mw"].mw_lock_time
                            /\ "refund_coin" \in prv'["mw"].coins
    PROVE  MwMemory'
<1>1. pc'["mw"] = m /\ pc'["btc"] = pc["btc"] /\ m \notin {"write_prv", "write_pub"}
  BY MwPlaces, PhasesApart, Zenon DEF Goto, TypeOK
<1>2. ~Set("mw")'
  BY <1>1, MwPlaces, ZenonT(30) DEF Deal, FilesOf, Set, Filed, fileVars, Quiet
<1>3. m \in MwTimed => LockedAt(pub["mw"].btc_lock_time)'
  BY <1>1, ZenonT(30) DEF LockedAt, Quiet
<1>4. m \in MwVerified => Locked'
  BY Zenon DEF Locked, Quiet
<1> QED
  BY <1>1, <1>2, <1>3, <1>4, MwOrder, Zenon DEF MwMemory, Quiet

\* Alice makes her keys and sends the public one.
LEMMA MwSendPubADeal ==
    ASSUME TypeOK, Conversation, Deal, mw_send_pub_a
    PROVE  Deal'
<1>1. /\ Goto("mw", "mw_pub_b") /\ pc["mw"] = "mw_keys" /\ ~ack["mw"] /\ Quiet
      /\ pub'["btc"] = pub["btc"] /\ prv'["btc"] = prv["btc"]
      /\ pub'["mw"].status = "SETUP" /\ pub'["mw"].pub_a = session /\ prv'["mw"].sk = session
  BY SMTT(30) DEF mw_send_pub_a, At, TypeOK, Quiet, chainVars, auxVars
<1>2. /\ Conversation' /\ ~HasLine("mw")' /\ ~HasLine("mw")
      /\ HasLine("btc")' /\ LineTo("btc")' = Line("pub_a", session) /\ link
  BY <1>1, MwRows, Amounts, SendTalk, Zenon DEF mw_send_pub_a
<1>3. session > 0
  BY <1>1, MwPlaces, Zenon DEF Deal, Session
<1>4. MwMemory'
  BY <1>1, <1>3, MwPlaces, MwOrder, MwLockMemory, Zenon
<1>5. LineTo("btc")'.type = "pub_a" /\ LineTo("btc")'.val = session
  BY <1>2, SMTT(30) DEF Line
<1> QED
  BY <1>1, <1>2, <1>3, <1>4, <1>5, MwPlaces, MwOrder, MwLockFrame, Zenon

\* Alice receives Bob's keys, then the lock time he picked.
LEMMA MwReceiveKeysDeal ==
    ASSUME TypeOK, Conversation, Deal, mw_receive_pub_b \/ mw_receive_lock_time
    PROVE  Deal'
<1>1. CASE mw_receive_pub_b
  <2>1. /\ Goto("mw", "mw_lock_time") /\ pc["mw"] = "mw_pub_b" /\ ~ack["mw"] /\ Quiet
        /\ pub'["btc"] = pub["btc"] /\ prv' = prv
        /\ pub'["mw"].status = pub["mw"].status /\ pub'["mw"].pub_a = pub["mw"].pub_a
        /\ pub'["mw"].pub_b = Msg("mw") /\ pub'["mw"].pub_x = Msg("mw")
    BY <1>1, SMTT(30) DEF mw_receive_pub_b, At, TypeOK, Quiet, chainVars, auxVars
  <2>2. /\ Conversation' /\ ~HasLine("mw")' /\ HasLine("mw") /\ Msg("mw") = LineTo("mw").val
        /\ HasLine("btc")' => HasLine("btc") /\ LineTo("btc")' = LineTo("btc")
    BY <1>1, <2>1, MwRows, ReceiveTalk, Zenon DEF mw_receive_pub_b
  <2>3. Msg("mw") = session
    BY <2>1, <2>2, ZenonT(30) DEF Deal, LineValues
  <2>4. MwMemory' /\ pub["mw"].status = "SETUP"
    <3>1. pub["mw"].status = "SETUP" /\ session > 0 /\ pub["mw"].pub_a = session /\ prv["mw"].sk = session
      BY <2>1, MwOrder, Zenon DEF Deal, MwMemory
    <3>2. /\ "mw_lock_time" \in MwKeyed /\ "mw_lock_time" \notin MwTimed
          /\ "mw_lock_time" \notin MwVerified /\ "mw_lock_time" \notin MwShared
          /\ pc["mw"] \in MwLockSteps
      BY <2>1, MwPlaces, MwOrder, ZenonT(30)
    <3> QED
      BY <2>1, <2>3, <3>1, <3>2, MwLockMemory, ZenonT(30)
  <2> QED
    BY <2>1, <2>2, <2>4, MwPlaces, MwOrder, MwLockFrame, ZenonT(30)
<1>2. CASE mw_receive_lock_time
  <2>1. /\ Goto("mw", "mw_import") /\ pc["mw"] = "mw_lock_time" /\ ~ack["mw"] /\ Quiet
        /\ pub'["btc"] = pub["btc"] /\ prv' = prv
        /\ pub'["mw"].status = pub["mw"].status /\ pub'["mw"].pub_a = pub["mw"].pub_a
        /\ pub'["mw"].pub_b = pub["mw"].pub_b /\ pub'["mw"].pub_x = pub["mw"].pub_x
        /\ pub'["mw"].btc_lock_time = Msg("mw")
    BY <1>2, SMTT(30) DEF mw_receive_lock_time, At, TypeOK, Quiet, chainVars, auxVars
  <2>2. /\ Conversation' /\ ~HasLine("mw")' /\ HasLine("mw") /\ Msg("mw") = LineTo("mw").val
        /\ HasLine("btc")' => HasLine("btc") /\ LineTo("btc")' = LineTo("btc")
    BY <1>2, <2>1, MwRows, ReceiveTalk, Zenon DEF mw_receive_lock_time
  <2>3. LockedAt(Msg("mw"))
    BY <2>1, <2>2, ZenonT(30) DEF Deal, LineValues
  <2>4. MwMemory' /\ pub["mw"].status = "SETUP"
    <3>1. /\ pub["mw"].status = "SETUP" /\ session > 0 /\ pub["mw"].pub_a = session /\ prv["mw"].sk = session
          /\ pub["mw"].pub_b = session /\ pub["mw"].pub_x = session
      BY <2>1, MwPlaces, MwOrder, Zenon DEF Deal, MwMemory
    <3>2. /\ "mw_import" \in MwKeyed
          /\ "mw_import" \notin MwVerified /\ "mw_import" \notin MwShared
          /\ pc["mw"] \in MwLockSteps
      BY <2>1, MwPlaces, MwOrder, ZenonT(30)
    <3>3. LockedAt(pub'["mw"].btc_lock_time)
      BY <2>1, <2>3, Zenon
    <3> QED
      BY <2>1, <3>1, <3>2, <3>3, MwLockMemory, ZenonT(30)
  <2> QED
    BY <2>1, <2>2, <2>4, MwPlaces, MwOrder, MwLockFrame, SMTT(30)
<1> QED
  BY <1>1, <1>2, Zenon

\* Alice imports the address, compares it with Bob's and looks for the locked funds.
LEMMA MwVerifyDeal ==
    ASSUME TypeOK, Conversation, Deal,
           \/ mw_import_address \/ mw_receive_address
           \/ mw_balance_found \/ mw_not_verified
    PROVE  Deal'
<1>1. CASE mw_import_address
  <2>1. /\ Goto("mw", "mw_address") /\ pc["mw"] = "mw_import" /\ ~ack["mw"] /\ Quiet
        /\ pub' = pub /\ prv' = prv /\ UNCHANGED commVars
    BY <1>1, Zenon DEF mw_import_address, import_btc_address, At, Quiet, slateVars
  <2>2. Conversation'
    BY <2>1, MwRows, LocalTalk, Zenon
  <2>3. HasLine("btc")' => HasLine("btc") /\ LineTo("btc")' = LineTo("btc")
    BY <2>1, SameQueue, Zenon DEF commVars
  <2>4. MwMemory' /\ pub["mw"].status = "SETUP"
    BY <2>1, MwPlaces, MwOrder, MwLockMemory, ZenonT(30) DEF Deal, MwMemory
  <2> QED
    BY <2>1, <2>2, <2>3, <2>4, MwPlaces, MwOrder, MwLockFrame, Zenon
<1>2. CASE mw_receive_address
  <2> DEFINE m == IF Msg("mw") = pub["mw"].pub_a THEN "mw_verify" ELSE "err"
  <2>1. /\ Goto("mw", m) /\ pc["mw"] = "mw_address" /\ ~ack["mw"] /\ Quiet
        /\ pub'["btc"] = pub["btc"] /\ prv' = prv
        /\ m = "mw_verify" => pub' = pub
        /\ m = "err" => pub'["mw"].status = "FAILED"
    <3>1. CASE Msg("mw") = pub["mw"].pub_a
      BY <1>2, <3>1, Zenon DEF mw_receive_address, At, Quiet, chainVars, auxVars
    <3>2. CASE Msg("mw") # pub["mw"].pub_a
      <4>1. /\ Goto("mw", "err") /\ m = "err" /\ pc["mw"] = "mw_address" /\ ~ack["mw"] /\ prv' = prv
            /\ pub' = [pub EXCEPT !["mw"] = [@ EXCEPT !.status = "FAILED"]]
        BY <1>2, <3>2, Zenon DEF mw_receive_address, At
      <4>2. pub'["btc"] = pub["btc"] /\ pub'["mw"].status = "FAILED"
        BY <4>1, SMTT(30) DEF TypeOK
      <4>3. Quiet
        BY <1>2, Zenon DEF mw_receive_address, Quiet, chainVars, auxVars
      <4> QED
        BY <4>1, <4>2, <4>3, Zenon
    <3> QED
      BY <3>1, <3>2, Zenon
  <2>2. m \in {"mw_verify", "err"}
    OBVIOUS
  <2> HIDE DEF m
  <2>3. /\ Conversation' /\ ~HasLine("mw")'
        /\ HasLine("btc")' => HasLine("btc") /\ LineTo("btc")' = LineTo("btc")
    BY <1>2, <2>1, MwRows, ReceiveTalk, Zenon DEF mw_receive_address
  <2>4. MwMemory' /\ pub["mw"].status = "SETUP"
    <3>1. /\ pub["mw"].status = "SETUP" /\ session > 0 /\ pub["mw"].pub_a = session /\ prv["mw"].sk = session
          /\ pub["mw"].pub_b = session /\ pub["mw"].pub_x = session /\ LockedAt(pub["mw"].btc_lock_time)
      BY <2>1, MwPlaces, MwOrder, ZenonT(30) DEF Deal, MwMemory
    <3>2. pc["mw"] \in MwLockSteps
      BY <2>1, MwPlaces, MwOrder, Zenon
    <3>3. CASE m = "err"
      <4>1. "err" \notin MwKeyed /\ "err" \notin MwMet /\ "err" \notin MwTimed /\ "err" \notin MwVerified
            /\ "err" \notin MwShared
        BY MwPlaces, MwOrder, Zenon
      <4> QED
        BY <2>1, <3>1, <3>2, <3>3, <4>1, MwLockMemory, Zenon
    <3>4. CASE m = "mw_verify"
      <4>1. "mw_verify" \in MwKeyed /\ "mw_verify" \notin MwVerified /\ "mw_verify" \notin MwShared
        BY MwPlaces, MwOrder, Zenon
      <4> QED
        BY <2>1, <3>1, <3>2, <3>4, <4>1, MwLockMemory, Zenon
    <3> QED
      BY <2>2, <3>1, <3>3, <3>4, Zenon
  <2>5. pub'["mw"].status # "EXECUTING"
    BY <2>1, <2>2, <2>4, Zenon
  <2> QED
    BY <2>1, <2>2, <2>3, <2>4, <2>5, MwPlaces, MwOrder, MwLockFrame, ZenonT(30)
<1>3. CASE mw_balance_found
  <2>1. /\ Goto("mw", "mw_height") /\ pc["mw"] = "mw_verify" /\ ~ack["mw"] /\ Quiet
        /\ pub' = pub /\ prv'["btc"] = prv["btc"] /\ UNCHANGED commVars
        /\ prv'["mw"].sk = prv["mw"].sk /\ prv'["mw"].lock = pub["mw"].pub_a
    BY <1>3, SMTT(30) DEF mw_balance_found, At, Quiet, chainVars, auxVars, TypeOK
  <2>2. Conversation'
    BY <2>1, MwRows, LocalTalk, Zenon
  <2>3. HasLine("btc")' => HasLine("btc") /\ LineTo("btc")' = LineTo("btc")
    BY <2>1, SameQueue, Zenon DEF commVars
  <2>4. Locked
    BY <1>3, <2>1, MwPlaces, MwOrder, SMTT(30) DEF mw_balance_found, BalanceVisible, BtcUnspent, Locked, Deal, MwMemory
  <2>5. MwMemory' /\ pub["mw"].status = "SETUP"
    BY <2>1, <2>4, MwPlaces, MwOrder, MwLockMemory, ZenonT(30) DEF Deal, MwMemory
  <2> QED
    BY <2>1, <2>2, <2>3, <2>5, MwPlaces, MwOrder, MwLockFrame, Zenon
<1>4. CASE mw_not_verified
  <2>1. /\ Goto("mw", "err") /\ pc["mw"] = "mw_verify" /\ ~ack["mw"] /\ Quiet
        /\ pub'["btc"] = pub["btc"] /\ prv' = prv /\ UNCHANGED commVars
        /\ pub'["mw"].status = "FAILED"
    BY <1>4, SMTT(30) DEF mw_not_verified, At, Quiet, chainVars, auxVars, TypeOK
  <2>2. Conversation'
    BY <2>1, MwRows, LocalTalk, Zenon
  <2>3. HasLine("btc")' => HasLine("btc") /\ LineTo("btc")' = LineTo("btc")
    BY <2>1, SameQueue, Zenon DEF commVars
  <2>4. MwMemory'
    BY <2>1, MwPlaces, MwOrder, MwLockMemory, Zenon
  <2> QED
    BY <2>1, <2>2, <2>3, <2>4, MwPlaces, MwOrder, MwLockFrame, Zenon
<1> QED
  BY <1>1, <1>2, <1>3, <1>4, Zenon

\* Nothing of the deal changes.
LEMMA SameDeal ==
    ASSUME TypeOK, Deal, UNCHANGED <<pc, commVars, slateVars>>, Quiet
    PROVE  Deal'
<1>1. ChainsKept
  BY KeepChains, Zenon DEF Quiet
<1>2. /\ \A p \in Party : (HasLine(p)' <=> HasLine(p)) /\ LineTo(p)' = LineTo(p) /\ (HasAck(p)' <=> HasAck(p))
      /\ \A p \in Party : (Filed(p)' <=> Filed(p)) /\ (Set(p)' <=> Set(p)) /\ (Dated(p)' <=> Dated(p))
      /\ Locked' <=> Locked
      /\ \A t : LockedAt(t)' <=> LockedAt(t)
  BY Zenon DEF HasLine, LineTo, HasAck, Filed, Set, Dated, Locked, LockedAt, Quiet, slateVars, commVars, fileVars
<1>3. MwMemory' /\ BtcMemory' /\ Filing'
  <2>1. pc["mw"] \in MwTimed => LockedAt(pub["mw"].btc_lock_time)'
    BY Zenon DEF Deal, MwMemory, LockedAt, Quiet, slateVars, fileVars
  <2>2. MwMemory'
    BY <1>1, <2>1, KeepMwMemory, Zenon DEF Deal, Quiet, slateVars, fileVars
  <2>3. BtcMemory'
    BY <1>1, KeepBtcMemory, Zenon DEF Deal, Quiet, slateVars, fileVars
  <2>4. Filing'
    BY <1>1, KeepDeals, Zenon DEF Deal, Quiet, slateVars
  <2> QED
    BY <2>2, <2>3, <2>4, Zenon
<1>4. \A p \in Party : FilesOf(p)'
  BY KeepFiles, Zenon DEF Deal, Quiet, slateVars
<1>5. Settling' /\ Session'
  BY <1>2, Roles, Zenon DEF Deal, Settling, Session, Quiet, slateVars
<1>6. LineValues'
  <2>1. pc' = pc /\ session' = session /\ pub' = pub /\ pubFile' = pubFile
    BY Zenon DEF Quiet, slateVars, fileVars
  <2>2. LineValues
    BY Zenon DEF Deal
  <2> QED
    BY <1>2, <2>1, <2>2, KeepLineValues, Zenon
<1>7. Outcome'
  BY <1>2, Zenon DEF Deal, Outcome, can_refund, Quiet, slateVars, commVars, fileVars
<1> QED
  BY <1>3, <1>4, <1>5, <1>6, <1>7, Zenon DEF Deal

\* Alice looks again.
LEMMA MwLookAgainDeal ==
    ASSUME TypeOK, Conversation, Deal, mw_balance_differs \/ mw_balance_zero
    PROVE  Deal'
BY SameDeal, Zenon DEF mw_balance_differs, mw_balance_zero, Quiet, chainVars

\* Alice picks her lock height and sends it: Bob has none yet.
LEMMA MwSendLockHeightDeal ==
    ASSUME TypeOK, Conversation, Deal, mw_send_lock_height
    PROVE  Deal'
<1> DEFINE h == LockHeight("mw")
<1>1. /\ Goto("mw", "mw_spend") /\ pc["mw"] = "mw_height" /\ ~ack["mw"] /\ Quiet
      /\ pub'["btc"] = pub["btc"] /\ prv' = prv
      /\ pub'["mw"].status = pub["mw"].status /\ pub'["mw"].pub_a = pub["mw"].pub_a
      /\ pub'["mw"].pub_b = pub["mw"].pub_b /\ pub'["mw"].pub_x = pub["mw"].pub_x
      /\ pub'["mw"].btc_lock_time = pub["mw"].btc_lock_time /\ pub'["mw"].mw_lock_time = h
  BY ZenonT(30) DEF mw_send_lock_height, At, TypeOK, PubSlate, Quiet, chainVars, auxVars
<1>2. h \in Nat
  BY Amounts, Zenon
<1> HIDE DEF h
<1>3. /\ Conversation' /\ ~HasLine("mw")' /\ ~HasLine("mw") /\ ~HasLine("btc") /\ link
      /\ HasLine("btc")' /\ LineTo("btc")' = Line("mw_lock_time", h)
  BY <1>1, <1>2, MwRows, SendTalk, Zenon DEF mw_send_lock_height, h
<1>4. ~Dated("btc")
  <2>1. ~Set("btc")
    BY <1>1, MwPlaces, MwOrder, SMTT(30) DEF Deal, Settling
  <2>2. pc["btc"] \in BtcLockSteps => pc["btc"] \notin BtcDated
    <3>1. ASSUME pc["btc"] \in BtcLockSteps
          PROVE  Due[pc["btc"]] = Due["mw_height"]
      <4>1. pc["mw"] \in MwLockSteps
        BY <1>1, MwPlaces, MwOrder, ZenonT(30)
      <4> QED
        BY <1>1, <1>3, <3>1, <4>1, LinesMeet, ZenonT(30)
    <3>2. \A l \in BtcDated : Due[l] # Due["mw_height"]
      BY LockDue, Zenon
    <3> QED
      BY <3>1, <3>2, Zenon
  <2>3. pc["btc"] \in BtcLockSteps \cup {"err", "write_prv"} \cup OutSteps
    BY <1>1, PhasePeer, MwPlaces, MwOrder, BtcPlaces, SMTT(30)
  <2>4. pc["btc"] \notin MwDated
    BY <2>3, BtcPlaces, MwPlaces, PhasesApart, ZenonT(30) DEF OutSteps
  <2> QED
    BY <2>1, <2>2, <2>4, BtcPlaces, Zenon DEF Dated
<1>5. MwMemory' /\ pub["mw"].status = "SETUP"
  <2>1. /\ pub["mw"].status = "SETUP" /\ session > 0 /\ pub["mw"].pub_a = session /\ prv["mw"].sk = session
        /\ pub["mw"].pub_b = session /\ pub["mw"].pub_x = session /\ LockedAt(pub["mw"].btc_lock_time)
        /\ Locked /\ prv["mw"].lock = session
    BY <1>1, MwPlaces, MwOrder, Zenon DEF Deal, MwMemory
  <2>2. pc["mw"] \in MwLockSteps /\ "mw_spend" \in MwKeyed /\ "mw_spend" \notin MwShared
    BY <1>1, MwPlaces, MwOrder, ZenonT(30)
  <2> QED
    BY <1>1, <2>1, <2>2, MwLockMemory, Zenon
<1>6. LineTo("btc")'.type = "mw_lock_time" /\ LineTo("btc")'.val = h
  BY <1>3, SMTT(30) DEF Line
<1>7. pc["mw"] \in MwLockSteps /\ pc["mw"] \notin MwDated /\ "mw_spend" \in MwKeyed
  BY <1>1, MwPlaces, MwOrder, ZenonT(30)
<1> QED
  BY <1>1, <1>3, <1>4, <1>5, <1>6, <1>7, MwLockFrame, Zenon

\* Alice and Bob build the shared output.
LEMMA MwSharedOutDeal ==
    ASSUME TypeOK, Conversation, Deal, mw_shared_out
    PROVE  Deal'
<1>1. CASE SendStep("mw", "mw_spend", "ptx", 0, "mw_ptx2")
  <2>1. /\ Goto("mw", "mw_ptx2") /\ pc["mw"] = "mw_spend" /\ ~ack["mw"] /\ Quiet /\ pub' = pub /\ prv' = prv
    BY <1>1, Zenon DEF SendStep, At, Quiet, chainVars, auxVars, slateVars
  <2>2. Conversation' /\ HasLine("btc")' /\ LineTo("btc")' = Line("ptx", 0)
    BY <1>1, <2>1, MwRows, SendTalk, Zenon DEF SendStep
  <2>3. MwMemory' /\ pub["mw"].status = "SETUP"
    BY <2>1, MwPlaces, MwOrder, MwLockMemory, ZenonT(30) DEF Deal, MwMemory
  <2>4. LineTo("btc")'.type \notin {"pub_a", "mw_lock_time"}
    BY <2>2, SMTT(30) DEF Line
  <2> QED
    BY <2>1, <2>2, <2>3, <2>4, MwPlaces, MwOrder, MwLockFrame, Zenon
<1>2. CASE ReceiveStep("mw", "mw_ptx2", "ptx2", "mw_final")
  <2>1. /\ Goto("mw", "mw_final") /\ pc["mw"] = "mw_ptx2" /\ ~ack["mw"] /\ Quiet /\ pub' = pub /\ prv' = prv
    BY <1>2, Zenon DEF ReceiveStep, At, Quiet, chainVars, auxVars, slateVars
  <2>2. /\ Conversation'
        /\ HasLine("btc")' => HasLine("btc") /\ LineTo("btc")' = LineTo("btc")
    BY <1>2, <2>1, MwRows, ReceiveTalk, Zenon DEF ReceiveStep
  <2>3. MwMemory' /\ pub["mw"].status = "SETUP"
    BY <2>1, MwPlaces, MwOrder, MwLockMemory, ZenonT(30) DEF Deal, MwMemory
  <2> QED
    BY <2>1, <2>2, <2>3, MwPlaces, MwOrder, MwLockFrame, Zenon
<1>3. CASE ~SendStep("mw", "mw_spend", "ptx", 0, "mw_ptx2") /\ ~ReceiveStep("mw", "mw_ptx2", "ptx2", "mw_final")
  <2>1. /\ Goto("mw", "mw_ref_ptx") /\ pc["mw"] = "mw_final" /\ ~ack["mw"] /\ Quiet /\ pub' = pub
        /\ send_msg("mw", "final", 0)
        /\ prv'["btc"] = prv["btc"]
        /\ prv'["mw"].sk = prv["mw"].sk /\ prv'["mw"].lock = prv["mw"].lock
        /\ prv'["mw"].shared_coin = pub["mw"].pub_a
    <3> DEFINE c == IF value["mw"] > Amount["mw"] + Fee["mw"]
                     THEN AddCoin("mw", "change_coin") ELSE prv["mw"].coins \ {"change_coin"}
    <3>1. /\ Goto("mw", "mw_ref_ptx") /\ pc["mw"] = "mw_final" /\ ~ack["mw"] /\ Quiet /\ pub' = pub
          /\ send_msg("mw", "final", 0)
          /\ prv' = [prv EXCEPT !["mw"] = [@ EXCEPT !.shared_coin = pub["mw"].pub_a, !.coins = c]]
      BY <1>3, Zenon DEF mw_shared_out, At, Quiet, chainVars, auxVars
    <3> HIDE DEF c
    <3> QED
      BY <3>1, SMTT(30) DEF TypeOK
  <2>2. Conversation' /\ HasLine("btc")' /\ LineTo("btc")' = Line("final", 0)
    BY <2>1, MwRows, SendTalk, ZenonT(30)
  <2>3. MwMemory' /\ pub["mw"].status = "SETUP"
    BY <2>1, MwPlaces, MwOrder, MwLockMemory, ZenonT(30) DEF Deal, MwMemory
  <2>4. LineTo("btc")'.type \notin {"pub_a", "mw_lock_time"}
    BY <2>2, SMTT(30) DEF Line
  <2> QED
    BY <2>1, <2>2, <2>3, <2>4, MwPlaces, MwOrder, MwLockFrame, ZenonT(30)
<1> QED
  BY <1>1, <1>2, <1>3, Zenon

\* Alice and Bob build her refund transaction.
LEMMA MwRefundTxDeal ==
    ASSUME TypeOK, Conversation, Deal, mw_refund_tx
    PROVE  Deal'
<1>1. CASE At("mw", "mw_ref_ptx")
  <2> DEFINE m == IF Msg("mw") = pub["mw"].mw_lock_time THEN "mw_ref_ptx2" ELSE "err"
  <2>1. /\ Goto("mw", m) /\ pc["mw"] = "mw_ref_ptx" /\ ~ack["mw"] /\ Quiet /\ pub' = pub /\ prv' = prv
        /\ receive_msg("mw", "ref_ptx")
    BY <1>1, Zenon DEF mw_refund_tx, SendStep, At, Quiet, chainVars, auxVars, slateVars
  <2>2. m \in {"mw_ref_ptx2", "err"}
    OBVIOUS
  <2> HIDE DEF m
  <2>3. /\ Conversation'
        /\ HasLine("btc")' => HasLine("btc") /\ LineTo("btc")' = LineTo("btc")
    BY <2>1, <2>2, MwRows, ReceiveTalk, Zenon
  <2>4. MwMemory' /\ pub["mw"].status = "SETUP"
    BY <2>1, <2>2, MwPlaces, MwOrder, MwLockMemory, ZenonT(30) DEF Deal, MwMemory
  <2> QED
    BY <2>1, <2>2, <2>3, <2>4, MwPlaces, MwOrder, MwLockFrame, Zenon
<1>2. CASE SendStep("mw", "mw_ref_ptx2", "ref_ptx2", 0, "mw_ref_final")
  <2>1. /\ Goto("mw", "mw_ref_final") /\ pc["mw"] = "mw_ref_ptx2" /\ ~ack["mw"] /\ Quiet
        /\ pub' = pub /\ prv' = prv
    BY <1>2, Zenon DEF SendStep, At, Quiet, chainVars, auxVars, slateVars
  <2>2. Conversation' /\ HasLine("btc")' /\ LineTo("btc")' = Line("ref_ptx2", 0)
    BY <1>2, <2>1, MwRows, SendTalk, Zenon DEF SendStep
  <2>3. MwMemory' /\ pub["mw"].status = "SETUP"
    BY <2>1, MwPlaces, MwOrder, MwLockMemory, ZenonT(30) DEF Deal, MwMemory
  <2>4. LineTo("btc")'.type \notin {"pub_a", "mw_lock_time"}
    BY <2>2, SMTT(30) DEF Line
  <2> QED
    BY <2>1, <2>2, <2>3, <2>4, MwPlaces, MwOrder, MwLockFrame, Zenon
<1>3. CASE At("mw", "mw_ref_final")
  <2>1. /\ Goto("mw", "mw_fund") /\ pc["mw"] = "mw_ref_final" /\ ~ack["mw"] /\ Quiet /\ pub' = pub
        /\ receive_msg("mw", "ref_final")
        /\ prv'["btc"] = prv["btc"]
        /\ prv'["mw"].sk = prv["mw"].sk /\ prv'["mw"].lock = prv["mw"].lock
        /\ prv'["mw"].shared_coin = prv["mw"].shared_coin
        /\ prv'["mw"].refund_tx = prv["mw"].shared_coin
        /\ prv'["mw"].refund_height = pub["mw"].mw_lock_time
        /\ "refund_coin" \in prv'["mw"].coins
    <3>1. /\ Goto("mw", "mw_fund") /\ pc["mw"] = "mw_ref_final" /\ ~ack["mw"] /\ Quiet /\ pub' = pub
          /\ receive_msg("mw", "ref_final")
          /\ prv' = [prv EXCEPT !["mw"] = [@ EXCEPT !.refund_tx = prv["mw"].shared_coin,
                        !.refund_height = pub["mw"].mw_lock_time,
                        !.coins = AddCoin("mw", "refund_coin")]]
      BY <1>3, Zenon DEF mw_refund_tx, SendStep, At, Quiet, chainVars, auxVars
    <3>2. prv["mw"] \in PrvSlate /\ "refund_coin" \in AddCoin("mw", "refund_coin")
      BY Zenon DEF TypeOK, AddCoin
    <3> QED
      BY <3>1, <3>2, SMTT(30) DEF TypeOK
  <2>2. /\ Conversation'
        /\ HasLine("btc")' => HasLine("btc") /\ LineTo("btc")' = LineTo("btc")
    BY <2>1, MwRows, ReceiveTalk, Zenon
  <2>3. MwMemory' /\ pub["mw"].status = "SETUP"
    <3>1. /\ pub["mw"].status = "SETUP" /\ session > 0 /\ pub["mw"].pub_a = session /\ prv["mw"].sk = session
          /\ pub["mw"].pub_b = session /\ pub["mw"].pub_x = session /\ LockedAt(pub["mw"].btc_lock_time)
          /\ Locked /\ prv["mw"].lock = session /\ prv["mw"].shared_coin = session
      BY <2>1, MwPlaces, MwOrder, ZenonT(30) DEF Deal, MwMemory
    <3>2. pc["mw"] \in MwLockSteps /\ "mw_fund" \in MwKeyed
      BY <2>1, MwPlaces, MwOrder, ZenonT(30)
    <3> QED
      BY <2>1, <3>1, <3>2, MwLockMemory, Zenon
  <2>4. pc["mw"] \in MwLockSteps /\ pc["mw"] \in MwDated /\ "mw_fund" \in MwKeyed
    BY <2>1, MwPlaces, MwOrder, ZenonT(30)
  <2> QED
    BY <2>1, <2>2, <2>3, <2>4, MwLockFrame, Zenon
<1> QED
  BY <1>1, <1>2, <1>3, Zenon DEF mw_refund_tx

\* Alice publishes the funding transaction: Bob has sent his last line and ended his phase.
LEMMA MwPushFundingDeal ==
    ASSUME TypeOK, Conversation, Deal, mw_push_funding
    PROVE  Deal'
<1>1. /\ Goto("mw", "write_prv") /\ pc["mw"] = "mw_fund" /\ ~ack["mw"]
      /\ pub' = pub /\ prv' = prv /\ UNCHANGED <<fileVars, commVars, session, x, btcOut, btcHeight, grinHeight>>
      /\ mwOut' = [state |-> "shared", keys |-> prv["mw"].shared_coin]
      /\ mwOut.state = "none"
  BY Zenon DEF mw_push_funding, At, PushFunding, FundingAccepted, slateVars, auxVars
<1>2. pc'["mw"] = "write_prv" /\ pc'["btc"] = pc["btc"]
  BY <1>1, Zenon DEF Goto, TypeOK
<1>3. pc["btc"] \in {"err", "write_prv"} \cup OutSteps
  <2>1. pc["btc"] \in BtcLockSteps \cup {"err", "write_prv"} \cup OutSteps
    BY <1>1, PhasePeer, MwPlaces, BtcPlaces, ZenonT(30)
  <2>2. ASSUME pc["btc"] \in BtcLockSteps
        PROVE  FALSE
    <3>1. link
      BY <1>1, <2>2, BtcPlaces, PhasesApart, Zenon DEF Conversation, OutSteps
    <3>2. ~HasLine("mw")
      <4>1. HasLine("mw") => LineTo("mw").type = Due["mw_fund"] /\ LineTo("mw").type \in LinesTo("mw")
        BY <1>1, MwPlaces, PhasesApart, ZenonT(30) DEF Conversation, InStep
      <4>2. Due["mw_fund"] = "locked" /\ "locked" \notin LinesTo("mw")
        BY Zenon DEF Due, LinesTo
      <4> QED
        BY <4>1, <4>2, Zenon
    <3>3. ~HasLine("btc")
      BY <1>1, <3>1, Zenon DEF Conversation, Turns
    <3>4. Due[pc["btc"]] = Due["mw_fund"]
      <4>1. pc["mw"] \in MwLockSteps
        BY <1>1, MwPlaces, Zenon
      <4> QED
        BY <1>1, <2>2, <3>1, <3>2, <3>3, <4>1, LinesMeet, Zenon
    <3>5. \A l \in BtcLockSteps : Due[l] # Due["mw_fund"]
      BY LockDue, Zenon
    <3> QED
      BY <2>2, <3>4, <3>5, Zenon
  <2> QED
    BY <2>1, <2>2, Zenon
<1>4. ChainsKept
  BY KeepChains, Zenon DEF mw_push_funding
<1>5. ~Filed("mw") /\ (Set("btc")' <=> Set("btc"))
      /\ \A p \in Party : (Filed(p)' <=> Filed(p))
  BY <1>1, <1>2, MwPlaces, ZenonT(30) DEF Deal, FilesOf, Set, Filed, fileVars
<1>6. MwMemory'
  <2>1. MwDeal(pub["mw"], prv["mw"])'
    <3>1. /\ pub["mw"].status = "SETUP" /\ session > 0
          /\ pub["mw"].pub_a = session /\ prv["mw"].sk = session
          /\ pub["mw"].pub_b = session /\ pub["mw"].pub_x = session
          /\ LockedAt(pub["mw"].btc_lock_time) /\ Locked
          /\ prv["mw"].lock = session /\ prv["mw"].shared_coin = session
          /\ prv["mw"].refund_tx = session /\ prv["mw"].refund_height = pub["mw"].mw_lock_time
          /\ "refund_coin" \in prv["mw"].coins
      BY <1>1, MwPlaces, MwOrder, Zenon DEF Deal, MwMemory
    <3> QED
      BY <1>1, <3>1, ZenonT(30) DEF MwDeal, Locked, LockedAt
  <2>2. "write_prv" \notin MwLockSteps
    BY Zenon DEF MwLockSteps
  <2> QED
    BY <1>2, <2>1, <2>2, MwPlaces, ZenonT(30) DEF MwMemory
<1>7. BtcMemory' /\ Filing'
  BY <1>1, <1>2, <1>4, KeepBtcMemory, KeepDeals, Zenon DEF Deal, fileVars
<1>8. FilesOf("btc")'
  BY <1>1, <1>2, KeepFiles, Zenon DEF Deal
<1>9. FilesOf("mw")'
  <2>1. /\ "write_prv" \notin HandshakeSteps("mw") \cup {"idle", "mw_keys"} \cup ExecSteps("mw")
              \cup RefundSteps("mw") \cup SendCommandSteps \cup {"command"} \cup LockSteps("mw")
    BY PhasesApart, Zenon DEF HandshakeSteps, AnswerSteps, AskSteps, SendCommandSteps
  <2>2. pub["mw"].status = "SETUP"
    BY <1>1, MwPlaces, ZenonT(30) DEF Deal, MwMemory
  <2> QED
    BY <1>1, <1>2, <1>5, <2>1, <2>2, MwPlaces, Zenon DEF FilesOf, Filed
<1>10. Settling'
  <2>1. pc["btc"] \notin BtcLockSteps /\ "write_prv" \notin MwLockSteps
    BY <1>3, BtcPlaces, PhasesApart, Zenon DEF OutSteps, MwLockSteps
  <2>2. Dated("mw") /\ (Dated("btc")' <=> Dated("btc"))
    BY <1>1, <1>2, <1>5, MwPlaces, MwOrder, Zenon DEF Dated
  <2> QED
    BY <1>1, <1>2, <2>1, <2>2, Zenon DEF Deal, Settling
<1>11. pc["btc"] \notin AskSteps \cup AnswerSteps \cup {"command", "next_client", "btc_contract"} \cup BtcLockSteps
  BY <1>3, Zenon DEF AskSteps, AnswerSteps, OutSteps, BtcLockSteps
<1>12. "write_prv" \notin AskSteps \cup AnswerSteps \cup {"command", "next_client"} \cup MwLockSteps \cup MwExecSteps
  BY Zenon DEF AskSteps, AnswerSteps, MwLockSteps, MwExecSteps
<1>13. Session'
  BY <1>1, <1>2, <1>11, <1>12, MwPlaces, Roles, Zenon DEF Deal, Session, Locked
<1>14. LineValues'
  BY <1>2, <1>11, <1>12, BtcPlaces, Roles, ZenonT(30) DEF LineValues, AnswerSteps
<1>15. Outcome'
  BY <1>1, <1>2, <1>5, <1>11, Zenon DEF Deal, Outcome, can_refund
<1> QED
  BY <1>6, <1>7, <1>8, <1>9, <1>10, <1>13, <1>14, <1>15, Zenon DEF Deal
=============================================================================
