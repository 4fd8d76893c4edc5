-------------------------- MODULE SwapTrade_proofs ---------------------------
(***************************************************************************)
(* The execution and the refund phase, writing the public file, reading an *)
(* ACK and a new block preserve Deal.                                      *)
(***************************************************************************)
EXTENDS SwapMwLock_proofs

USE DEF Party, Peer

-----------------------------------------------------------------------------
(* The execution and the refund phase.                                     *)

\* Where a process is when its peer is in one of the two phases and not inside send_msg.
LEMMA TradePeer ==
    ASSUME Conversation, NEW p \in Party, ~ack[p], pc[p] \in ExecSteps(p) \cup RefundSteps(p)
    PROVE  /\ pc[Peer(p)] \in ExecSteps(Peer(p)) \cup RefundSteps(Peer(p)) \cup {"err", "write_prv"} \cup OutSteps
           /\ \A q \in Party : /\ pc[q] \notin LockSteps(q)
                               /\ pc[q] \notin AskSteps \cup {"checksum", "ok", "command", "next_client"}
<1>1. pc[Peer(p)] \in ExecSteps(Peer(p)) \cup RefundSteps(Peer(p)) \cup {"err", "write_prv"} \cup OutSteps
  BY PhasePeer, Zenon
<1>2. \A q \in Party : \A l \in ExecSteps(q) \cup RefundSteps(q) \cup {"err", "write_prv"} \cup OutSteps :
         /\ l \notin LockSteps(q)
         /\ l \notin AskSteps \cup {"checksum", "ok", "command", "next_client"}
  BY PhasesApart, ZenonT(30) DEF OutSteps, AskSteps
<1> QED
  BY <1>1, <1>2, Zenon

\* A step of the two phases keeps the terms of the swap and concerns the slate of one party.
LEMMA TradeFrame ==
    ASSUME TypeOK, Conversation, Deal, NEW p \in Party, NEW m, ~ack[p], Goto(p, m),
           pc[p] \in ExecSteps(p) \cup RefundSteps(p),
           m \in (ExecSteps(p) \cup RefundSteps(p) \cup {"err", "write_prv"}),
           UNCHANGED <<fileVars, session>>, ChainsKept,
           pub'[Peer(p)] = pub[Peer(p)], prv'[Peer(p)] = prv[Peer(p)],
           SameTerms(pub'[p], pub[p]),
           p = "mw" => MwDeal(pub["mw"], prv["mw"])',
           p = "btc" => BtcDeal(pub["btc"], prv["btc"])',
           m \in ExecSteps(p) \cup RefundSteps(p) => pub'[p].status \in {"SETUP", "EXECUTING"},
           m = "write_prv" => pub'[p].status \in {"FINISHED", "FAILED"},
           pub'[p].status = "EXECUTING" => m \in ExecSteps(p) \cup {"err"},
           pc'["mw"] = "mw_ctr_final" /\ HasLine("mw")' => LineTo("mw")'.val = session,
           Outcome'
    PROVE  Deal'
<1>1. pc'[p] = m /\ pc'[Peer(p)] = pc[Peer(p)]
  BY Zenon DEF Goto, TypeOK
<1>2. Filed("mw") /\ Filed("btc") /\ pubFile[p].status \in {"INITIALIZED", "SETUP"}
      /\ SameTerms(pub[p], pubFile[p])
  BY Zenon DEF Deal, FilesOf
<1>3. \A q \in Party : Filed(q)' /\ Set(q)' /\ Dated(q)' /\ Set(q) /\ Dated(q)
  BY <1>2, Zenon DEF Filed, Set, Dated, fileVars
<1>4. Locked /\ Locked' /\ btcOut'.keys = btcOut.keys
  BY <1>2, Zenon DEF Deal, Filing, MwDeal, Locked, ChainsKept
<1>5. \A q \in Party : /\ pc'[q] \notin LockSteps(q)
                       /\ pc'[q] \notin AskSteps \cup {"checksum", "ok", "command", "next_client"}
  <2>1. m \notin LockSteps(p) /\ m \notin AskSteps \cup {"checksum", "ok", "command", "next_client"}
    BY PhasesApart, Zenon DEF AskSteps
  <2> QED
    BY <1>1, <2>1, TradePeer, Zenon
<1>6. Filing'
  BY KeepDeals, Zenon DEF Deal
<1>7. MwMemory'
  <2>1. MwDeal(pub["mw"], prv["mw"])'
    BY <1>3, KeepDeals, Zenon DEF Deal, MwMemory
  <2> QED
    BY <1>5, <2>1, MwPlaces, Zenon DEF MwMemory
<1>8. BtcMemory'
  <2>1. BtcDeal(pub["btc"], prv["btc"])'
    BY <1>3, KeepDeals, Zenon DEF Deal, BtcMemory
  <2> QED
    BY <1>5, <2>1, BtcPlaces, Zenon DEF BtcMemory
<1>9. FilesOf(Peer(p))'
  BY <1>1, KeepFiles, Zenon DEF Deal
<1>10. FilesOf(p)'
  <2>1. m \notin HandshakeSteps(p) \cup {"idle", FirstLockStep(p), "write_pub"} /\ m \notin SendCommandSteps \cup {"command"}
    BY PhasesApart, HandshakePlaces, Roles, ZenonT(30) DEF SendCommandSteps
  <2>2. (Filed(p) => SameTerms(pub[p], pubFile[p]))'
    BY <1>2, Zenon DEF SameTerms, fileVars
  <2>3. m = "write_prv" => m \notin ExecSteps(p) \cup RefundSteps(p) \cup {"write_pub"}
    OBVIOUS
  <2> QED
    BY <1>1, <1>2, <1>3, <1>5, <2>1, <2>2, Zenon DEF FilesOf, fileVars
<1>11. Settling'
  <2>1. pub'["mw"].mw_lock_time = pub'["btc"].mw_lock_time
    BY <1>3, Zenon DEF Deal, Settling, SameTerms
  <2> QED
    BY <1>5, <2>1, MwPlaces, BtcPlaces, Zenon DEF Settling
<1>12. Session'
  <2>1. \A q \in Party : pc'[q] # FirstLockStep(q)
    BY <1>5, PhasesApart, Zenon
  <2>2. {"btc_keys", "btc_pub_b", "btc_height", "btc_lock"} \subseteq BtcLockSteps
    BY Zenon DEF BtcLockSteps
  <2> QED
    BY <1>4, <1>5, <2>1, <2>2, BtcPlaces, Roles, Zenon DEF Deal, Session
<1>13. LineValues'
  <2>1. {"mw_pub_b", "mw_lock_time"} \subseteq MwLockSteps /\ {"btc_keys", "btc_mw_lock_time"} \subseteq BtcLockSteps
    BY Zenon DEF MwLockSteps, BtcLockSteps
  <2> QED
    BY <1>5, <2>1, MwPlaces, BtcPlaces, Roles, ZenonT(30) DEF LineValues
<1> QED
  BY <1>6, <1>7, <1>8, <1>9, <1>10, <1>11, <1>12, <1>13, Zenon DEF Deal

\* The slates and the ledgers during the two phases.
LEMMA TradeTerms ==
    ASSUME TypeOK, Deal, NEW p \in Party, pc[p] \in ExecSteps(p) \cup RefundSteps(p)
    PROVE  /\ Filed("mw") /\ Filed("btc") /\ session > 0 /\ session \in Nat
           /\ MwDeal(pub["mw"], prv["mw"]) /\ BtcDeal(pub["btc"], prv["btc"])
           /\ MwDeal(pubFile["mw"], prvFile["mw"]) /\ BtcDeal(pubFile["btc"], prvFile["btc"])
           /\ SameTerms(pub["mw"], pub["btc"])
           /\ \A q \in Party : SameTerms(pub[q], pubFile["mw"]) /\ SameTerms(pub[q], pubFile["btc"])
           /\ pub[p].status \in {"SETUP", "EXECUTING"}
<1>1. Filed("mw") /\ Filed("btc") /\ pub[p].status \in {"SETUP", "EXECUTING"}
  BY Zenon DEF Deal, FilesOf
<1>2. \A q \in Party : Set(q) /\ Dated(q)
  BY <1>1, Zenon DEF Set, Dated
<1>3. /\ MwDeal(pub["mw"], prv["mw"]) /\ BtcDeal(pub["btc"], prv["btc"])
      /\ MwDeal(pubFile["mw"], prvFile["mw"]) /\ BtcDeal(pubFile["btc"], prvFile["btc"])
  BY <1>1, <1>2, Zenon DEF Deal, MwMemory, BtcMemory, Filing
<1>4. SameTerms(pub["mw"], pub["btc"])
  BY <1>2, <1>3, Zenon DEF Deal, Settling, SameTerms, MwDeal, BtcDeal
<1>5. SameTerms(pub["mw"], pubFile["mw"]) /\ SameTerms(pub["btc"], pubFile["btc"])
  BY Zenon DEF Deal, FilesOf
<1>6. \A q \in Party : SameTerms(pub[q], pubFile["mw"]) /\ SameTerms(pub[q], pubFile["btc"])
  BY <1>4, <1>5, Zenon DEF SameTerms
<1>7. session > 0 /\ session \in Nat
  BY <1>3, Zenon DEF MwDeal, TypeOK
<1> QED
  BY <1>1, <1>3, <1>4, <1>6, <1>7, Zenon

\* The slate of a party that only passes lines, or begins to execute.
LEMMA KeepTerms ==
    ASSUME TypeOK, ChainsKept, session' = session, NEW p \in Party, prv'[p] = prv[p],
           pub'[p] = pub[p] \/ pub' = [pub EXCEPT ![p] = [@ EXCEPT !.status = "EXECUTING"]]
    PROVE  /\ SameTerms(pub'[p], pub[p])
           /\ pub'[p].status \in {pub[p].status, "EXECUTING"}
           /\ p = "mw" /\ MwDeal(pub["mw"], prv["mw"]) => MwDeal(pub["mw"], prv["mw"])'
           /\ p = "btc" /\ BtcDeal(pub["btc"], prv["btc"]) => BtcDeal(pub["btc"], prv["btc"])'
<1>1. SameTerms(pub'[p], pub[p]) /\ pub'[p].status \in {pub[p].status, "EXECUTING"}
      /\ (pub'[p] # pub[p] => pub'[p].status = "EXECUTING")
  <2>1. CASE pub'[p] = pub[p]
    BY <2>1, Zenon DEF SameTerms
  <2>2. CASE pub' = [pub EXCEPT ![p] = [@ EXCEPT !.status = "EXECUTING"]]
    <3>1. pub'[p] = [pub[p] EXCEPT !.status = "EXECUTING"] /\ pub[p] \in PubSlate
      BY <2>2, Zenon DEF TypeOK
    <3> QED
      BY <3>1, Zenon DEF SameTerms, PubSlate
  <2> QED
    BY <2>1, <2>2, Zenon
<1>2. p = "mw" /\ MwDeal(pub["mw"], prv["mw"]) => MwDeal(pub["mw"], prv["mw"])'
  BY <1>1, SMTT(30) DEF MwDeal, Locked, ChainsKept, SameTerms
<1>3. p = "btc" /\ BtcDeal(pub["btc"], prv["btc"]) => BtcDeal(pub["btc"], prv["btc"])'
  BY <1>1, SMTT(30) DEF BtcDeal, Locked, ChainsKept, SameTerms
<1> QED
  BY <1>1, <1>2, <1>3, Zenon

\* A step of the two phases that touches neither ledger nor x.
LEMMA TradeQuiet ==
    ASSUME TypeOK, Conversation, Deal, NEW p \in Party, NEW m, ~ack[p], Goto(p, m),
           pc[p] \in ExecSteps(p) \cup RefundSteps(p), Quiet, prv' = prv,
           m \in ExecSteps(p) \cup RefundSteps(p) \cup {"err"},
           pc[p] \in ExecSteps(p) => m \in ExecSteps(p) \cup {"err"},
           \/ pub' = pub
           \/ pub' = [pub EXCEPT ![p] = [@ EXCEPT !.status = "EXECUTING"]] /\ m \in ExecSteps(p),
           m \in {"mw_refund_push", "btc_refund_push"} => can_refund(p) /\ pub' = pub,
           p = "mw" /\ m \in MwExecSteps \ {"mw_exec"} => mwOut.state # "refunded",
           pc'["mw"] = "mw_ctr_final" /\ HasLine("mw")' => LineTo("mw")'.val = session,
           pc'["btc"] = "btc_contract" /\ (ack'["btc"] => HasAck("btc")') => x # 0
    PROVE  Deal'
<1>1. pc'[p] = m /\ pc'[Peer(p)] = pc[Peer(p)]
  BY Zenon DEF Goto, TypeOK
<1>2. ChainsKept
  BY KeepChains, Zenon DEF Quiet
<1>3. pub'[Peer(p)] = pub[Peer(p)] /\ prv'[Peer(p)] = prv[Peer(p)] /\ prv'[p] = prv[p] /\ session' = session
  BY Zenon DEF TypeOK, Quiet
<1>4. /\ SameTerms(pub'[p], pub[p])
      /\ pub'[p].status \in {"SETUP", "EXECUTING"}
      /\ p = "mw" => MwDeal(pub["mw"], prv["mw"])'
      /\ p = "btc" => BtcDeal(pub["btc"], prv["btc"])'
  BY <1>2, <1>3, KeepTerms, TradeTerms, Zenon
<1>5. pub'[p].status = "EXECUTING" => m \in ExecSteps(p) \cup {"err"}
  <2>1. CASE pub' = pub
    <3>1. pub[p].status = "EXECUTING" => pc[p] \in ExecSteps(p)
      BY OtherPlaces, Zenon DEF Deal, FilesOf
    <3> QED
      BY <2>1, <3>1, Zenon
  <2> QED
    BY <2>1, Zenon
<1>6. Outcome'
  <2>1. pc'[p] = pc[p] \/ pc'[p] = m
    BY <1>1, Zenon
  <2>2. /\ (pc["mw"] = "mw_refund_push" => can_refund("mw"))'
        /\ (pc["btc"] = "btc_refund_push" => can_refund("btc"))'
    BY <1>1, <1>3, Zenon DEF Deal, Outcome, can_refund, Quiet
  <2>3. (pc["mw"] \in MwExecSteps \ {"mw_exec"} => mwOut.state # "refunded")'
    BY <1>1, Zenon DEF Deal, Outcome, Quiet
  <2>4. \A q \in Party : Filed(q)' <=> Filed(q)
    BY Zenon DEF Filed, Quiet, fileVars
  <2> QED
    BY <2>2, <2>3, <2>4, Zenon DEF Deal, Outcome, Quiet, fileVars
<1>7. m # "write_prv"
  BY OtherPlaces, Zenon
<1>8. UNCHANGED <<fileVars, session>>
  BY Zenon DEF Quiet
<1> QED
  BY <1>2, <1>3, <1>4, <1>5, <1>6, <1>7, <1>8, TradeFrame, Zenon

\* Places of the two phases by name.
LEMMA TradePlaces ==
    /\ \A l \in {"mw_exec", "mw_ctr_ptx", "mw_ctr_ptx2", "mw_ctr_ptx3", "mw_ctr_final", "mw_redeem"} :
         l \in ExecSteps("mw") /\ l \in TalkSteps("mw") /\ l \in MwExecSteps
    /\ \A l \in {"btc_exec", "btc_ctr_ptx", "btc_ctr_ptx2", "btc_ctr_ptx3", "btc_ctr_final", "btc_contract"} :
         l \in ExecSteps("btc") /\ l \in TalkSteps("btc")
    /\ \A l \in {"mw_refund", "mw_refund_push"} : l \in RefundSteps("mw")
    /\ \A l \in {"btc_refund", "btc_refund_push"} : l \in RefundSteps("btc")
    /\ "err" \notin MwExecSteps
    /\ Due["mw_ctr_ptx"] = "ctr_ptx" /\ Due["mw_ctr_ptx2"] = "ctr_ptx2" /\ Due["mw_ctr_ptx3"] = "ctr_ptx3"
    /\ Due["mw_exec"] = "ctr_ptx" /\ Due["mw_redeem"] = "executed"
    /\ Due["mw_ctr_final"] = "ctr_final" /\ Due["btc_contract"] = "executed"
    /\ Following["ctr_ptx2"] = "ctr_ptx3" /\ Following["ctr_final"] = "executed"
<1>1. /\ \A l \in {"mw_exec", "mw_ctr_ptx", "mw_ctr_ptx2", "mw_ctr_ptx3", "mw_ctr_final", "mw_redeem"} :
         l \in ExecSteps("mw") /\ l \in TalkSteps("mw") /\ l \in MwExecSteps
      /\ \A l \in {"btc_exec", "btc_ctr_ptx", "btc_ctr_ptx2", "btc_ctr_ptx3", "btc_ctr_final", "btc_contract"} :
         l \in ExecSteps("btc") /\ l \in TalkSteps("btc")
  BY Zenon DEF TalkSteps, ExecSteps, MwExecSteps, BtcExecSteps
<1>2. /\ \A l \in {"mw_refund", "mw_refund_push"} : l \in RefundSteps("mw")
      /\ \A l \in {"btc_refund", "btc_refund_push"} : l \in RefundSteps("btc")
      /\ "err" \notin MwExecSteps
  BY Zenon DEF RefundSteps, MwExecSteps
<1>3. /\ Due["mw_ctr_ptx"] = "ctr_ptx" /\ Due["mw_ctr_ptx2"] = "ctr_ptx2" /\ Due["mw_ctr_ptx3"] = "ctr_ptx3"
      /\ Due["mw_exec"] = "ctr_ptx" /\ Due["mw_redeem"] = "executed"
      /\ Due["mw_ctr_final"] = "ctr_final" /\ Due["btc_contract"] = "executed"
  BY Zenon DEF Due
<1>4. Following["ctr_ptx2"] = "ctr_ptx3" /\ Following["ctr_final"] = "executed"
  BY Zenon DEF Following
<1> QED
  BY <1>1, <1>2, <1>3, <1>4, Zenon

\* Either side looks at both chains and begins to execute; nothing has been refunded then.
LEMMA StartExecutionDeal ==
    ASSUME TypeOK, Conversation, Deal,
           StartExecution("mw", "mw_exec", "mw_ctr_ptx") \/ StartExecution("btc", "btc_exec", "btc_ctr_ptx")
    PROVE  Deal'
<1>1. ASSUME NEW p \in Party, NEW l \in {"mw_exec", "btc_exec"}, NEW m \in {"mw_ctr_ptx", "btc_ctr_ptx"},
             l \in ExecSteps(p), m \in ExecSteps(p), StartExecution(p, l, m)
      PROVE  Deal'
  <2>1. /\ pc[p] = l /\ ~ack[p] /\ Goto(p, m) /\ Quiet /\ prv' = prv /\ net' = net /\ ack' = ack
        /\ pub' = [pub EXCEPT ![p] = [@ EXCEPT !.status = "EXECUTING"]]
        /\ pc'[p] = m /\ pc'[Peer(p)] = pc[Peer(p)]
    BY <1>1, Zenon DEF StartExecution, At, Goto, TypeOK, Quiet, chainVars, auxVars, commVars
  <2>2. grinHeight <= pub[p].mw_lock_time
    <3>1. grinHeight \in Nat /\ Hour["mw"] \in Nat /\ pub[p].mw_lock_time \in Nat
      BY NumbersAssumption, Zenon DEF TypeOK, PubSlate
    <3>2. grinHeight + Hour["mw"] <= pub[p].mw_lock_time
      BY <1>1, Zenon DEF StartExecution, check_if_enough_time
    <3> QED
      BY <3>1, <3>2, SMTT(30)
  <2>3. mwOut.state # "refunded"
    <3>1. pub[p].mw_lock_time = pubFile["mw"].mw_lock_time
      BY <1>1, <2>1, TradeTerms, Zenon DEF SameTerms
    <3>2. grinHeight \in Nat /\ pub[p].mw_lock_time \in Nat
      BY Zenon DEF TypeOK, PubSlate
    <3> QED
      BY <2>2, <3>1, <3>2, SMTT(30) DEF Deal, Outcome
  <2>4. \A q \in Party : (HasLine(q)' <=> HasLine(q)) /\ LineTo(q)' = LineTo(q) /\ (HasAck(q)' <=> HasAck(q))
    BY <2>1, SameQueue, Zenon
  <2>5. m \notin {"mw_ctr_final", "btc_contract", "mw_refund_push", "btc_refund_push"}
    OBVIOUS
  <2>6. /\ pc'["mw"] = "mw_ctr_final" /\ HasLine("mw")' => LineTo("mw")'.val = session
        /\ pc'["btc"] = "btc_contract" /\ (ack'["btc"] => HasAck("btc")') => x # 0
    <3>1. /\ pc'["mw"] = "mw_ctr_final" => pc["mw"] = "mw_ctr_final"
          /\ pc'["btc"] = "btc_contract" => pc["btc"] = "btc_contract"
      BY <2>1, Zenon
    <3> QED
      BY <2>1, <2>4, Zenon DEF Deal, LineValues, Outcome
  <2> QED
    BY <1>1, <2>1, <2>3, <2>6, TradeQuiet, Zenon
<1> QED
  BY <1>1, TradePlaces, Zenon

\* Either side begins to refund.
LEMMA StartRefundDeal ==
    ASSUME TypeOK, Conversation, Deal,
           StartRefund("mw", "mw_refund", "mw_refund_push") \/ StartRefund("btc", "btc_refund", "btc_refund_push")
    PROVE  Deal'
<1>1. ASSUME NEW p \in Party, NEW l \in {"mw_refund", "btc_refund"}, NEW m \in {"mw_refund_push", "btc_refund_push"},
             l \in RefundSteps(p), m \in RefundSteps(p), StartRefund(p, l, m)
      PROVE  Deal'
  <2>1. /\ pc[p] = l /\ ~ack[p] /\ Goto(p, m) /\ Quiet /\ pub' = pub /\ prv' = prv /\ net' = net /\ ack' = ack
        /\ can_refund(p) /\ pc'[p] = m /\ pc'[Peer(p)] = pc[Peer(p)]
    BY <1>1, Zenon DEF StartRefund, At, Goto, TypeOK, Quiet, chainVars, auxVars, commVars, slateVars
  <2>2. \A q \in Party : (HasLine(q)' <=> HasLine(q)) /\ LineTo(q)' = LineTo(q) /\ (HasAck(q)' <=> HasAck(q))
    BY <2>1, SameQueue, Zenon
  <2>3. /\ pc'["mw"] = "mw_ctr_final" /\ HasLine("mw")' => LineTo("mw")'.val = session
        /\ pc'["btc"] = "btc_contract" /\ (ack'["btc"] => HasAck("btc")') => x # 0
    <3>1. /\ pc'["mw"] = "mw_ctr_final" => pc["mw"] = "mw_ctr_final"
          /\ pc'["btc"] = "btc_contract" => pc["btc"] = "btc_contract"
      BY <2>1, Zenon
    <3> QED
      BY <2>1, <2>2, Zenon DEF Deal, LineValues, Outcome
  <2>4. pc[p] \notin ExecSteps(p) /\ m \notin ExecSteps(p)
    BY <1>1, <2>1, PhasesApart, Zenon
  <2> QED
    BY <1>1, <2>1, <2>3, <2>4, MwPlaces, TradeQuiet, Zenon
<1> QED
  BY <1>1, TradePlaces, Zenon

\* When Bob is about to push the contract transaction and they are connected, Alice has read
\* his last line or is about to.
LEMMA ContractPosition ==
    ASSUME Conversation, link, pc["btc"] = "btc_contract", ~HasLine("btc"),
           pc["mw"] \in {"mw_ctr_ptx", "mw_ctr_ptx2", "mw_ctr_ptx3"}
    PROVE  FALSE
<1>1. Position("mw") = Position("btc")
  BY TradePlaces, Zenon DEF Conversation, InStep
<1>2. Position("btc") = "executed"
  BY TradePlaces, Zenon DEF Position
<1>3. Following["ctr_ptx"] = "ctr_ptx2" /\ Following["ctr_ptx3"] = "ctr_final"
  BY Zenon DEF Following
<1>4. Position("mw") \in {"ctr_ptx", "ctr_ptx2", "ctr_ptx3", "ctr_final"}
  BY <1>3, TradePlaces, Zenon DEF Position
<1> QED
  BY <1>1, <1>2, <1>4, Zenon

\* Alice's side of the contract transaction, before the last line.
LEMMA MwContractTxDeal ==
    ASSUME TypeOK, Conversation, Deal,
           \/ SendStep("mw", "mw_ctr_ptx", "ctr_ptx", 0, "mw_ctr_ptx2")
           \/ SendStep("mw", "mw_ctr_ptx3", "ctr_ptx3", prv["mw"].shared_coin, "mw_ctr_final")
           \/ /\ At("mw", "mw_ctr_ptx2")
              /\ receive_msg("mw", "ctr_ptx2")
              /\ Goto("mw", IF Msg("mw") = pub["mw"].pub_x THEN "mw_ctr_ptx3" ELSE "err")
              /\ UNCHANGED <<chainVars, slateVars, fileVars, auxVars>>
    PROVE  Deal'
<1>1. ASSUME NEW l \in {"mw_ctr_ptx", "mw_ctr_ptx3"}, NEW t \in {"ctr_ptx", "ctr_ptx3"}, NEW v \in Nat,
             NEW m \in {"mw_ctr_ptx2", "mw_ctr_final"}, SendRow("mw", l, t, m), SendStep("mw", l, t, v, m)
      PROVE  Deal'
  <2>1. /\ pc["mw"] = l /\ ~ack["mw"] /\ send_msg("mw", t, v) /\ Goto("mw", m) /\ Quiet /\ pub' = pub /\ prv' = prv
        /\ pc'["mw"] = m /\ pc'["btc"] = pc["btc"]
    BY <1>1, Zenon DEF SendStep, At, Goto, TypeOK, Quiet, chainVars, auxVars, slateVars
  <2>2. link /\ ~HasLine("mw")' /\ ~HasLine("btc")
    BY <1>1, <2>1, SendTalk, Zenon
  <2>3. pc["btc"] # "btc_contract"
    BY <2>1, <2>2, ContractPosition, Zenon
  <2>4. pc["mw"] \in ExecSteps("mw") /\ m \in ExecSteps("mw") /\ l \in MwExecSteps \ {"mw_exec"}
    BY <2>1, TradePlaces, Zenon
  <2>5. mwOut.state # "refunded"
    BY <2>1, <2>4, Zenon DEF Deal, Outcome
  <2> QED
    BY <2>1, <2>2, <2>3, <2>4, <2>5, TradeQuiet, Zenon
<1>2. ASSUME NEW m \in {"mw_ctr_ptx3", "err"}, pc["mw"] = "mw_ctr_ptx2", ~ack["mw"], receive_msg("mw", "ctr_ptx2"),
             Goto("mw", m), UNCHANGED <<chainVars, slateVars, fileVars, auxVars>>
      PROVE  Deal'
  <2>1. /\ Quiet /\ pub' = pub /\ prv' = prv /\ pc'["mw"] = m /\ pc'["btc"] = pc["btc"] /\ ack' = ack
        /\ ~link => net'["btc"] = net["btc"]
    BY <1>2, Zenon DEF receive_msg, Goto, TypeOK, Quiet, chainVars, auxVars, slateVars
  <2>2. link => ~HasLine("btc")
    BY <1>2, MwRows, ReceiveTalk, Zenon
  <2>3. pc["btc"] = "btc_contract" => ~link
    BY <1>2, <2>2, ContractPosition, Zenon
  <2>4. pc["btc"] = "btc_contract" /\ (ack'["btc"] => HasAck("btc")') => x # 0
    BY <2>1, <2>3, SameQueue, Zenon DEF Deal, Outcome
  <2>5. mwOut.state # "refunded"
    BY <1>2, TradePlaces, Zenon DEF Deal, Outcome
  <2> QED
    BY <1>2, <2>1, <2>4, <2>5, TradePlaces, TradeQuiet, Zenon
<1>3. prv["mw"].shared_coin \in Nat
  BY Zenon DEF TypeOK, PrvSlate
<1>4. CASE /\ At("mw", "mw_ctr_ptx2")
           /\ receive_msg("mw", "ctr_ptx2")
           /\ Goto("mw", IF Msg("mw") = pub["mw"].pub_x THEN "mw_ctr_ptx3" ELSE "err")
           /\ UNCHANGED <<chainVars, slateVars, fileVars, auxVars>>
  BY <1>2, <1>4, Zenon DEF At
<1> QED
  BY <1>1, <1>3, <1>4, MwRows, Zenon

\* Alice receives the last line and extracts x.
LEMMA MwExtractDeal ==
    ASSUME TypeOK, Conversation, Deal, At("mw", "mw_ctr_final"), receive_msg("mw", "ctr_final"),
           x' = Msg("mw"), Goto("mw", "mw_redeem"),
           UNCHANGED <<chainVars, slateVars, fileVars, attempts, session, givenVars>>
    PROVE  Deal' /\ x' = session
<1>1. /\ pc["mw"] = "mw_ctr_final" /\ ~ack["mw"] /\ pub' = pub /\ prv' = prv
      /\ pc'["mw"] = "mw_redeem" /\ pc'["btc"] = pc["btc"]
      /\ UNCHANGED <<fileVars, session, btcOut, mwOut, btcHeight, grinHeight>>
  BY Zenon DEF At, Goto, TypeOK, chainVars, slateVars
<1>2. HasLine("mw") /\ Msg("mw") = LineTo("mw").val
  BY <1>1, MwRows, ReceiveTalk, Zenon
<1>3. pc["mw"] \in ExecSteps("mw")
  BY <1>1, TradePlaces, ZenonT(30)
<1>4. x' = session /\ x' # 0
  BY <1>1, <1>2, <1>3, TradeTerms, SMTT(30) DEF Deal, LineValues
<1>5. ChainsKept
  BY <1>1, KeepChains, Zenon
<1>6. /\ MwDeal(pub["mw"], prv["mw"])' /\ SameTerms(pub'["mw"], pub["mw"]) /\ Filed("mw")
      /\ pub'["mw"].status \in {"SETUP", "EXECUTING"}
  BY <1>1, <1>3, <1>5, KeepDeals, TradeTerms, Zenon DEF SameTerms
<1>7. \A q \in Party : Filed(q)' <=> Filed(q)
  BY Zenon DEF Filed, fileVars
<1>8. Outcome'
  <2>1. mwOut.state # "refunded"
    BY <1>1, TradePlaces, Zenon DEF Deal, Outcome
  <2>2. (pc["btc"] = "btc_refund_push" => can_refund("btc"))'
    BY <1>1, Zenon DEF Deal, Outcome, can_refund
  <2> QED
    BY <1>1, <1>4, <1>6, <1>7, <2>1, <2>2, ZenonT(30) DEF Deal, Outcome, fileVars
<1>9. "mw_redeem" \in ExecSteps("mw")
  BY TradePlaces, Zenon
<1> QED
  BY <1>1, <1>3, <1>4, <1>5, <1>6, <1>8, <1>9, TradeFrame, ZenonT(30)

\* Alice redeems the bitcoins.
LEMMA MwRedeemDeal ==
    ASSUME TypeOK, Conversation, Deal, mw_redeem
    PROVE  Deal'
<1>1. /\ pc["mw"] = "mw_redeem" /\ ~ack["mw"] /\ Goto("mw", "write_prv")
      /\ pc'["mw"] = "write_prv" /\ pc'["btc"] = pc["btc"]
      /\ pub'["btc"] = pub["btc"] /\ prv'["btc"] = prv["btc"]
      /\ UNCHANGED <<fileVars, session, x, mwOut, btcHeight, grinHeight>> /\ net' = net /\ ack' = ack
      /\ SendRedeem(prv["mw"].sk, x)
  BY Zenon DEF mw_redeem, SendRedeem, At, Goto, TypeOK, auxVars, commVars
<1>2. /\ pub'["mw"] = [pub["mw"] EXCEPT !.status = "FINISHED"]
      /\ prv'["mw"] = [prv["mw"] EXCEPT !.coins = prv["mw"].coins \cup {"swapped"}]
      /\ btcOut' = [btcOut EXCEPT !.state = "redeemed"]
      /\ pub["mw"] \in PubSlate /\ prv["mw"] \in PrvSlate
  BY Zenon DEF mw_redeem, SendRedeem, AddCoin, TypeOK
<1>3. SameTerms(pub'["mw"], pub["mw"]) /\ pub'["mw"].status = "FINISHED"
  BY <1>2, SMTT(30) DEF SameTerms
<1>4. /\ prv'["mw"].sk = prv["mw"].sk /\ prv'["mw"].lock = prv["mw"].lock
      /\ prv'["mw"].shared_coin = prv["mw"].shared_coin /\ prv'["mw"].refund_tx = prv["mw"].refund_tx
      /\ prv'["mw"].refund_height = prv["mw"].refund_height
      /\ prv'["mw"].coins = prv["mw"].coins \cup {"swapped"}
  BY <1>2, Zenon DEF PrvSlate
<1>5. ChainsKept
  BY <1>1, KeepChains, Zenon
<1>6. btcOut'.state = "redeemed"
  BY <1>2, SMTT(30)
<1>7. pc["mw"] \in ExecSteps("mw")
  BY <1>1, TradePlaces, Zenon
<1>8. MwDeal(pub["mw"], prv["mw"])'
  <2>1. MwDeal(pub["mw"], prv["mw"])
    BY <1>7, TradeTerms, Zenon
  <2> QED
    BY <1>1, <1>3, <1>4, <1>5, <1>6, <2>1, ZenonT(30) DEF MwDeal, Locked, ChainsKept, SameTerms
<1>9. \A q \in Party : Filed(q)' <=> Filed(q)
  BY <1>1, ZenonT(30) DEF Filed, fileVars
<1>10. Outcome'
  <2>1. (pc["btc"] = "btc_refund_push" => can_refund("btc"))'
    BY <1>1, ZenonT(30) DEF Deal, Outcome, can_refund
  <2>2. HasAck("btc")' <=> HasAck("btc")
    BY <1>1, SameQueue, Zenon
  <2>3. "write_prv" \notin MwExecSteps
    BY OtherPlaces, Zenon
  <2> QED
    BY <1>1, <1>6, <1>9, <2>1, <2>2, <2>3, ZenonT(30) DEF Deal, Outcome, fileVars
<1> QED
  BY <1>1, <1>3, <1>5, <1>7, <1>8, <1>10, OtherPlaces, TradeFrame, Zenon

\* Bob's side of the contract transaction.
LEMMA BtcContractTxDeal ==
    ASSUME TypeOK, Conversation, Deal, btc_contract_tx
    PROVE  Deal'
<1>1. ASSUME NEW l \in {"btc_ctr_ptx2", "btc_ctr_final"}, NEW t \in {"ctr_ptx2", "ctr_final"},
             NEW m \in {"btc_ctr_ptx3", "btc_contract"}, SendRow("btc", l, t, m), SendStep("btc", l, t, prv["btc"].x, m)
      PROVE  Deal'
  <2>1. /\ pc["btc"] = l /\ ~ack["btc"] /\ send_msg("btc", t, prv["btc"].x) /\ Goto("btc", m)
        /\ Quiet /\ pub' = pub /\ prv' = prv
        /\ pc'["btc"] = m /\ pc'["mw"] = pc["mw"] /\ prv["btc"].x \in Nat
    BY <1>1, Zenon DEF SendStep, At, Goto, TypeOK, PrvSlate, Quiet, chainVars, auxVars, slateVars
  <2>2. Conversation' /\ link /\ HasLine("mw")' /\ LineTo("mw")' = Line(t, prv["btc"].x)
    BY <1>1, <2>1, SendTalk, Zenon
  <2>3. pc["btc"] \in ExecSteps("btc") /\ m \in ExecSteps("btc")
    BY <2>1, TradePlaces, Zenon
  <2>4. LineTo("mw")'.val = session
    BY <2>2, <2>3, TradeTerms, SMTT(30) DEF Line, BtcDeal
  <2>5. ack'["btc"] /\ ~HasAck("btc")'
    <3>1. link'
      BY <2>1, Zenon DEF send_msg
    <3> QED
      BY <2>2, <3>1, Zenon DEF Conversation, Turns
  <2> QED
    BY <2>1, <2>3, <2>4, <2>5, TradeQuiet, Zenon
<1>2. ASSUME NEW l \in {"btc_ctr_ptx", "btc_ctr_ptx3"}, NEW t \in {"ctr_ptx", "ctr_ptx3"},
             NEW m \in {"btc_ctr_ptx2", "btc_ctr_final", "err"}, ReceiveRow("btc", l, t, m),
             pc["btc"] = l, ~ack["btc"], receive_msg("btc", t), Goto("btc", m),
             UNCHANGED <<chainVars, slateVars, fileVars, auxVars>>
      PROVE  Deal'
  <2>1. /\ Quiet /\ pub' = pub /\ prv' = prv /\ pc'["btc"] = m /\ pc'["mw"] = pc["mw"]
    BY <1>2, Zenon DEF Goto, TypeOK, Quiet, chainVars, auxVars, slateVars
  <2>2. HasLine("mw")' => HasLine("mw") /\ LineTo("mw")' = LineTo("mw")
    BY <1>2, ReceiveTalk, Zenon
  <2>3. pc'["mw"] = "mw_ctr_final" /\ HasLine("mw")' => LineTo("mw")'.val = session
    BY <2>1, <2>2, ZenonT(30) DEF Deal, LineValues
  <2>4. pc["btc"] \in ExecSteps("btc") /\ m \in ExecSteps("btc") \cup {"err"}
    BY <1>2, TradePlaces, Zenon
  <2> QED
    BY <1>2, <2>1, <2>3, <2>4, TradeQuiet, Zenon
<1>3. CASE /\ At("btc", "btc_ctr_ptx3")
           /\ receive_msg("btc", "ctr_ptx3")
           /\ Goto("btc", IF Msg("btc") = prv["btc"].shared_coin THEN "btc_ctr_final" ELSE "err")
           /\ UNCHANGED <<chainVars, slateVars, fileVars, auxVars>>
  BY <1>2, <1>3, BtcRows, Zenon DEF At
<1>4. CASE ReceiveStep("btc", "btc_ctr_ptx", "ctr_ptx", "btc_ctr_ptx2")
  BY <1>2, <1>4, BtcRows, Zenon DEF At, ReceiveStep
<1> QED
  BY <1>1, <1>3, <1>4, BtcRows, Zenon DEF btc_contract_tx

\* Bob pushes the contract transaction.
LEMMA BtcContractDeal ==
    ASSUME TypeOK, Conversation, Deal, btc_push_contract
    PROVE  Deal' /\ x # 0
<1>1. /\ pc["btc"] = "btc_contract" /\ ~ack["btc"] /\ Goto("btc", "write_prv")
      /\ pc'["btc"] = "write_prv" /\ pc'["mw"] = pc["mw"]
      /\ pub'["mw"] = pub["mw"] /\ prv'["mw"] = prv["mw"]
      /\ UNCHANGED <<fileVars, session, x, btcOut, btcHeight, grinHeight>> /\ net' = net /\ ack' = ack
      /\ PushContract(prv["btc"].shared_coin)
  BY Zenon DEF btc_push_contract, PushContract, At, Goto, TypeOK, auxVars, commVars
<1>2. /\ pub'["btc"] = [pub["btc"] EXCEPT !.status = "FINISHED"]
      /\ prv'["btc"] = [prv["btc"] EXCEPT !.coins = prv["btc"].coins \cup {"swapped_coin"}]
      /\ mwOut' = [mwOut EXCEPT !.state = "contract"]
      /\ pub["btc"] \in PubSlate /\ prv["btc"] \in PrvSlate
  BY Zenon DEF btc_push_contract, PushContract, AddCoin, TypeOK
<1>3. SameTerms(pub'["btc"], pub["btc"]) /\ pub'["btc"].status = "FINISHED"
  BY <1>2, SMTT(30) DEF SameTerms
<1>4. /\ prv'["btc"].sk = prv["btc"].sk /\ prv'["btc"].lock = prv["btc"].lock
      /\ prv'["btc"].shared_coin = prv["btc"].shared_coin /\ prv'["btc"].x = prv["btc"].x
      /\ prv'["btc"].coins = prv["btc"].coins \cup {"swapped_coin"}
  BY <1>2, SMTT(30)
<1>5. ChainsKept
  BY <1>1, KeepChains, Zenon
<1>6. mwOut'.state = "contract"
  BY <1>2, SMTT(30)
<1>7. pc["btc"] \in ExecSteps("btc")
  BY <1>1, TradePlaces, Zenon
<1>8. BtcDeal(pub["btc"], prv["btc"])'
  <2>1. BtcDeal(pub["btc"], prv["btc"])
    BY <1>7, TradeTerms, Zenon
  <2> QED
    BY <1>1, <1>3, <1>4, <1>6, <2>1, Zenon DEF BtcDeal, Locked, SameTerms
<1>9. \A q \in Party : Filed(q)' <=> Filed(q)
  BY <1>1, ZenonT(30) DEF Filed, fileVars
<1>10. x # 0
  BY <1>1, Zenon DEF Deal, Outcome
<1>11. Outcome'
  <2>1. (pc["mw"] = "mw_refund_push" => can_refund("mw"))'
    BY <1>1, ZenonT(30) DEF Deal, Outcome, can_refund
  <2> QED
    BY <1>1, <1>6, <1>9, <2>1, ZenonT(30) DEF Deal, Outcome, fileVars
<1>12. pc'["mw"] = "mw_ctr_final" /\ HasLine("mw")' => LineTo("mw")'.val = session
  BY <1>1, SameQueue, Zenon DEF Deal, LineValues
<1> QED
  BY <1>1, <1>3, <1>5, <1>7, <1>8, <1>10, <1>11, <1>12, OtherPlaces, TradeFrame, ZenonT(30)

\* Alice pushes her refund transaction.
LEMMA MwRefundDeal ==
    ASSUME TypeOK, Conversation, Deal, mw_push_refund
    PROVE  Deal'
<1>1. /\ pc["mw"] = "mw_refund_push" /\ ~ack["mw"] /\ Goto("mw", "write_prv")
      /\ pc'["mw"] = "write_prv" /\ pc'["btc"] = pc["btc"]
      /\ pub'["btc"] = pub["btc"] /\ prv' = prv
      /\ UNCHANGED <<fileVars, session, x, btcOut, btcHeight, grinHeight>> /\ net' = net /\ ack' = ack
      /\ PushMwRefund(prv["mw"].refund_tx, prv["mw"].refund_height)
  BY Zenon DEF mw_push_refund, PushMwRefund, At, Goto, TypeOK, auxVars, commVars
<1>2. /\ pub'["mw"] = [pub["mw"] EXCEPT !.status = "FAILED"]
      /\ mwOut' = [mwOut EXCEPT !.state = "refunded"]
      /\ pub["mw"] \in PubSlate
  BY Zenon DEF mw_push_refund, PushMwRefund, TypeOK
<1>3. SameTerms(pub'["mw"], pub["mw"]) /\ pub'["mw"].status = "FAILED"
  BY <1>2, Zenon DEF SameTerms, PubSlate
<1>4. ChainsKept
  BY <1>1, KeepChains, Zenon
<1>5. mwOut'.state = "refunded"
  BY <1>2, SMTT(30)
<1>6. pc["mw"] \in RefundSteps("mw")
  BY <1>1, TradePlaces, Zenon
<1>7. MwDeal(pub["mw"], prv["mw"])'
  <2>1. MwDeal(pub["mw"], prv["mw"])
    BY <1>6, TradeTerms, Zenon
  <2> QED
    BY <1>1, <1>3, <1>4, <1>5, <2>1, Zenon DEF MwDeal, Locked, ChainsKept, SameTerms
<1>8. \A q \in Party : Filed(q) /\ Filed(q)'
  BY <1>1, <1>6, TradeTerms, Zenon DEF Filed, fileVars
<1>9. grinHeight > pubFile["mw"].mw_lock_time /\ btcHeight > pubFile["mw"].btc_lock_time
  BY <1>1, <1>6, TradeTerms, ZenonT(30) DEF SameTerms, Deal, Outcome, can_refund
<1>10. Outcome'
  <2>1. (pc["btc"] = "btc_refund_push" => can_refund("btc"))'
    BY <1>1, Zenon DEF Deal, Outcome, can_refund
  <2>2. HasAck("btc")' <=> HasAck("btc")
    BY <1>1, SameQueue, ZenonT(30)
  <2>3. "write_prv" \notin MwExecSteps
    BY OtherPlaces, ZenonT(30)
  <2> QED
    BY <1>1, <1>5, <1>8, <1>9, <2>1, <2>2, <2>3, ZenonT(30) DEF Deal, Outcome, fileVars
<1> QED
  BY <1>1, <1>3, <1>4, <1>6, <1>7, <1>10, OtherPlaces, TradeFrame, Zenon

\* Bob sends his refund transaction.
LEMMA BtcRefundDeal ==
    ASSUME TypeOK, Conversation, Deal, btc_send_refund
    PROVE  Deal'
<1>1. /\ pc["btc"] = "btc_refund_push" /\ ~ack["btc"] /\ Goto("btc", "write_prv")
      /\ pc'["btc"] = "write_prv" /\ pc'["mw"] = pc["mw"]
      /\ pub'["mw"] = pub["mw"] /\ prv'["mw"] = prv["mw"]
      /\ UNCHANGED <<fileVars, session, x, mwOut, btcHeight, grinHeight>> /\ net' = net /\ ack' = ack
      /\ SendBtcRefund(prv["btc"].sk, pub["btc"].btc_lock_time)
  BY Zenon DEF btc_send_refund, SendBtcRefund, At, Goto, TypeOK, auxVars, commVars
<1>2. /\ pub'["btc"] = [pub["btc"] EXCEPT !.status = "FAILED"]
      /\ prv'["btc"] = [prv["btc"] EXCEPT !.coins = prv["btc"].coins \cup {"refunded"}]
      /\ btcOut' = [btcOut EXCEPT !.state = "refunded"]
      /\ pub["btc"] \in PubSlate /\ prv["btc"] \in PrvSlate
  BY Zenon DEF btc_send_refund, SendBtcRefund, AddCoin, TypeOK
<1>3. SameTerms(pub'["btc"], pub["btc"]) /\ pub'["btc"].status = "FAILED"
  BY <1>2, SMTT(30) DEF SameTerms
<1>4. /\ prv'["btc"].sk = prv["btc"].sk /\ prv'["btc"].lock = prv["btc"].lock
      /\ prv'["btc"].shared_coin = prv["btc"].shared_coin /\ prv'["btc"].x = prv["btc"].x
      /\ prv'["btc"].coins = prv["btc"].coins \cup {"refunded"}
  BY <1>2, SMTT(30)
<1>5. ChainsKept
  BY <1>1, KeepChains, Zenon
<1>6. btcOut'.state = "refunded"
  BY <1>2, SMTT(30)
<1>7. pc["btc"] \in RefundSteps("btc")
  BY <1>1, TradePlaces, Zenon
<1>8. BtcDeal(pub["btc"], prv["btc"])'
  <2>1. BtcDeal(pub["btc"], prv["btc"])
    BY <1>7, TradeTerms, ZenonT(30)
  <2> QED
    BY <1>1, <1>3, <1>4, <1>5, <1>6, <2>1, Zenon DEF BtcDeal, Locked, ChainsKept, SameTerms
<1>9. \A q \in Party : Filed(q) /\ Filed(q)'
  BY <1>1, <1>7, TradeTerms, Zenon DEF Filed, fileVars
<1>10. grinHeight > pubFile["btc"].mw_lock_time /\ btcHeight > pubFile["btc"].btc_lock_time
  BY <1>1, <1>7, TradeTerms, ZenonT(30) DEF SameTerms, Deal, Outcome, can_refund
<1>11. Outcome'
  <2>1. (pc["mw"] = "mw_refund_push" => can_refund("mw"))'
    BY <1>1, Zenon DEF Deal, Outcome, can_refund
  <2> QED
    BY <1>1, <1>9, <1>10, <2>1, ZenonT(30) DEF Deal, Outcome, fileVars
<1>12. pc'["mw"] = "mw_ctr_final" /\ HasLine("mw")' => LineTo("mw")'.val = session
  BY <1>1, SameQueue, Zenon DEF Deal, LineValues
<1> QED
  BY <1>1, <1>3, <1>5, <1>7, <1>8, <1>11, <1>12, OtherPlaces, TradeFrame, Zenon

-----------------------------------------------------------------------------
(* Writing the public file, reading an ACK, and blocks.                    *)

\* main() writes the public file, which makes the slate the party's own.
LEMMA WritePubDeal ==
    ASSUME TypeOK, Conversation, Deal, NEW p \in Party, WritePub(p)
    PROVE  Deal'
<1>1. /\ pc[p] = "write_pub" /\ pc'[p] = "idle" /\ pc'[Peer(p)] = pc[Peer(p)]
      /\ pub' = pub /\ prv' = prv /\ prvFile' = prvFile /\ net' = net /\ ack' = ack
      /\ pubFile'[p] = pub[p] /\ pubFile'[Peer(p)] = pubFile[Peer(p)]
      /\ UNCHANGED <<session, x, btcOut, mwOut, btcHeight, grinHeight>>
  BY Zenon DEF WritePub, At, Goto, TypeOK, chainVars, auxVars, slateVars, commVars
<1>2. ChainsKept
  BY <1>1, KeepChains, Zenon
<1>3. /\ \A q \in Party : (HasLine(q)' <=> HasLine(q)) /\ (HasAck(q)' <=> HasAck(q)) /\ LineTo(q)' = LineTo(q)
      /\ ~HasLine(p) /\ ~HasAck(p)
  <2>1. \A q \in Party : (HasLine(q)' <=> HasLine(q)) /\ (HasAck(q)' <=> HasAck(q)) /\ LineTo(q)' = LineTo(q)
    BY <1>1, SameQueue, Zenon
  <2>2. ~HasLine(p) /\ ~HasAck(p)
    BY <1>1, Zenon DEF Conversation, Turns, OutSteps
  <2> QED
    BY <2>1, <2>2, Zenon
<1>4. /\ pub[p].status \in {"SETUP", "FINISHED", "FAILED"} /\ prv[p] = prvFile[p]
      /\ Filed(p) => SameTerms(pub[p], pubFile[p])
  BY <1>1, Zenon DEF Deal, FilesOf
<1>5. /\ Filed(p)' /\ (Filed(Peer(p))' <=> Filed(Peer(p)))
      /\ Set(p)' /\ Set(p) /\ (Set(Peer(p))' <=> Set(Peer(p)))
      /\ Dated(p)' /\ Dated(p) /\ (Dated(Peer(p))' <=> Dated(Peer(p)))
      /\ Locked' <=> Locked
  BY <1>1, <1>4, Zenon DEF Filed, Set, Dated, Locked
<1>6. MwMemory' /\ (p = "mw" => MwDeal(pub["mw"], prv["mw"])')
  <2>1. CASE p = "mw"
    <3>1. MwDeal(pub["mw"], prv["mw"])'
      BY <1>1, <1>2, <1>5, <2>1, KeepDeals, ZenonT(30) DEF Deal, MwMemory
    <3> QED
      BY <1>1, <2>1, <3>1, OtherPlaces, MwPlaces, Zenon DEF MwMemory
  <2>2. CASE p = "btc"
    <3>1. pc["mw"] \in MwTimed => LockedAt(pub["mw"].btc_lock_time)'
      BY <1>1, Zenon DEF Deal, MwMemory, LockedAt
    <3> QED
      BY <1>1, <1>2, <2>2, <3>1, KeepMwMemory, ZenonT(30) DEF Deal
  <2> QED
    BY <2>1, <2>2, Zenon
<1>7. BtcMemory' /\ (p = "btc" => BtcDeal(pub["btc"], prv["btc"])')
  <2>1. CASE p = "btc"
    <3>1. BtcDeal(pub["btc"], prv["btc"])'
      BY <1>1, <1>2, <1>5, <2>1, KeepDeals, ZenonT(30) DEF Deal, BtcMemory
    <3> QED
      BY <1>1, <2>1, <3>1, OtherPlaces, BtcPlaces, ZenonT(30) DEF BtcMemory
  <2>2. CASE p = "mw"
    BY <1>1, <1>2, <2>2, KeepBtcMemory, Zenon DEF Deal
  <2> QED
    BY <2>1, <2>2, Zenon
<1>8. Filing'
  <2>1. CASE p = "mw"
    <3>1. Filed("btc") => BtcDeal(pubFile["btc"], prvFile["btc"])'
      BY <1>1, <2>1, ZenonT(30) DEF Deal, Filing, BtcDeal, Locked
    <3> QED
      BY <1>1, <1>4, <1>5, <1>6, <2>1, <3>1, ZenonT(30) DEF Filing
  <2>2. CASE p = "btc"
    <3>1. Filed("mw") => MwDeal(pubFile["mw"], prvFile["mw"])'
      BY <1>1, <2>2, Zenon DEF Deal, Filing, MwDeal, Locked
    <3> QED
      BY <1>1, <1>4, <1>5, <1>7, <2>2, <3>1, ZenonT(30) DEF Filing
  <2> QED
    BY <2>1, <2>2, Zenon
<1>9. FilesOf(p)'
  BY <1>1, <1>4, <1>5, OtherPlaces, ZenonT(30) DEF FilesOf, SameTerms, SendCommandSteps
<1>10. FilesOf(Peer(p))'
  BY <1>1, <1>5, KeepFilesApart, Zenon DEF Deal
<1>11. Settling'
  BY <1>1, <1>3, <1>5, OtherPlaces, ZenonT(30) DEF Deal, Settling
<1>12. "idle" \notin AskSteps
  BY Zenon DEF AskSteps
<1>13. Session'
  <2>1. p = "btc" => pc'["btc"] \notin {"btc_keys", "btc_pub_b", "btc_height", "btc_lock"}
    BY <1>1, Zenon
  <2> QED
    BY <1>1, <1>3, <1>5, <1>12, OtherPlaces, Roles, ZenonT(30) DEF Deal, Session
<1>14. LineValues'
  <2>1. (/\ pc["btc"] = "btc_keys" /\ HasLine("btc") => LineTo("btc").val = session /\ session > 0
         /\ pc["btc"] = "btc_mw_lock_time" /\ HasLine("btc") /\ Dated("mw") =>
               LineTo("btc").val = pub["mw"].mw_lock_time)'
    BY <1>1, <1>3, <1>5, ZenonT(30) DEF Deal, LineValues
  <2>2. (/\ pc["mw"] = "mw_pub_b" /\ HasLine("mw") => LineTo("mw").val = session
         /\ pc["mw"] = "mw_lock_time" /\ HasLine("mw") => LockedAt(LineTo("mw").val)
         /\ pc["mw"] = "mw_ctr_final" /\ HasLine("mw") => LineTo("mw").val = session)'
    BY <1>1, <1>3, ZenonT(30) DEF Deal, LineValues, LockedAt
  <2>3. /\ pc[Client] = "write_pub" => pc[Listener] \notin {"checksum", "ok"}
        /\ pc[Listener] = "write_pub" => pc[Client] \notin AskSteps
    BY Roles, PhasesApart, ZenonT(30) DEF Conversation, Together, AskSteps, AnswerSteps
  <2>4. (/\ pc[Listener] = "checksum" /\ HasLine(Listener) => LineTo(Listener).slate = pubFile[Client]
         /\ pc[Listener] = "ok" => pubFile[Client] = pubFile[Listener]
         /\ pc[Listener] = "command" => pub[Listener].status = "SETUP" /\ Filed(Client))'
    BY <1>1, <1>5, <2>3, Roles, ZenonT(30) DEF Deal, LineValues
  <2>5. (pc[Client] \in AskSteps /\ HasLine(Client) /\ LineTo(Client).type = "OK" =>
           /\ pubFile[Client] = pubFile[Listener]
           /\ pc[Listener] = "next_client" => pub[Listener].status \notin {"INITIALIZED", "SETUP"})'
    BY <1>1, <1>3, <2>3, Roles, ZenonT(30)
  <2> QED
    BY <2>1, <2>2, <2>4, <2>5, ZenonT(30) DEF LineValues
<1>15. Outcome'
  BY <1>1, <1>3, <1>4, <1>5, OtherPlaces, ZenonT(30) DEF Deal, Outcome, can_refund, SameTerms
<1> QED
  BY <1>6, <1>7, <1>8, <1>9, <1>10, <1>11, <1>13, <1>14, <1>15, ZenonT(30) DEF Deal

\* A process reads the ACK of its line.
LEMMA ReadAckDeal ==
    ASSUME TypeOK, Conversation, Deal, NEW p \in Party, ReadAck(p)
    PROVE  Deal'
<1>1. /\ pc' = pc /\ pub' = pub /\ prv' = prv /\ UNCHANGED fileVars
      /\ UNCHANGED <<session, x, btcOut, mwOut, btcHeight, grinHeight>>
  BY Zenon DEF ReadAck, chainVars, auxVars, slateVars
<1>2. ChainsKept
  BY <1>1, KeepChains, Zenon
<1>3. Queue(p)
  BY Zenon DEF Conversation, Turns
<1>4. /\ HasAck(p) /\ (HasLine(p)' <=> HasLine(p)) /\ (HasLine(p) => LineTo(p)' = LineTo(p))
      /\ (HasLine(Peer(p))' <=> HasLine(Peer(p))) /\ LineTo(Peer(p))' = LineTo(Peer(p))
      /\ (HasAck(Peer(p))' <=> HasAck(Peer(p))) /\ ack'[Peer(p)] = ack[Peer(p)]
  BY <1>3, AckQueue, SameQueue, Zenon
<1>5. /\ \A q \in Party : (Filed(q)' <=> Filed(q)) /\ (Set(q)' <=> Set(q)) /\ (Dated(q)' <=> Dated(q))
      /\ \A q \in Party : (HasLine(q)' <=> HasLine(q)) /\ (HasLine(q) => LineTo(q)' = LineTo(q))
      /\ Locked' <=> Locked
      /\ \A t : LockedAt(t)' <=> LockedAt(t)
  <2>1. \A q \in Party : (Filed(q)' <=> Filed(q)) /\ (Set(q)' <=> Set(q)) /\ (Dated(q)' <=> Dated(q))
    BY <1>1, Zenon DEF Filed, Set, Dated, fileVars
  <2>2. \A q \in Party : (HasLine(q)' <=> HasLine(q)) /\ (HasLine(q) => LineTo(q)' = LineTo(q))
    BY <1>4, Zenon
  <2>3. (Locked' <=> Locked) /\ \A t : LockedAt(t)' <=> LockedAt(t)
    BY <1>1, Zenon DEF Locked, LockedAt
  <2> QED
    BY <2>1, <2>2, <2>3, Zenon
<1>6. MwMemory' /\ BtcMemory' /\ Filing'
  <2>1. pc["mw"] \in MwTimed => LockedAt(pub["mw"].btc_lock_time)'
    BY <1>1, Zenon DEF Deal, MwMemory, LockedAt
  <2>2. MwMemory'
    BY <1>1, <1>2, <2>1, KeepMwMemory, Zenon DEF Deal, fileVars
  <2>3. BtcMemory'
    BY <1>1, <1>2, KeepBtcMemory, Zenon DEF Deal, fileVars
  <2>4. Filing'
    BY <1>1, <1>2, KeepDeals, Zenon DEF Deal
  <2> QED
    BY <2>2, <2>3, <2>4, Zenon
<1>7. \A q \in Party : FilesOf(q)'
  BY <1>1, KeepFiles, Zenon DEF Deal
<1>8. Settling' /\ Session'
  BY <1>1, <1>5, Roles, ZenonT(30) DEF Deal, Settling, Session
<1>9. LineValues'
  <2>1. LineValues /\ pc' = pc /\ session' = session /\ pub' = pub /\ pubFile' = pubFile
    BY <1>1, Zenon DEF Deal, fileVars
  <2> QED
    BY <1>5, <2>1, KeepLineValues, Zenon
<1>10. Outcome'
  <2>1. (ack["btc"] => HasAck("btc"))' => (ack["btc"] => HasAck("btc"))
    BY <1>4, Zenon
  <2> QED
    BY <1>1, <1>5, <2>1, ZenonT(30) DEF Deal, Outcome, can_refund, fileVars
<1> QED
  BY <1>6, <1>7, <1>8, <1>9, <1>10, Zenon DEF Deal

\* A block is mined: what has matured stays mature.
LEMMA MineDeal ==
    ASSUME TypeOK, Conversation, Deal, Mine
    PROVE  Deal'
<1>1. pc' = pc /\ pub' = pub /\ prv' = prv /\ UNCHANGED <<fileVars, commVars, session, x>>
  BY Zenon DEF Mine, auxVars, slateVars
<1>2. ChainsKept
  BY KeepChains, Zenon DEF Mine
<1>3. /\ btcHeight' \in Nat /\ grinHeight' \in Nat /\ btcHeight' >= btcHeight /\ grinHeight' >= grinHeight
      /\ mwOut' = mwOut /\ btcOut'.keys = btcOut.keys /\ btcOut'.lock_time = btcOut.lock_time
      /\ (btcOut'.state = "none" <=> btcOut.state = "none")
      /\ (btcOut'.state = "refunded" <=> btcOut.state = "refunded")
  <2>1. CASE MineGrin
    BY <2>1, SMTT(30) DEF MineGrin, TypeOK
  <2>2. CASE MineBtc
    <3>1. btcOut' = btcOut \/ (btcOut.state = "mempool" /\ btcOut' = [btcOut EXCEPT !.state = "mined"])
      BY <2>2, Zenon DEF MineBtc
    <3>2. /\ btcOut'.keys = btcOut.keys /\ btcOut'.lock_time = btcOut.lock_time
          /\ (btcOut'.state = "none" <=> btcOut.state = "none")
          /\ (btcOut'.state = "refunded" <=> btcOut.state = "refunded")
      BY <3>1, Zenon DEF TypeOK
    <3>3. btcHeight' = btcHeight + 1 /\ grinHeight' = grinHeight /\ mwOut' = mwOut
      BY <2>2, Zenon DEF MineBtc
    <3> QED
      BY <3>2, <3>3, SMTT(30) DEF TypeOK
  <2> QED
    BY <2>1, <2>2, Zenon DEF Mine
<1>4. /\ \A q \in Party : (Filed(q)' <=> Filed(q)) /\ (Set(q)' <=> Set(q)) /\ (Dated(q)' <=> Dated(q))
      /\ \A q \in Party : (HasLine(q)' <=> HasLine(q)) /\ LineTo(q)' = LineTo(q) /\ (HasAck(q)' <=> HasAck(q))
      /\ Locked' <=> Locked
  BY <1>1, <1>3, SameQueue, Zenon DEF Filed, Set, Dated, Locked, fileVars, commVars
<1>5. MwMemory' /\ BtcMemory' /\ Filing'
  <2>1. pc["mw"] \in MwTimed => LockedAt(pub["mw"].btc_lock_time)'
    BY <1>1, <1>3, Zenon DEF Deal, MwMemory, LockedAt
  <2>2. MwMemory'
    BY <1>1, <1>2, <2>1, KeepMwMemory, Zenon DEF Deal, fileVars
  <2>3. BtcMemory'
    BY <1>1, <1>2, KeepBtcMemory, Zenon DEF Deal, fileVars
  <2>4. Filing'
    BY <1>1, <1>2, KeepDeals, Zenon DEF Deal
  <2> QED
    BY <2>2, <2>3, <2>4, Zenon
<1>6. \A q \in Party : FilesOf(q)'
  BY <1>1, KeepFiles, Zenon DEF Deal
<1>7. Settling' /\ Session'
  BY <1>1, <1>3, <1>4, Roles, ZenonT(30) DEF Deal, Settling, Session
<1>8. LineValues'
  <2>1. LineValues /\ pc' = pc /\ session' = session /\ pub' = pub /\ pubFile' = pubFile
    BY <1>1, Zenon DEF Deal, fileVars
  <2>2. \A t : LockedAt(t)' <=> LockedAt(t)
    BY <1>1, <1>3, Zenon DEF LockedAt
  <2> QED
    BY <1>4, <2>1, <2>2, KeepLineValues, Zenon
<1>9. Outcome'
  <2>1. \A n \in Nat : (grinHeight > n => grinHeight' > n) /\ (btcHeight > n => btcHeight' > n)
    BY <1>3, SMTT(30) DEF TypeOK
  <2>2. \A q \in Party : /\ pub[q].mw_lock_time \in Nat /\ pub[q].btc_lock_time \in Nat
                         /\ pubFile[q].mw_lock_time \in Nat /\ pubFile[q].btc_lock_time \in Nat
    <3>1. \A q \in Party : pub[q] \in PubSlate /\ pubFile[q] \in PubSlate
      BY Zenon DEF TypeOK
    <3>2. \A r \in PubSlate : r.mw_lock_time \in Nat /\ r.btc_lock_time \in Nat
      BY Zenon DEF PubSlate
    <3> QED
      BY <3>1, <3>2, Zenon
  <2>3. \A q \in Party : can_refund(q) => can_refund(q)'
    BY <1>1, <2>1, <2>2, Zenon DEF can_refund
  <2>4. \A q \in Party :
           grinHeight > pubFile[q].mw_lock_time /\ btcHeight > pubFile[q].btc_lock_time =>
             grinHeight' > pubFile'[q].mw_lock_time /\ btcHeight' > pubFile'[q].btc_lock_time
    BY <1>1, <2>1, <2>2, Zenon DEF fileVars
  <2> QED
    BY <1>1, <1>3, <1>4, <2>3, <2>4, ZenonT(30) DEF Deal, Outcome, commVars
<1> QED
  BY <1>5, <1>6, <1>7, <1>8, <1>9, Zenon DEF Deal
=============================================================================
