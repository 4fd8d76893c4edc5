------------------------ MODULE SwapHandshake_proofs -------------------------
(***************************************************************************)
(* The commands of the users and the handshake of listener and client      *)
(* preserve Deal.                                                          *)
(***************************************************************************)
EXTENDS SwapMwLock_proofs

USE DEF Party, Peer

-----------------------------------------------------------------------------
(* The handshake.                                                          *)

\* p goes from a place of the handshake to another one or to the first step of a phase.
HandshakeMove(p) ==
    /\ pc[p] \in HandshakeSteps(p) \cup {"idle"}
    /\ pc'[p] \in HandshakeSteps(p) \cup {"idle", "err", FirstLockStep(p), FirstExecStep(p), FirstRefundStep(p)}
\* What has to be known before a phase starts.
LockStarts(p) == session > 0 /\ ~Set("mw") /\ ~Set("btc") /\ ~Locked
TradeStarts(p) == pub[p].status = "SETUP" /\ Filed("mw") /\ Filed("btc")

\* A step of the handshake: where the parties go, which lines stay, what the answers tell.
Moves ==
    /\ \A p \in Party : pc'[p] = pc[p] \/ HandshakeMove(p)
    /\ \A p \in Party : pc'[p] = FirstLockStep(p) /\ pc'[p] # pc[p] => LockStarts(p)
    /\ \A p \in Party :
           pc'[p] # pc[p] /\ pc'[p] \in {FirstExecStep(p), FirstRefundStep(p), "command"} \cup SendCommandSteps
               => TradeStarts(p)
LinesStay ==
    /\ \A p \in Party : pc'[p] \in TalkSteps(p) /\ HasLine(p)' =>
                          pc'[p] = pc[p] /\ HasLine(p) /\ LineTo(p)' = LineTo(p)
    /\ pc["btc"] = "btc_contract" => ack'["btc"] = ack["btc"] /\ (HasAck("btc")' <=> HasAck("btc"))
    /\ pc["mw"] = "mw_ref_final" /\ HasLine("mw") => HasLine("mw")'
ListenerTold ==
    /\ pc[Listener] = "checksum" /\ HasLine(Listener) => LineTo(Listener).slate = pubFile[Client]
    /\ pc[Listener] = "ok" => pubFile[Client] = pubFile[Listener]
    /\ pc[Listener] = "command" => pub[Listener].status = "SETUP" /\ Filed(Client)
ClientTold ==
    pc[Client] \in AskSteps /\ HasLine(Client) /\ LineTo(Client).type = "OK" =>
        /\ pubFile[Client] = pubFile[Listener]
        /\ pc[Listener] = "next_client" => pub[Listener].status \notin {"INITIALIZED", "SETUP"}
        /\ ~Filed(Client) => session > 0 /\ ~Locked

\* Such a step changes no slate, and a phase starts only on the terms it needs.
LEMMA HandshakeStepDeal ==
    ASSUME TypeOK, Deal, pub' = pub, prv' = prv, Quiet, Moves, LinesStay, ListenerTold', ClientTold'
    PROVE  Deal'
<1>1. ChainsKept
  BY KeepChains, Zenon DEF Quiet
<1>2. /\ \A q \in Party : (Filed(q)' <=> Filed(q))
      /\ Locked' <=> Locked
  BY Zenon DEF Filed, Locked, fileVars, Quiet
<1>3. \A q \in Party : (Set(q)' <=> Set(q)) /\ (Dated(q)' <=> Dated(q))
  BY <1>2, HandshakePlaces, Zenon DEF Set, Dated, Moves, HandshakeMove
<1>4. \A q \in Party : pc'[q] \in LockSteps(q) \cup ExecSteps(q) \cup RefundSteps(q) =>
                         pc'[q] = pc[q] \/ pc'[q] \in {FirstLockStep(q), FirstExecStep(q), FirstRefundStep(q)}
  BY HandshakePlaces, Zenon DEF Moves, HandshakeMove
<1>5. /\ pc'["mw"] \in MwLockSteps => pc'["mw"] = pc["mw"] \/ pc'["mw"] = "mw_keys"
      /\ pc'["btc"] \in BtcLockSteps => pc'["btc"] = pc["btc"] \/ pc'["btc"] = "btc_keys"
      /\ pc'["mw"] \in MwExecSteps => pc'["mw"] = pc["mw"] \/ pc'["mw"] = "mw_exec"
      /\ pc'["btc"] \in BtcExecSteps => pc'["btc"] = pc["btc"] \/ pc'["btc"] = "btc_exec"
      /\ pc'["mw"] = "mw_refund_push" => pc["mw"] = "mw_refund_push"
      /\ pc'["btc"] = "btc_refund_push" => pc["btc"] = "btc_refund_push"
  <2>1. /\ \A l \in {FirstExecStep("mw"), FirstRefundStep("mw")} : l \notin MwLockSteps
        /\ \A l \in {FirstExecStep("btc"), FirstRefundStep("btc")} : l \notin BtcLockSteps
        /\ \A l \in {FirstLockStep("mw"), FirstRefundStep("mw")} : l \notin MwExecSteps
        /\ \A l \in {FirstLockStep("btc"), FirstRefundStep("btc")} : l \notin BtcExecSteps
    BY MwPlaces, BtcPlaces, PhasesApart, SMTT(30)
  <2> QED
    BY <1>4, <2>1, MwPlaces, BtcPlaces, ZenonT(30)
<1>6. MwMemory'
  <2>1. CASE pc'["mw"] = pc["mw"]
    <3>1. pc["mw"] \in MwTimed => \A t : t = pub["mw"].btc_lock_time => LockedAt(t)'
      BY <1>5, BtcPlaces, BtcOrder, ZenonT(30) DEF Deal, MwMemory, LockedAt, Quiet
    <3>2. pc["mw"] \in MwTimed => LockedAt(pub["mw"].btc_lock_time)'
      BY <3>1, Zenon DEF LockedAt
    <3> QED
      BY <1>1, <2>1, <3>2, KeepMwMemory, Zenon DEF Deal, Quiet, fileVars
  <2>2. CASE pc'["mw"] # pc["mw"]
    <3>1. pc'["mw"] \notin MwKeyed
      BY <1>5, <2>2, MwPlaces, Zenon
    <3>2. (Set("mw") => MwDeal(pub["mw"], prv["mw"]))'
      BY <1>1, <1>3, KeepDeals, Zenon DEF Deal, MwMemory, Quiet
    <3>3. /\ pc'["mw"] \notin MwMet /\ pc'["mw"] \notin MwTimed /\ pc'["mw"] \notin MwVerified
          /\ pc'["mw"] \notin MwShared /\ pc'["mw"] # "mw_fund"
      BY <3>1, MwPlaces, Zenon
    <3> QED
      BY <3>1, <3>2, <3>3, Zenon DEF MwMemory
  <2> QED
    BY <2>1, <2>2, Zenon
<1>7. BtcMemory'
  <2>1. CASE pc'["btc"] = pc["btc"]
    BY <1>1, <2>1, KeepBtcMemory, Zenon DEF Deal, Quiet, fileVars
  <2>2. CASE pc'["btc"] # pc["btc"]
    <3>1. pc'["btc"] \notin BtcKeyed
      BY <1>5, <2>2, BtcPlaces, Zenon
    <3>2. (Set("btc") => BtcDeal(pub["btc"], prv["btc"]))'
      BY <1>1, <1>3, KeepDeals, Zenon DEF Deal, BtcMemory, Quiet
    <3>3. pc'["btc"] \notin BtcLocked /\ pc'["btc"] \notin BtcNamed /\ pc'["btc"] \notin BtcShared
      BY <3>1, BtcPlaces, Zenon
    <3> QED
      BY <3>1, <3>2, <3>3, Zenon DEF BtcMemory
  <2> QED
    BY <2>1, <2>2, Zenon
<1>8. Filing'
  <2>1. Filing /\ session' = session /\ UNCHANGED fileVars
    BY Zenon DEF Deal, Quiet
  <2> QED
    BY <1>1, <2>1, KeepDeals, Zenon
<1>9. ASSUME NEW p \in Party
      PROVE  FilesOf(p)'
  <2>1. CASE pc'[p] = pc[p]
    BY <2>1, KeepFiles, Zenon DEF Deal, Quiet
  <2>2. CASE pc'[p] # pc[p]
    <3>1. HandshakeMove(p) /\ pub[p] = pubFile[p] /\ prv[p] = prvFile[p]
      <4>1. HandshakeMove(p)
        BY <2>2, Zenon DEF Moves
      <4> QED
        BY <4>1, Zenon DEF Deal, FilesOf, HandshakeMove
    <3>2. pc'[p] \in LockSteps(p) => ~Filed(p)'
      BY <1>2, <1>4, <2>2, PhasesApart, ZenonT(30) DEF Moves, LockStarts, Set
    <3>3. pc'[p] \in ExecSteps(p) \cup RefundSteps(p) \cup SendCommandSteps \cup {"command"} =>
            pub[p].status = "SETUP" /\ Filed("mw")' /\ Filed("btc")'
      <4>1. pc'[p] \in ExecSteps(p) \cup RefundSteps(p) => pc'[p] \in {FirstExecStep(p), FirstRefundStep(p)}
        BY <1>4, <2>2, PhasesApart, Zenon
      <4> QED
        BY <1>2, <2>2, <4>1, Zenon DEF Moves, TradeStarts
    <3>4. pc'[p] \notin {"write_prv", "write_pub"}
      BY <3>1, HandshakePlaces, Zenon DEF HandshakeMove
    <3>5. pub[p].status # "EXECUTING"
      BY <3>1, Zenon DEF Deal, FilesOf, Quiet
    <3> QED
      BY <3>1, <3>2, <3>3, <3>4, <3>5, Zenon DEF FilesOf, SameTerms, fileVars, Quiet
  <2> QED
    BY <2>1, <2>2, Zenon
<1>10. Settling'
  <2>1. (pc["btc"] \in BtcLockSteps => ~Set("mw"))'
    BY <1>3, <1>5, BtcPlaces, Zenon DEF Deal, Settling, Moves, LockStarts
  <2>2. (pc["mw"] \in MwLockSteps /\ Set("btc") =>
           pc["mw"] = "mw_fund" \/ (pc["mw"] = "mw_ref_final" /\ HasLine("mw")))'
    <3>1. CASE pc'["mw"] = pc["mw"] /\ pc["mw"] \in MwLockSteps /\ Set("btc")
      <4>1. pc["mw"] = "mw_ref_final" => HasLine("mw")
        BY <3>1, Zenon DEF Deal, Settling
      <4>2. pc["mw"] = "mw_ref_final" => HasLine("mw")'
        BY <4>1, Zenon DEF LinesStay
      <4> QED
        BY <3>1, <4>2, Zenon DEF Deal, Settling
    <3> QED
      BY <1>3, <1>5, <3>1, MwPlaces, Zenon DEF Moves, LockStarts
  <2> QED
    BY <1>3, <2>1, <2>2, Zenon DEF Deal, Settling
<1>11. Session'
  <2>1. (pc["btc"] \in {"btc_keys", "btc_pub_b", "btc_height", "btc_lock"} => ~Locked)'
    BY <1>2, <1>5, BtcPlaces, BtcOrder, Zenon DEF Deal, Session, Moves, LockStarts
  <2>2. (\A p \in Party : pc[p] = FirstLockStep(p) => session > 0)'
    BY Zenon DEF Deal, Session, Moves, LockStarts, Quiet
  <2> QED
    BY <2>1, <2>2, Zenon DEF Deal, Session, ClientTold, Quiet
<1>12. LineValues'
  <2>1. (/\ pc["btc"] = "btc_keys" /\ HasLine("btc") => LineTo("btc").val = session /\ session > 0
         /\ pc["btc"] = "btc_mw_lock_time" /\ HasLine("btc") /\ Dated("mw") =>
               LineTo("btc").val = pub["mw"].mw_lock_time)'
    BY <1>3, BtcPlaces, PhasesApart, ZenonT(30) DEF Deal, LineValues, LinesStay, Quiet
  <2>2. /\ "mw_pub_b" \in TalkSteps("mw") /\ "mw_lock_time" \in TalkSteps("mw") /\ "mw_ctr_final" \in TalkSteps("mw")
    BY MwPlaces, MwOrder, PhasesApart, ZenonT(30) DEF MwExecSteps
  <2>3. (/\ pc["mw"] = "mw_pub_b" /\ HasLine("mw") => LineTo("mw").val = session
         /\ pc["mw"] = "mw_ctr_final" /\ HasLine("mw") => LineTo("mw").val = session)'
    BY <2>2, Zenon DEF Deal, LineValues, LinesStay, Quiet
  <2>4. (pc["mw"] = "mw_lock_time" /\ HasLine("mw") => LockedAt(LineTo("mw").val))'
    <3>1. \A t : LockedAt(t) => LockedAt(t)'
      BY <1>5, BtcPlaces, BtcOrder, Zenon DEF LockedAt, Quiet
    <3>2. pc'["mw"] = "mw_lock_time" /\ HasLine("mw")' => LockedAt(LineTo("mw").val) /\ LineTo("mw")' = LineTo("mw")
      BY <2>2, Zenon DEF Deal, LineValues, LinesStay
    <3>3. \A t : pc'["mw"] = "mw_lock_time" /\ HasLine("mw")' /\ t = LineTo("mw").val => LockedAt(t)'
      BY <3>1, <3>2, Zenon
    <3> QED
      BY <3>2, <3>3, Zenon DEF LockedAt
  <2> QED
    BY <2>1, <2>3, <2>4, Zenon DEF LineValues, ListenerTold, ClientTold
<1>13. Outcome'
  <2>1. pc'["btc"] = "btc_contract" => pc["btc"] = "btc_contract"
    BY <1>5, Zenon DEF BtcExecSteps, Quiet
  <2> QED
    BY <1>2, <1>5, <2>1, Zenon DEF Deal, Outcome, can_refund, LinesStay, fileVars, Quiet
<1> QED
  BY <1>6, <1>7, <1>8, <1>9, <1>10, <1>11, <1>12, <1>13, Zenon DEF Deal

\* The same, spelled out.
LEMMA HandshakeFrame ==
    ASSUME TypeOK, Deal, pub' = pub, prv' = prv, Quiet,
           \A p \in Party : pc'[p] = pc[p] \/ HandshakeMove(p),
           \A p \in Party : pc'[p] = FirstLockStep(p) /\ pc'[p] # pc[p] => LockStarts(p),
           \A p \in Party :
               pc'[p] # pc[p] /\ pc'[p] \in {FirstExecStep(p), FirstRefundStep(p), "command"} \cup SendCommandSteps
                   => TradeStarts(p),
           \A p \in Party : pc'[p] \in TalkSteps(p) /\ HasLine(p)' =>
                              pc'[p] = pc[p] /\ HasLine(p) /\ LineTo(p)' = LineTo(p),
           pc["btc"] = "btc_contract" => ack'["btc"] = ack["btc"] /\ (HasAck("btc")' <=> HasAck("btc")),
           pc["mw"] = "mw_ref_final" /\ HasLine("mw") => HasLine("mw")',
           (/\ pc[Listener] = "checksum" /\ HasLine(Listener) => LineTo(Listener).slate = pubFile[Client]
            /\ pc[Listener] = "ok" => pubFile[Client] = pubFile[Listener]
            /\ pc[Listener] = "command" => pub[Listener].status = "SETUP" /\ Filed(Client))',
           (pc[Client] \in AskSteps /\ HasLine(Client) /\ LineTo(Client).type = "OK" =>
              /\ pubFile[Client] = pubFile[Listener]
              /\ pc[Listener] = "next_client" => pub[Listener].status \notin {"INITIALIZED", "SETUP"}
              /\ ~Filed(Client) => session > 0 /\ ~Locked)'
    PROVE  Deal'
<1>1. Moves
  BY Zenon DEF Moves
<1>2. LinesStay
  BY Zenon DEF LinesStay
<1>3. ListenerTold'
  BY Zenon DEF ListenerTold
<1>4. ClientTold'
  BY Zenon DEF ClientTold
<1> QED
  BY <1>1, <1>2, <1>3, <1>4, HandshakeStepDeal, ZenonT(30)

\* Where the other side can be during the handshake.
LEMMA HandshakePeer ==
    ASSUME Conversation
    PROVE  /\ pc[Listener] \in AnswerSteps => pc[Client] \in AskSteps \cup {"idle"}
           /\ pc[Listener] = "next_client" => pc[Client] \in AskSteps \cup {"err", "idle"}
           /\ pc[Listener] = "command" =>
                pc[Client] \in AskSteps \cup SendCommandSteps \cup ExecSteps(Client) \cup RefundSteps(Client)
                                 \cup {"err", "idle"}
           /\ pc[Client] \in AskSteps =>
                pc[Listener] \in AnswerSteps \cup {"idle", "accept", "next_client", "command", FirstLockStep(Listener)}
           /\ pc[Client] \in SendCommandSteps => pc[Listener] \in {"idle", "accept", "command"}
<1>1. \A l \in AnswerSteps \cup {"next_client", "command"} :
        /\ l \notin LockSteps(Listener) /\ l \notin ExecSteps(Listener) /\ l \notin RefundSteps(Listener)
        /\ l \notin {"idle", "accept", "err", "write_prv", "write_pub"} /\ l # FirstLockStep(Listener)
  BY OtherPlaces, Roles, Zenon DEF AnswerSteps
<1>2. \A l \in AskSteps \cup SendCommandSteps :
        /\ l \notin LockSteps(Client) /\ l \notin ExecSteps(Client) /\ l \notin RefundSteps(Client)
        /\ l \notin {"idle", "err", "write_prv", "write_pub"} /\ l \notin TalkSteps(Client)
  BY Roles, PhasesApart, Zenon DEF AskSteps, SendCommandSteps
<1>3. "next_client" \notin AnswerSteps /\ "command" \notin AnswerSteps
  BY Zenon DEF AnswerSteps
<1>4. \A l \in SendCommandSteps : l \notin AskSteps
  BY Zenon DEF SendCommandSteps, AskSteps
<1> QED
  BY <1>1, <1>2, <1>3, <1>4, Zenon DEF Conversation, Together

\* The listener starts, and a client connects.
LEMMA UserDeal ==
    ASSUME TypeOK, Conversation, Deal, UserStep
    PROVE  Deal'
<1>1. CASE Listen
  <2>1. /\ pc[Listener] = "idle" /\ pc'[Listener] = "accept" /\ pc'[Client] = pc[Client]
        /\ Quiet /\ UNCHANGED commVars
    BY <1>1, Roles, Zenon DEF Listen, Goto, TypeOK, Quiet, chainVars, auxVars
  <2>2. pub[Listener] = pubFile[Listener] /\ prv[Listener] = prvFile[Listener]
    BY <2>1, Roles, Zenon DEF Deal, FilesOf
  <2>3. pub' = pub /\ prv' = prv
    BY <1>1, <2>2, Zenon DEF Listen, ReadSlate, TypeOK
  <2>4. \A p \in Party : (HasLine(p)' <=> HasLine(p)) /\ LineTo(p)' = LineTo(p) /\ (HasAck(p)' <=> HasAck(p))
    BY <2>1, SameQueue, Zenon DEF commVars
  <2>5. HandshakeMove(Listener)
    BY <2>1, HandshakeNames, Zenon DEF HandshakeMove
  <2>6. \A p \in Party : /\ pc'[p] # FirstLockStep(p) \/ pc'[p] = pc[p]
                         /\ pc'[p] \notin {FirstExecStep(p), FirstRefundStep(p), "command"} \cup SendCommandSteps
                              \/ pc'[p] = pc[p]
                         /\ pc'[p] \in TalkSteps(p) => pc'[p] = pc[p]
    BY <2>1, Roles, PhasesApart, ZenonT(30) DEF SendCommandSteps
  <2>7. (pc[Client] \in AskSteps /\ HasLine(Client) /\ LineTo(Client).type = "OK" =>
              /\ pubFile[Client] = pubFile[Listener]
              /\ pc[Listener] = "next_client" => pub[Listener].status \notin {"INITIALIZED", "SETUP"}
              /\ ~Filed(Client) => session > 0 /\ ~Locked)'
    BY <2>1, <2>4, Roles, Zenon DEF Deal, LineValues, Session, Quiet, Filed, Locked, fileVars
  <2> QED
    BY <2>1, <2>3, <2>4, <2>5, <2>6, <2>7, Roles, HandshakeFrame, Zenon DEF commVars
<1>2. ASSUME NEW c \in AskSteps, Command(c)
      PROVE  Deal'
  <2>1. /\ pc[Client] = "idle" /\ pc'[Client] = c /\ pc[Listener] = "accept" /\ pc'[Listener] = "checksum" /\ Quiet
    BY <1>2, Roles, Zenon DEF Command, TypeOK, Quiet, chainVars, auxVars
  <2>2. pub[Client] = pubFile[Client] /\ prv[Client] = prvFile[Client]
    BY <2>1, Roles, Zenon DEF Deal, FilesOf
  <2>3. pub' = pub /\ prv' = prv
    BY <1>2, <2>2, Zenon DEF Command, ReadSlate, TypeOK
  <2>4. HasLine(Listener)' /\ LineTo(Listener)'.slate = pubFile[Client] /\ ~HasLine(Client)'
    BY <1>2, CommandTalk, Zenon
  <2>5. HandshakeMove(Listener) /\ HandshakeMove(Client)
    BY <2>1, HandshakeNames, Zenon DEF HandshakeMove
  <2>6. \A p \in Party : /\ pc'[p] # FirstLockStep(p)
                         /\ pc'[p] \notin {FirstExecStep(p), FirstRefundStep(p), "command"} \cup SendCommandSteps
                         /\ pc'[p] \notin TalkSteps(p)
                         /\ pc[p] # "btc_contract" /\ pc[p] # "mw_ref_final"
    BY <2>1, Roles, PhasesApart, SMTT(30) DEF SendCommandSteps, AskSteps
  <2> QED
    BY <2>1, <2>3, <2>4, <2>5, <2>6, Roles, HandshakeFrame, Zenon DEF Quiet, fileVars
<1> QED
  BY <1>1, <1>2, Zenon DEF UserStep, Lock, Execute, Cancel, AskSteps

\* The listener compares the checksums: a match means that the public files are the same.
LEMMA ListenChecksumDeal ==
    ASSUME TypeOK, Conversation, Deal, ListenChecksum
    PROVE  Deal'
<1> DEFINE m == IF Head(net[Listener]).slate = pubFile[Listener] THEN "ok" ELSE "fault"
<1>1. /\ pc[Listener] = "checksum" /\ ~ack[Listener] /\ Goto(Listener, m) /\ receive_msg(Listener, "checksum")
      /\ Quiet /\ pub' = pub /\ prv' = prv
  BY Zenon DEF ListenChecksum, At, Quiet, chainVars, auxVars, slateVars
<1>2. m \in {"ok", "fault"} /\ (m = "ok" => Head(net[Listener]).slate = pubFile[Listener])
  OBVIOUS
<1> HIDE DEF m
<1>3. /\ HasLine(Listener) /\ LineTo(Listener) = Head(net[Listener]) /\ ~HasLine(Listener)'
      /\ HasLine(Client)' => HasLine(Client) /\ LineTo(Client)' = LineTo(Client)
      /\ pc'[Listener] = m /\ pc'[Client] = pc[Client]
  BY <1>1, <1>2, Roles, ReceiveHandshake, Zenon DEF OutSteps
<1>4. pc[Client] \in AskSteps \cup {"idle"}
  BY <1>1, HandshakePeer, Zenon DEF AnswerSteps
<1>5. HandshakeMove(Listener)
  BY <1>1, <1>2, <1>3, HandshakeNames, Zenon DEF HandshakeMove
<1>6. \A p \in Party : /\ pc'[p] # FirstLockStep(p)
                       /\ pc'[p] # pc[p] => pc'[p] \notin {FirstExecStep(p), FirstRefundStep(p), "command"} \cup SendCommandSteps
                       /\ pc'[p] \notin TalkSteps(p)
                       /\ pc[p] # "btc_contract" /\ pc[p] # "mw_ref_final"
  BY <1>1, <1>2, <1>3, <1>4, Roles, PhasesApart, HandshakeNames, SMTT(30)
<1>7. m = "ok" => pubFile[Client] = pubFile[Listener]
  BY <1>1, <1>2, <1>3, Zenon DEF Deal, LineValues
<1>8. (pc[Client] \in AskSteps /\ HasLine(Client) /\ LineTo(Client).type = "OK" =>
              /\ pubFile[Client] = pubFile[Listener]
              /\ pc[Listener] = "next_client" => pub[Listener].status \notin {"INITIALIZED", "SETUP"}
              /\ ~Filed(Client) => session > 0 /\ ~Locked)'
  BY <1>1, <1>2, <1>3, ZenonT(30) DEF Deal, LineValues, Session, Quiet, Filed, Locked, fileVars
<1> QED
  BY <1>1, <1>3, <1>5, <1>6, <1>7, <1>8, Roles, HandshakeFrame, Zenon DEF Quiet, fileVars

\* The listener answers without starting a session.
LEMMA ListenAnswerDeal ==
    ASSUME TypeOK, Conversation, Deal, ListenAnswer,
           pc[Listener] = "ok" => pub[Listener].status # "INITIALIZED"
    PROVE  Deal'
<1> DEFINE m == IF pc[Listener] = "ok" /\ pub[Listener].status = "SETUP" THEN "command" ELSE "next_client"
<1>1. /\ pc[Listener] \in {"ok", "fault"} /\ Quiet /\ pub' = pub /\ prv' = prv
      /\ pc'[Listener] = m
  <2>1. CASE pc[Listener] = "ok"
    BY <2>1, Roles, Zenon DEF ListenAnswer, SendStep, At, Goto, TypeOK, Quiet, chainVars, slateVars
  <2>2. CASE pc[Listener] # "ok"
    BY <2>2, Roles, Zenon DEF ListenAnswer, SendStep, At, Goto, TypeOK, Quiet, chainVars, auxVars, slateVars
  <2> QED
    BY <2>1, <2>2, Zenon
<1>2. /\ m \in {"command", "next_client"}
      /\ m = "command" => pc[Listener] = "ok" /\ pub[Listener].status = "SETUP"
      /\ m = "next_client" /\ pc[Listener] = "ok" => pub[Listener].status \notin {"INITIALIZED", "SETUP"}
  OBVIOUS
<1> HIDE DEF m
<1>3. /\ HasLine(Client)' /\ ~HasLine(Listener)' /\ pc'[Client] = pc[Client] /\ pc[Client] \in AskSteps
      /\ pc[Listener] = "fault" => LineTo(Client)'.type = "FAULT"
  BY ListenAnswerTalk, Zenon
<1>4. /\ pc[Listener] = "ok" => pubFile[Client] = pubFile[Listener]
      /\ pub[Listener] = pubFile[Listener]
  <2>1. pc[Listener] \in HandshakeSteps(Listener)
    BY <1>1, HandshakeNames, Zenon
  <2> QED
    BY <2>1, Roles, Zenon DEF Deal, LineValues, FilesOf
<1>5. pc[Listener] = "ok" => Filed(Listener) /\ Filed(Client)
  BY <1>4, Zenon DEF Filed
<1>6. HandshakeMove(Listener)
  BY <1>1, <1>2, HandshakeNames, Zenon DEF HandshakeMove
<1>7. \A p \in Party : /\ pc'[p] # FirstLockStep(p)
                       /\ pc'[p] \notin TalkSteps(p)
                       /\ pc[p] # "btc_contract" /\ pc[p] # "mw_ref_final"
  BY <1>1, <1>2, <1>3, Roles, PhasesApart, SMTT(30) DEF AskSteps
<1>8. m = "command" => TradeStarts(Listener) /\ Filed(Client)
  BY <1>2, <1>5, Roles, Zenon DEF TradeStarts
<1>9. (pc[Client] \in AskSteps /\ HasLine(Client) /\ LineTo(Client).type = "OK" =>
              /\ pubFile[Client] = pubFile[Listener]
              /\ pc[Listener] = "next_client" => pub[Listener].status \notin {"INITIALIZED", "SETUP"}
              /\ ~Filed(Client) => session > 0 /\ ~Locked)'
  BY <1>1, <1>2, <1>3, <1>4, Zenon DEF Quiet, Filed, fileVars
<1>10. \A p \in Party : pc'[p] # pc[p] => p = Listener
  BY <1>3, Roles, Zenon
<1>11. (/\ pc[Listener] = "checksum" /\ HasLine(Listener) => LineTo(Listener).slate = pubFile[Client]
        /\ pc[Listener] = "ok" => pubFile[Client] = pubFile[Listener]
        /\ pc[Listener] = "command" => pub[Listener].status = "SETUP" /\ Filed(Client))'
  BY <1>1, <1>2, <1>8, Zenon DEF Quiet, Filed, fileVars
<1>12. \A p \in Party :
         pc'[p] # pc[p] /\ pc'[p] \in {FirstExecStep(p), FirstRefundStep(p), "command"} \cup SendCommandSteps
             => TradeStarts(p)
  <2>1. "next_client" \notin {FirstExecStep(Listener), FirstRefundStep(Listener), "command"} \cup SendCommandSteps
    BY HandshakeNames, HandshakePlaces, Roles, Zenon DEF SendCommandSteps
  <2> QED
    BY <1>1, <1>2, <1>8, <1>10, <2>1, Zenon
<1> QED
  BY <1>1, <1>6, <1>7, <1>9, <1>10, <1>11, <1>12, HandshakeFrame, Zenon

\* The listener starts a session: nobody has a complete slate, and nothing carries its number yet.
LEMMA ListenStartsDeal ==
    ASSUME TypeOK, Conversation, Deal, ListenAnswer,
           pc[Listener] = "ok", pub[Listener].status = "INITIALIZED"
    PROVE  Deal'
<1>1. /\ pc'[Listener] = FirstLockStep(Listener) /\ session' = session + 1
      /\ UNCHANGED <<fileVars, x, btcOut, mwOut, btcHeight, grinHeight>> /\ pub' = pub /\ prv' = prv
  BY Roles, Zenon DEF ListenAnswer, SendStep, At, Goto, TypeOK, chainVars, slateVars
<1>2. /\ HasLine(Client)' /\ ~HasLine(Listener)' /\ pc'[Client] = pc[Client] /\ pc[Client] \in AskSteps
  BY ListenAnswerTalk, Zenon
<1>3. pubFile[Client] = pubFile[Listener] /\ pub[Listener] = pubFile[Listener] /\ prv[Listener] = prvFile[Listener]
  <2>1. pc[Listener] \in HandshakeSteps(Listener)
    BY HandshakeNames, Zenon
  <2> QED
    BY <2>1, Roles, ZenonT(30) DEF Deal, LineValues, FilesOf
<1>4. \A p \in Party : ~Filed(p) /\ ~Filed(p)'
  BY <1>1, <1>3, Roles, Zenon DEF Filed, fileVars
<1>5. \A p \in Party : pc'[p] = FirstLockStep(p) \/ pc'[p] \in AskSteps
  BY <1>1, <1>2, Roles, Zenon
<1>6. \A p \in Party : /\ pc'[p] \notin {"write_prv", "write_pub", "err", "idle", "command"}
                       /\ pc'[p] \notin SendCommandSteps /\ pc'[p] \notin ExecSteps(p) /\ pc'[p] \notin RefundSteps(p)
                       /\ pc'[p] \notin MwDated /\ pc'[p] \notin BtcDated
                       /\ pc'[p] \in LockSteps(p) => pc'[p] = FirstLockStep(p)
  BY <1>5, OtherPlaces, HandshakePlaces, PhasesApart, HandshakeNames, SMTT(30)
<1>7. \A p \in Party : ~Set(p)' /\ ~Dated(p)'
  BY <1>4, <1>6, Zenon DEF Set, Dated
<1>8. ~Locked' /\ session' > 0 /\ btcOut'.keys <= session'
  <2>1. btcOut.keys \in Nat /\ session \in Nat /\ btcOut.keys <= session
    BY Zenon DEF TypeOK, Deal, Session
  <2> QED
    BY <1>1, <2>1, SMTT(30) DEF Locked
<1>9. MwMemory' /\ BtcMemory'
  <2>1. pc'["mw"] \notin MwKeyed /\ pc'["btc"] \notin BtcKeyed
    BY <1>6, MwPlaces, BtcPlaces, Zenon
  <2> QED
    BY <1>7, <2>1, MwPlaces, BtcPlaces, Zenon DEF MwMemory, BtcMemory, MwShared
<1>10. Filing'
  BY <1>4, Zenon DEF Filing
<1>11. ASSUME NEW p \in Party
       PROVE  FilesOf(p)'
  <2>1. pub[p] = pubFile[p] /\ prv[p] = prvFile[p]
    BY <1>2, HandshakeNames, Roles, ZenonT(30) DEF Deal, FilesOf
  <2>2. pub[p].status = "INITIALIZED"
    BY <1>4, <2>1, Zenon DEF Filed
  <2> QED
    BY <1>1, <1>4, <1>6, <2>1, <2>2, Zenon DEF FilesOf, fileVars
<1>12. Settling'
  BY <1>7, Zenon DEF Settling
<1>13. Session'
  BY <1>8, Zenon DEF Session
<1>14. LineValues'
  <2>1. pc'["mw"] \in {"mw_keys"} \cup AskSteps /\ pc'["btc"] \in {"btc_keys"} \cup AskSteps
    BY <1>5, MwPlaces, BtcPlaces, Zenon
  <2>2. pc'["btc"] = "btc_keys" => ~HasLine("btc")'
    BY <1>2, Roles, Zenon DEF AskSteps
  <2>3. /\ pc'["mw"] \notin {"mw_pub_b", "mw_lock_time", "mw_ctr_final"}
        /\ pc'["btc"] # "btc_mw_lock_time"
        /\ pc'[Listener] \notin {"checksum", "ok", "command", "next_client"}
    BY <2>1, Roles, Zenon DEF AskSteps
  <2> QED
    BY <1>1, <1>3, <2>2, <2>3, Zenon DEF LineValues, fileVars
<1>15. Outcome'
  <2>1. x = 0 /\ mwOut.state # "refunded" /\ btcOut.state # "refunded"
    BY <1>4, Zenon DEF Deal, Outcome
  <2>2. pc'["mw"] \in {"mw_keys"} \cup AskSteps /\ pc'["btc"] \in {"btc_keys"} \cup AskSteps
    BY <1>5, MwPlaces, BtcPlaces, ZenonT(30)
  <2>3. pc'["mw"] \notin MwExecSteps \cup {"mw_refund_push"} /\ pc'["btc"] \notin {"btc_contract", "btc_refund_push"}
    BY <2>2, Zenon DEF AskSteps, MwExecSteps
  <2> QED
    BY <1>1, <2>1, <2>3, Zenon DEF Deal, Outcome
<1> QED
  BY <1>9, <1>10, <1>11, <1>12, <1>13, <1>14, <1>15, Zenon DEF Deal

\* The listener takes the command, or what it makes of a closed stream.
LEMMA ListenCommandDeal ==
    ASSUME TypeOK, Conversation, Deal, ListenCommand \/ ListenCommandEof
    PROVE  Deal'
<1>1. pc[Listener] = "command" /\ Quiet /\ pub' = pub /\ prv' = prv
  BY Zenon DEF ListenCommand, ListenCommandEof, ReceiveStep, At, Quiet, chainVars, auxVars, slateVars
<1>2. TradeStarts(Listener)
  <2>1. pub[Listener].status = "SETUP" /\ Filed("mw") /\ Filed("btc")
    BY <1>1, Roles, ZenonT(30) DEF Deal, LineValues, FilesOf
  <2> QED
    BY <2>1, Zenon DEF TradeStarts
<1>3. /\ pc[Client] \in AskSteps \cup SendCommandSteps \cup ExecSteps(Client) \cup RefundSteps(Client) \cup {"err", "idle"}
      /\ pc[Client] \in ExecSteps(Client) \cup RefundSteps(Client) /\ link =>
            pc[Client] \in {FirstExecStep(Client), FirstRefundStep(Client)}
  BY <1>1, HandshakePeer, Zenon DEF Conversation, Handshake
<1>4. /\ pc'[Listener] \in {FirstExecStep(Listener), FirstRefundStep(Listener)} /\ pc'[Client] = pc[Client]
      /\ HasLine(Client)' => HasLine(Client) /\ LineTo(Client)' = LineTo(Client)
      /\ ~HasLine(Listener)' /\ ack' = ack
      /\ ~link => (HasAck(Client)' <=> HasAck(Client))
  <2>1. FirstExecStep(Listener) \notin OutSteps /\ FirstRefundStep(Listener) \notin OutSteps
    BY Zenon DEF FirstExecStep, FirstRefundStep, OutSteps
  <2>2. CASE ListenCommandEof
    <3>1. UNCHANGED commVars /\ net[Listener] = <<>> /\ Goto(Listener, FirstRefundStep(Listener))
      BY <2>2, Zenon DEF ListenCommandEof
    <3> QED
      BY <3>1, Roles, SameQueue, NoQueue, Zenon DEF commVars, Goto, TypeOK
  <2>3. ASSUME NEW t \in {"EXECUTE", "CANCEL"}, NEW m \in {FirstExecStep(Listener), FirstRefundStep(Listener)},
               ReceiveStep(Listener, "command", t, m)
        PROVE  /\ pc'[Listener] = m /\ pc'[Client] = pc[Client]
               /\ HasLine(Client)' => HasLine(Client) /\ LineTo(Client)' = LineTo(Client)
               /\ ~HasLine(Listener)' /\ ack' = ack
               /\ ~link => (HasAck(Client)' <=> HasAck(Client))
    <3>1. receive_msg(Listener, t) /\ Goto(Listener, m) /\ ~ack[Listener]
      BY <2>3, Zenon DEF ReceiveStep, At
    <3>2. /\ ~HasLine(Listener)'
          /\ link => ~HasLine(Client)'
          /\ ~link => (HasLine(Client)' <=> HasLine(Client)) /\ LineTo(Client)' = LineTo(Client)
          /\ ack' = ack /\ pc'[Listener] = m /\ pc'[Client] = pc[Client]
      BY <1>1, <2>1, <3>1, Roles, ReceiveHandshake, Zenon DEF OutSteps
    <3>3. ~link => net'[Client] = net[Client]
      BY <3>1, Roles, SMTT(30) DEF receive_msg
    <3> QED
      BY <3>2, <3>3, SameQueue, Roles, Zenon
  <2> QED
    BY <2>2, <2>3, Zenon DEF ListenCommand
<1>5. HandshakeMove(Listener)
  BY <1>1, <1>4, HandshakeNames, Zenon DEF HandshakeMove
<1>6. /\ pc[Client] # "mw_ref_final" /\ pc[Listener] \notin {"mw_ref_final", "btc_contract"}
      /\ link => pc[Client] # "btc_contract"
      /\ pc'[Listener] # FirstLockStep(Listener)
      /\ pc'[Listener] \notin {"checksum", "ok", "command", "next_client"}
  <2>1. pc[Client] # "mw_ref_final"
    BY <1>3, Zenon DEF AskSteps, SendCommandSteps, ExecSteps, RefundSteps, MwExecSteps, BtcExecSteps
  <2>2. link => pc[Client] # "btc_contract"
    <3>1. "btc_contract" \in ExecSteps("btc")
      BY Zenon DEF ExecSteps, BtcExecSteps
    <3>2. "btc_contract" \notin {FirstExecStep(Client), FirstRefundStep(Client)}
      BY Zenon DEF FirstExecStep, FirstRefundStep
    <3>3. "btc_contract" \notin AskSteps \cup SendCommandSteps \cup {"err", "idle"}
      BY Zenon DEF AskSteps, SendCommandSteps
    <3> QED
      BY <1>3, <3>2, <3>3, Zenon
  <2>3. /\ pc'[Listener] # FirstLockStep(Listener)
        /\ pc'[Listener] \notin {"checksum", "ok", "command", "next_client"}
    BY <1>4, PhasesApart, Roles, SMTT(30)
  <2> QED
    BY <1>1, <2>1, <2>2, <2>3, Zenon
<1>7. (pc[Client] \in AskSteps /\ HasLine(Client) /\ LineTo(Client).type = "OK" =>
              /\ pubFile[Client] = pubFile[Listener]
              /\ pc[Listener] = "next_client" => pub[Listener].status \notin {"INITIALIZED", "SETUP"}
              /\ ~Filed(Client) => session > 0 /\ ~Locked)'
  BY <1>1, <1>4, <1>6, Zenon DEF Deal, LineValues, Quiet, Filed, fileVars
<1>8. \A p \in Party : /\ pc'[p] = pc[p] \/ (p = Listener /\ HandshakeMove(p) /\ TradeStarts(p) /\ pc'[p] # FirstLockStep(p))
                       /\ pc'[p] \in TalkSteps(p) /\ HasLine(p)' => pc'[p] = pc[p] /\ HasLine(p) /\ LineTo(p)' = LineTo(p)
  BY <1>2, <1>4, <1>5, <1>6, Roles, Zenon
<1>9. /\ pc["btc"] = "btc_contract" => ack'["btc"] = ack["btc"] /\ (HasAck("btc")' <=> HasAck("btc"))
      /\ pc["mw"] # "mw_ref_final"
  BY <1>4, <1>6, Roles, Zenon
<1>10. (/\ pc[Listener] = "checksum" /\ HasLine(Listener) => LineTo(Listener).slate = pubFile[Client]
        /\ pc[Listener] = "ok" => pubFile[Client] = pubFile[Listener]
        /\ pc[Listener] = "command" => pub[Listener].status = "SETUP" /\ Filed(Client))'
  BY <1>6, Zenon
<1> QED
  BY <1>1, <1>7, <1>8, <1>9, <1>10, HandshakeFrame, Zenon

\* The listener drops the stream.
LEMMA ListenNextClientDeal ==
    ASSUME TypeOK, Conversation, Deal, ListenNextClient
    PROVE  Deal'
<1>1. /\ pc[Listener] = "next_client" /\ pc'[Listener] = "accept" /\ pc'[Client] = pc[Client]
      /\ Quiet /\ pub' = pub /\ prv' = prv /\ ack' = ack
      /\ net'[Listener] = <<>> /\ net'[Client] = net[Client]
  BY Roles, Zenon DEF ListenNextClient, At, Goto, TypeOK, Quiet, chainVars, auxVars, slateVars
<1>2. /\ ~HasLine(Listener)' /\ (HasLine(Client)' <=> HasLine(Client)) /\ LineTo(Client)' = LineTo(Client)
      /\ (HasAck(Client)' <=> HasAck(Client))
  BY <1>1, NoQueue, SameQueue, Roles, Zenon
<1>3. HandshakeMove(Listener)
  BY <1>1, HandshakeNames, Zenon DEF HandshakeMove
<1>4. \A p \in Party : /\ pc'[p] = pc[p] \/ (p = Listener /\ HandshakeMove(p))
                       /\ pc'[p] # pc[p] => pc'[p] = "accept"
                       /\ pc'[p] \in TalkSteps(p) /\ HasLine(p)' => pc'[p] = pc[p] /\ HasLine(p) /\ LineTo(p)' = LineTo(p)
  BY <1>1, <1>2, <1>3, Roles, Zenon
<1>5. \A p \in Party : "accept" \notin {FirstLockStep(p), FirstExecStep(p), FirstRefundStep(p), "command"} \cup SendCommandSteps
  BY PhasesApart, Zenon DEF SendCommandSteps
<1>6. /\ pc["btc"] = "btc_contract" => ack'["btc"] = ack["btc"] /\ (HasAck("btc")' <=> HasAck("btc"))
      /\ pc["mw"] = "mw_ref_final" /\ HasLine("mw") => HasLine("mw")'
  BY <1>1, <1>2, Roles, Zenon
<1>7. (pc[Client] \in AskSteps /\ HasLine(Client) /\ LineTo(Client).type = "OK" =>
              /\ pubFile[Client] = pubFile[Listener]
              /\ pc[Listener] = "next_client" => pub[Listener].status \notin {"INITIALIZED", "SETUP"}
              /\ ~Filed(Client) => session > 0 /\ ~Locked)'
  BY <1>1, <1>2, Zenon DEF Deal, LineValues, Session, Quiet, Filed, Locked, fileVars
<1> QED
  BY <1>1, <1>4, <1>5, <1>6, <1>7, HandshakeFrame, Zenon

\* The client sends its command.
LEMMA ClientSendsDeal ==
    ASSUME TypeOK, Conversation, Deal, ClientSendsCommand
    PROVE  Deal'
<1>1. /\ pc[Client] \in SendCommandSteps /\ Quiet /\ pub' = pub /\ prv' = prv
  BY Zenon DEF ClientSendsCommand, SendStep, At, Quiet, chainVars, auxVars, slateVars, SendCommandSteps
<1>2. /\ pc'[Client] \in {FirstExecStep(Client), FirstRefundStep(Client)} /\ pc'[Listener] = pc[Listener]
      /\ HasLine(Listener)' /\ ~HasLine(Client)' /\ pc[Listener] \notin OutSteps
  <2>1. FirstExecStep(Client) \notin OutSteps /\ FirstRefundStep(Client) \notin OutSteps /\ pc[Client] \notin OutSteps
    BY <1>1, Zenon DEF FirstExecStep, FirstRefundStep, OutSteps, SendCommandSteps
  <2>2. ~HasLine(Client)
    BY <1>1, Zenon DEF Conversation, Handshake
  <2>3. ASSUME NEW t \in {"EXECUTE", "CANCEL"}, NEW m \in {FirstExecStep(Client), FirstRefundStep(Client)},
               SendStep(Client, pc[Client], t, 0, m)
        PROVE  /\ pc'[Client] = m /\ pc'[Listener] = pc[Listener]
               /\ HasLine(Listener)' /\ ~HasLine(Client)' /\ pc[Listener] \notin OutSteps
    <3>1. t \in LineType /\ t # "ACK"
      BY Zenon DEF LineType
    <3>2. send_msg(Client, t, 0) /\ Goto(Client, m) /\ ~ack[Client]
      BY <2>3, Zenon DEF SendStep, At
    <3> QED
      BY <2>1, <2>2, <3>1, <3>2, Roles, SendHandshake, ZenonT(30)
  <2>4. \/ SendStep(Client, pc[Client], "EXECUTE", 0, FirstExecStep(Client))
        \/ SendStep(Client, pc[Client], "CANCEL", 0, FirstRefundStep(Client))
    BY Zenon DEF ClientSendsCommand, SendStep, At
  <2> QED
    BY <2>3, <2>4, Zenon
<1>3. pc[Listener] = "command"
  BY <1>1, <1>2, HandshakePeer, Zenon DEF OutSteps
<1>4. TradeStarts(Client)
  <2>1. pub[Client].status \in {"SETUP", "EXECUTING"} /\ Filed("mw") /\ Filed("btc")
    BY <1>1, Roles, ZenonT(30) DEF Deal, FilesOf
  <2>2. pc[Client] \notin ExecSteps(Client) \cup {"err"}
    BY <1>1, Roles, HandshakeNames, HandshakePlaces, Zenon
  <2>3. pub[Client].status # "EXECUTING"
    BY <2>2, Roles, Zenon DEF Deal, FilesOf
  <2> QED
    BY <2>1, <2>3, Zenon DEF TradeStarts
<1>5. HandshakeMove(Client)
  BY <1>1, <1>2, HandshakeNames, Zenon DEF HandshakeMove
<1>6. \A p \in Party : /\ pc'[p] = pc[p] \/ (HandshakeMove(p) /\ TradeStarts(p) /\ pc'[p] # FirstLockStep(p))
                       /\ pc'[p] \in TalkSteps(p) => ~HasLine(p)'
                       /\ pc[p] # "btc_contract" /\ pc[p] # "mw_ref_final"
  BY <1>1, <1>2, <1>3, <1>4, <1>5, Roles, HandshakeNames, Zenon
<1>7. (/\ pc[Listener] = "checksum" /\ HasLine(Listener) => LineTo(Listener).slate = pubFile[Client]
       /\ pc[Listener] = "ok" => pubFile[Client] = pubFile[Listener]
       /\ pc[Listener] = "command" => pub[Listener].status = "SETUP" /\ Filed(Client))'
  BY <1>1, <1>2, <1>3, ZenonT(30) DEF Deal, LineValues, Quiet, Filed, fileVars
<1> QED
  BY <1>1, <1>2, <1>6, <1>7, HandshakeFrame, ZenonT(30)

\* What the client knows when it has read "OK".
LEMMA AnswerKnown ==
    ASSUME TypeOK, Conversation, Deal, pc[Client] \in AskSteps, HasLine(Client), LineTo(Client).type = "OK"
    PROVE  /\ pub[Client] = pubFile[Client] /\ pubFile[Client] = pubFile[Listener]
           /\ pub[Client].status = "INITIALIZED" =>
                 LockStarts(Client) /\ pc[Listener] \notin {"next_client", "command"}
           /\ pub[Client].status = "SETUP" =>
                 TradeStarts(Client) /\ pc[Listener] \notin LockSteps(Listener) \cup {"next_client"}
<1>1. /\ pub[Client] = pubFile[Client] /\ pubFile[Client] = pubFile[Listener]
      /\ pc[Listener] = "next_client" => pub[Listener].status \notin {"INITIALIZED", "SETUP"}
      /\ ~Filed(Client) => session > 0 /\ ~Locked
  BY HandshakeNames, Roles, ZenonT(30) DEF Deal, LineValues, FilesOf, Session
<1>2. pc[Listener] \in {"next_client", "command"} => pub[Listener] = pubFile[Listener]
  BY HandshakeNames, Roles, ZenonT(30) DEF Deal, FilesOf
<1>3. /\ pc[Listener] = "command" => pub[Listener].status = "SETUP"
      /\ pc[Listener] \in LockSteps(Listener) => ~Filed(Listener)
  BY Roles, Zenon DEF Deal, LineValues, FilesOf
<1>4. pc[Listener] \in AnswerSteps \cup {"idle", "accept", "next_client", "command", FirstLockStep(Listener)}
  BY HandshakePeer, Zenon
<1>5. \A p \in Party : pc[p] \notin {"write_prv", "write_pub"}
  BY <1>4, Roles, HandshakeNames, HandshakePlaces, Zenon
<1>6. (Filed(Client) <=> pub[Client].status # "INITIALIZED") /\ (Filed(Listener) <=> pub[Client].status # "INITIALIZED")
  BY <1>1, Zenon DEF Filed
<1>7. pub[Client].status = "INITIALIZED" => LockStarts(Client)
  <2>1. pub[Client].status = "INITIALIZED" => \A p \in Party : ~Set(p)
    BY <1>5, <1>6, Roles, Zenon DEF Set
  <2> QED
    BY <1>1, <1>6, <2>1, Zenon DEF LockStarts
<1>8. pub[Client].status = "SETUP" => TradeStarts(Client)
  BY <1>6, Roles, Zenon DEF TradeStarts
<1> QED
  BY <1>1, <1>2, <1>3, <1>6, <1>7, <1>8, ZenonT(30)

\* The client reads the answer and starts what it was called for.
LEMMA ClientAnsweredDeal ==
    ASSUME TypeOK, Conversation, Deal, ClientAnswered
    PROVE  Deal'
<1>1. Quiet /\ pub' = pub /\ prv' = prv
  BY ZenonT(30) DEF ClientAnswered, ReceiveStep, Quiet, chainVars, auxVars, slateVars
<1>2. ASSUME NEW t \in {"OK", "FAULT"}, NEW m \in {"err", FirstLockStep(Client), "send_execute", "send_cancel"},
             pc[Client] \in AskSteps, ~ack[Client], receive_msg(Client, t), Goto(Client, m),
             m = FirstLockStep(Client) => t = "OK" /\ pub[Client].status = "INITIALIZED",
             m \in {"send_execute", "send_cancel"} => t = "OK" /\ pub[Client].status = "SETUP"
      PROVE  Deal'
  <2>1. m \notin OutSteps /\ pc[Client] \notin OutSteps
    BY <1>2, Zenon DEF OutSteps, AskSteps, FirstLockStep
  <2>2. /\ HasLine(Client) /\ LineTo(Client).type = t /\ ~HasLine(Client)'
        /\ HasLine(Listener)' => HasLine(Listener) /\ LineTo(Listener)' = LineTo(Listener)
        /\ pc'[Client] = m /\ pc'[Listener] = pc[Listener]
    BY <1>2, <2>1, Roles, ReceiveHandshake, ZenonT(30)
  <2>3. /\ m = FirstLockStep(Client) => LockStarts(Client)
        /\ m \in {"send_execute", "send_cancel"} => TradeStarts(Client)
    BY <1>2, <2>2, AnswerKnown, ZenonT(30)
  <2>4. pc[Listener] \in AnswerSteps \cup {"idle", "accept", "next_client", "command", FirstLockStep(Listener)}
    BY <1>2, HandshakePeer, Zenon
  <2>5. \A p \in Party : pc[p] # "btc_contract" /\ pc[p] # "mw_ref_final"
    BY <1>2, <2>4, Roles, HandshakeNames, Zenon DEF FirstLockStep
  <2>6. HandshakeMove(Client)
    BY <1>2, <2>2, HandshakeNames, Zenon DEF HandshakeMove
  <2>7. m \notin AskSteps /\ "err" \notin {FirstLockStep(Client), FirstExecStep(Client), FirstRefundStep(Client), "command"}
           /\ "err" \notin SendCommandSteps
           /\ FirstLockStep(Client) \notin {FirstExecStep(Client), FirstRefundStep(Client), "command"}
           /\ FirstLockStep(Client) \notin SendCommandSteps
    BY Zenon DEF AskSteps, SendCommandSteps, FirstLockStep, FirstExecStep, FirstRefundStep
  <2>8. \A p \in Party : /\ pc'[p] = pc[p] \/ HandshakeMove(p)
                         /\ pc'[p] # pc[p] => p = Client
                         /\ pc'[p] \in TalkSteps(p) /\ HasLine(p)' => pc'[p] = pc[p] /\ HasLine(p) /\ LineTo(p)' = LineTo(p)
    BY <2>2, <2>6, Roles, Zenon
  <2>9. (/\ pc[Listener] = "checksum" /\ HasLine(Listener) => LineTo(Listener).slate = pubFile[Client]
         /\ pc[Listener] = "ok" => pubFile[Client] = pubFile[Listener]
         /\ pc[Listener] = "command" => pub[Listener].status = "SETUP" /\ Filed(Client))'
    BY <1>1, <2>2, Zenon DEF Deal, LineValues, Quiet, Filed, fileVars
  <2>10. /\ \A p \in Party : pc'[p] = FirstLockStep(p) /\ pc'[p] # pc[p] => LockStarts(p)
         /\ \A p \in Party :
               pc'[p] # pc[p] /\ pc'[p] \in {FirstExecStep(p), FirstRefundStep(p), "command"} \cup SendCommandSteps
                   => TradeStarts(p)
    BY <2>2, <2>3, <2>7, <2>8, Zenon
  <2> QED
    BY <1>1, <2>2, <2>5, <2>8, <2>9, <2>10, HandshakeFrame, Zenon
<1>3. "err" \notin {FirstLockStep(Client), "send_execute", "send_cancel"} /\ FirstLockStep(Client) \notin {"send_execute", "send_cancel"}
  BY OtherPlaces, Roles, Zenon
<1>4. CASE /\ At(Client, "lock") /\ receive_msg(Client, "OK")
           /\ Goto(Client, IF pub[Client].status = "INITIALIZED" THEN FirstLockStep(Client) ELSE "err")
  BY <1>2, <1>3, <1>4, Zenon DEF At, AskSteps
<1>5. ASSUME NEW c \in {"execute", "cancel"}, At(Client, c), receive_msg(Client, "OK"),
             Goto(Client, IF pub[Client].status # "SETUP" THEN "err"
                          ELSE IF c = "execute" THEN "send_execute" ELSE "send_cancel")
      PROVE  Deal'
  BY <1>2, <1>3, <1>5, Zenon DEF At, AskSteps
<1>6. ASSUME NEW c \in {"lock", "execute", "cancel"}, ReceiveStep(Client, c, "FAULT", "err")
      PROVE  Deal'
  BY <1>2, <1>3, <1>6, Zenon DEF At, AskSteps, ReceiveStep
<1> QED
  BY <1>4, <1>5, <1>6, Zenon DEF ClientAnswered
=============================================================================
