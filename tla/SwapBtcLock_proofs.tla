------------------------- MODULE SwapBtcLock_proofs --------------------------
(***************************************************************************)
(* The steps of Bob in the locking phase, the end of a process and writing *)
(* the private file preserve Deal.                                         *)
(***************************************************************************)
EXTENDS SwapMwLock_proofs

USE DEF Party, Peer

-----------------------------------------------------------------------------
(* The locking phase of Bob.                                               *)

\* What his slate says once he has made a step of the locking phase.
LEMMA BtcLockMemory ==
    ASSUME TypeOK, Deal, NEW m \in BtcKeyed, Goto("btc", m), UNCHANGED <<fileVars, session>>,
           pc["btc"] \in BtcLockSteps,
           /\ pub'["btc"].status = "SETUP" /\ session > 0
           /\ pub'["btc"].pub_a = session /\ pub'["btc"].pub_b = session /\ pub'["btc"].pub_x = session
           /\ prv'["btc"].sk = session /\ prv'["btc"].x = session,
           m \in BtcLocked => Locked' /\ btcOut'.lock_time = pub'["btc"].btc_lock_time,
           m \in BtcNamed => prv'["btc"].lock = session,
           m \in BtcShared => prv'["btc"].shared_coin = session
    PROVE  BtcMemory'
<1>1. pc'["btc"] = m /\ m \notin {"write_prv", "write_pub"}
  BY BtcPlaces, PhasesApart, Zenon DEF Goto, TypeOK
<1>2. ~Set("btc")'
  BY <1>1, BtcPlaces, Zenon DEF Deal, FilesOf, Set, Filed, fileVars
<1> QED
  BY <1>1, <1>2, Zenon DEF BtcMemory

\* The line to a party is the one that is due there.
LEMMA NewLineDue ==
    ASSUME Conversation', NEW p \in Party, pc'[p] \in TalkSteps(p), HasLine(p)'
    PROVE  LineTo(p)'.type = Due[pc'[p]]
BY Zenon DEF Conversation, InStep

\* In her locking phase Alice talks with Bob.
LEMMA MwTalks ==
    /\ "mw_pub_b" \in TalkSteps("mw") /\ "mw_lock_time" \in TalkSteps("mw")
    /\ \A l \in MwLockSteps : l \in TalkSteps("mw")
BY Zenon DEF TalkSteps, LockSteps, MwLockSteps

\* A step of his locking phase that writes no file concerns his own memory, his lines
\* and the lock output only.
LEMMA BtcLockFrame ==
    ASSUME TypeOK, Conversation, Deal, NEW m \in BtcKeyed, Goto("btc", m),
           pc["btc"] \in BtcLockSteps, ~ack["btc"],
           UNCHANGED <<fileVars, session, x, mwOut, btcHeight, grinHeight>>,
           ChainsKept, btcOut'.keys <= session, btcOut.state # "refunded" => btcOut'.state # "refunded",
           m \in {"btc_pub_b", "btc_height", "btc_lock"} => ~Locked',
           pub'["mw"] = pub["mw"], prv'["mw"] = prv["mw"],
           \A t : LockedAt(t) => LockedAt(t)' \/ (pc["mw"] \notin MwTimed /\ ~HasLine("mw")),
           m \in BtcDated /\ Dated("mw") => pub'["btc"].mw_lock_time = pub["mw"].mw_lock_time,
           m = "btc_mw_lock_time" => ~HasLine("btc")',
           HasLine("mw")' =>
               \/ HasLine("mw") /\ LineTo("mw")' = LineTo("mw")
               \/ LineTo("mw")'.type = "pub_b" /\ LineTo("mw")'.val = session
               \/ LineTo("mw")'.type = "lock_time" /\ LockedAt(LineTo("mw").val)'
               \/ LineTo("mw")'.type \notin {"pub_b", "lock_time"},
           Conversation', BtcMemory'
    PROVE  Deal'
<1>1. pc'["btc"] = m /\ pc'["mw"] = pc["mw"] /\ m \in BtcLockSteps /\ m # "btc_keys"
      /\ m \notin {"write_prv", "write_pub", "idle"} /\ pub'["btc"].status = "SETUP"
  BY BtcPlaces, PhasesApart, Roles, Zenon DEF Goto, TypeOK, BtcMemory
<1>2. pc["mw"] \in MwLockSteps \cup {"err", "write_prv"} \cup OutSteps
  BY PhasePeer, MwPlaces, BtcPlaces, Zenon
<1>3. ~Filed("btc") /\ ~Set("btc") /\ ~Set("btc")' /\ (Set("mw")' <=> Set("mw")) /\ (Filed("mw")' <=> Filed("mw"))
      /\ ~Filed("btc")' /\ ~Set("mw")
  BY <1>1, BtcPlaces, PhasesApart, Roles, ZenonT(30) DEF Deal, FilesOf, Set, Filed, Settling, fileVars
<1>4. MwMemory'
  BY <1>1, KeepMwMemory, BtcPlaces, PhasesApart, Roles, ZenonT(30) DEF Deal, MwMemory, fileVars
<1>5. Filing'
  BY KeepDeals, Zenon DEF Deal
<1>6. FilesOf("mw")'
  BY <1>1, KeepFiles, Zenon DEF Deal
<1>7. FilesOf("btc")'
  <2>1. m \notin HandshakeSteps("btc") \cup {"idle", "btc_keys"} \cup ExecSteps("btc") \cup RefundSteps("btc")
                  \cup SendCommandSteps \cup {"command"}
    BY BtcPlaces, PhasesApart, ZenonT(30) DEF HandshakeSteps, AnswerSteps, AskSteps, SendCommandSteps
  <2> QED
    BY <1>1, <1>3, <2>1, BtcPlaces, Zenon DEF FilesOf, Deal, fileVars
<1>8. (Dated("mw")' <=> Dated("mw")) /\ (Dated("btc")' => m \in BtcDated)
  BY <1>1, <1>3, BtcOrder, Zenon DEF Dated
<1>9. Settling'
  BY <1>1, <1>3, <1>8, Zenon DEF Settling
<1>10. pc["mw"] \notin AskSteps \cup AnswerSteps \cup {"command", "next_client", "mw_refund_push", "mw_ctr_final"} \cup MwExecSteps
  BY <1>2, MwPlaces, PhasesApart, Zenon DEF OutSteps, AskSteps, AnswerSteps, MwExecSteps
<1>11. m \notin AskSteps \cup AnswerSteps \cup {"command", "next_client", "btc_refund_push", "btc_contract"}
  BY <1>1, Zenon DEF AskSteps, AnswerSteps, BtcLockSteps
<1>12. Session'
  BY <1>1, <1>10, <1>11, BtcPlaces, Roles, Zenon DEF Deal, Session
<1>13. Outcome'
  BY <1>1, <1>3, <1>11, Zenon DEF Deal, Outcome, can_refund
<1>14. LineValues'
  <2>1. (pc["mw"] = "mw_pub_b" /\ HasLine("mw") => LineTo("mw").val = session)'
    <3>1. pc["mw"] = "mw_pub_b" /\ HasLine("mw")' => LineTo("mw")'.type = "pub_b"
      BY <1>1, MwTalks, SomeDue, NewLineDue, Zenon
    <3> QED
      BY <1>1, <3>1, Zenon DEF Deal, LineValues
  <2>2. (pc["mw"] = "mw_lock_time" /\ HasLine("mw") => LockedAt(LineTo("mw").val))'
    <3>1. pc["mw"] = "mw_lock_time" /\ HasLine("mw")' => LineTo("mw")'.type = "lock_time"
      BY <1>1, MwTalks, SomeDue, NewLineDue, Zenon
    <3>2. ASSUME pc["mw"] = "mw_lock_time", HasLine("mw"), LineTo("mw")' = LineTo("mw")
          PROVE  LockedAt(LineTo("mw").val)'
      <4>1. LockedAt(LineTo("mw").val)
        BY <3>2, Zenon DEF Deal, LineValues
      <4>2. \A t : LockedAt(t) => LockedAt(t)'
        BY <3>2, Zenon
      <4>3. \A t : t = LineTo("mw").val => LockedAt(t)'
        BY <4>1, <4>2, Zenon DEF LockedAt
      <4> QED
        BY <3>2, <4>3, Zenon DEF LockedAt
    <3> QED
      BY <1>1, <3>1, <3>2, Zenon
  <2> QED
    BY <1>1, <1>10, <1>11, <2>1, <2>2, Roles, Zenon DEF LineValues, AnswerSteps
<1> QED
  BY <1>4, <1>5, <1>6, <1>7, <1>9, <1>12, <1>13, <1>14, Zenon DEF Deal

\* The same for a step that does not touch the lock output either.
LEMMA BtcQuietFrame ==
    ASSUME TypeOK, Conversation, Deal, NEW m \in BtcKeyed, Goto("btc", m),
           pc["btc"] \in BtcLockSteps, ~ack["btc"], Quiet, m # "btc_lock",
           m \in {"btc_pub_b", "btc_height"} => pc["btc"] \in {"btc_keys", "btc_pub_b"},
           pub'["mw"] = pub["mw"], prv'["mw"] = prv["mw"],
           m \in BtcDated /\ Dated("mw") => pub'["btc"].mw_lock_time = pub["mw"].mw_lock_time,
           m = "btc_mw_lock_time" => ~HasLine("btc")',
           HasLine("mw")' =>
               \/ HasLine("mw") /\ LineTo("mw")' = LineTo("mw")
               \/ LineTo("mw")'.type = "pub_b" /\ LineTo("mw")'.val = session
               \/ LineTo("mw")'.type \notin {"pub_b", "lock_time"},
           Conversation', BtcMemory'
    PROVE  Deal'
<1>1. UNCHANGED <<fileVars, session, x, mwOut, btcHeight, grinHeight, btcOut>>
  BY Zenon DEF Quiet
<1>2. ChainsKept
  BY <1>1, KeepChains, Zenon
<1>3. pc'["btc"] = m
  BY Zenon DEF Goto, TypeOK
<1>4. \A t : LockedAt(t) => LockedAt(t)'
  BY <1>1, <1>3, Zenon DEF LockedAt
<1>5. btcOut.keys <= session /\ (m \in {"btc_pub_b", "btc_height", "btc_lock"} => ~Locked')
  BY <1>1, Zenon DEF Deal, Session, Locked
<1> QED
  BY <1>1, <1>2, <1>4, <1>5, BtcLockFrame, Zenon

\* Bob receives Alice's key, and makes and sends his.
LEMMA BtcKeysDeal ==
    ASSUME TypeOK, Conversation, Deal, btc_receive_pub_a \/ btc_send_pub_b
    PROVE  Deal'
<1>1. CASE btc_receive_pub_a
  <2>1. /\ Goto("btc", "btc_pub_b") /\ pc["btc"] = "btc_keys" /\ ~ack["btc"] /\ Quiet
        /\ receive_msg("btc", "pub_a")
        /\ pub'["mw"] = pub["mw"] /\ prv'["mw"] = prv["mw"]
        /\ pub'["btc"].status = "SETUP" /\ pub'["btc"].pub_a = Msg("btc")
        /\ pub'["btc"].pub_b = session /\ pub'["btc"].pub_x = session
        /\ prv'["btc"].sk = session /\ prv'["btc"].x = session
    BY <1>1, SMTT(30) DEF btc_receive_pub_a, At, TypeOK, PrvSlate, Quiet, chainVars, auxVars
  <2>2. /\ Conversation' /\ HasLine("btc") /\ Msg("btc") = LineTo("btc").val
        /\ HasLine("mw")' => HasLine("mw") /\ LineTo("mw")' = LineTo("mw")
    BY <2>1, BtcRows, ReceiveTalk, Zenon
  <2>3. Msg("btc") = session /\ session > 0
    BY <2>1, <2>2, Zenon DEF Deal, LineValues
  <2>4. BtcMemory'
    BY <2>1, <2>3, BtcPlaces, BtcOrder, BtcLockMemory, Zenon DEF Quiet
  <2> QED
    BY <2>1, <2>2, <2>4, BtcPlaces, BtcOrder, BtcQuietFrame, Zenon
<1>2. CASE btc_send_pub_b
  <2>1. /\ Goto("btc", "btc_height") /\ pc["btc"] = "btc_pub_b" /\ ~ack["btc"] /\ Quiet
        /\ send_msg("btc", "pub_b", pub["btc"].pub_b) /\ pub' = pub /\ prv' = prv
    BY <1>2, Zenon DEF btc_send_pub_b, SendStep, At, Quiet, chainVars, auxVars, slateVars
  <2>2. pub["btc"].pub_b = session /\ session \in Nat
    BY <2>1, BtcOrder, Zenon DEF Deal, BtcMemory, TypeOK
  <2>3. Conversation' /\ HasLine("mw")' /\ LineTo("mw")' = Line("pub_b", session)
    BY <2>1, <2>2, BtcRows, SendTalk, Zenon
  <2>4. BtcMemory'
    BY <2>1, BtcPlaces, BtcOrder, BtcLockMemory, ZenonT(30) DEF Deal, BtcMemory, Quiet
  <2>5. LineTo("mw")'.type = "pub_b" /\ LineTo("mw")'.val = session
    BY <2>3, SMTT(30) DEF Line
  <2> QED
    BY <2>1, <2>3, <2>4, <2>5, BtcPlaces, BtcOrder, BtcQuietFrame, Zenon
<1> QED
  BY <1>1, <1>2, Zenon

\* Bob picks his lock time and sends it: Alice waits for it.
LEMMA BtcSendLockTimeDeal ==
    ASSUME TypeOK, Conversation, Deal, btc_send_lock_time
    PROVE  Deal'
<1> DEFINE h == LockHeight("btc")
<1>1. /\ Goto("btc", "btc_lock") /\ pc["btc"] = "btc_height" /\ ~ack["btc"] /\ Quiet
      /\ send_msg("btc", "lock_time", h)
      /\ pub'["mw"] = pub["mw"] /\ prv' = prv
      /\ pub'["btc"].status = pub["btc"].status /\ pub'["btc"].pub_a = pub["btc"].pub_a
      /\ pub'["btc"].pub_b = pub["btc"].pub_b /\ pub'["btc"].pub_x = pub["btc"].pub_x
      /\ pub'["btc"].btc_lock_time = h
  BY ZenonT(30) DEF btc_send_lock_time, At, TypeOK, PubSlate, Quiet, chainVars, auxVars
<1>2. h \in Nat
  BY Amounts, Zenon
<1> HIDE DEF h
<1>3. /\ Conversation' /\ ~HasLine("mw") /\ ~HasLine("btc") /\ link
      /\ HasLine("mw")' /\ LineTo("mw")' = Line("lock_time", h)
  BY <1>1, <1>2, BtcRows, SendTalk, Zenon
<1>4. pc["mw"] \notin MwTimed
  <2>1. ASSUME pc["mw"] \in MwLockSteps
        PROVE  Due[pc["mw"]] = Due["btc_height"]
    <3>1. pc["btc"] \in BtcLockSteps
      BY <1>1, Zenon DEF BtcLockSteps
    <3> QED
      BY <1>1, <1>3, <2>1, <3>1, LinesMeet, Zenon
  <2>2. \A l \in MwTimed : Due[l] # Due["btc_height"]
    BY MwDue, Zenon
  <2> QED
    BY <2>1, <2>2, MwPlaces, Zenon
<1>5. ChainsKept
  BY <1>1, KeepChains, Zenon DEF Quiet
<1>6. ~Locked' /\ btcOut'.keys <= session
  BY <1>1, Zenon DEF Deal, Session, Locked, Quiet
<1>7. BtcMemory'
  <2>1. /\ pub["btc"].status = "SETUP" /\ session > 0
        /\ pub["btc"].pub_a = session /\ pub["btc"].pub_b = session /\ pub["btc"].pub_x = session
        /\ prv["btc"].sk = session /\ prv["btc"].x = session
    BY <1>1, BtcOrder, Zenon DEF Deal, BtcMemory
  <2>2. pc["btc"] \in BtcLockSteps /\ UNCHANGED <<fileVars, session>>
    BY <1>1, Zenon DEF BtcLockSteps, Quiet
  <2>3. "btc_lock" \in BtcKeyed /\ "btc_lock" \notin BtcLocked
        /\ "btc_lock" \notin BtcNamed /\ "btc_lock" \notin BtcShared
    BY BtcOrder, BtcPlaces, Zenon
  <2> QED
    BY <1>1, <2>1, <2>2, <2>3, BtcLockMemory, Zenon
<1>8. LineTo("mw")'.type = "lock_time" /\ LockedAt(LineTo("mw").val)'
  BY <1>1, <1>3, <1>6, SMTT(30) DEF Line, LockedAt, Locked
<1> QED
  BY <1>1, <1>3, <1>4, <1>5, <1>6, <1>7, <1>8, BtcPlaces, BtcOrder, BtcLockFrame, ZenonT(30) DEF Quiet

\* Bob locks his bitcoins, to the time he has told Alice.
LEMMA BtcSendLockDeal ==
    ASSUME TypeOK, Conversation, Deal, btc_send_lock
    PROVE  Deal'
<1>1. /\ Goto("btc", "btc_address") /\ pc["btc"] = "btc_lock" /\ ~ack["btc"]
      /\ UNCHANGED <<fileVars, session, x, mwOut, btcHeight, grinHeight>> /\ UNCHANGED commVars
      /\ btcOut' = [state |-> "mempool", keys |-> prv["btc"].sk, lock_time |-> pub["btc"].btc_lock_time]
      /\ pub' = pub /\ prv'["mw"] = prv["mw"]
      /\ prv'["btc"].sk = prv["btc"].sk /\ prv'["btc"].x = prv["btc"].x
  BY SMTT(30) DEF btc_send_lock, At, SendLock, auxVars, PrvSlate
<1>2. /\ pub["btc"].status = "SETUP" /\ session > 0 /\ session \in Nat
      /\ pub["btc"].pub_a = session /\ pub["btc"].pub_b = session /\ pub["btc"].pub_x = session
      /\ prv["btc"].sk = session /\ prv["btc"].x = session
  BY <1>1, BtcOrder, ZenonT(30) DEF Deal, BtcMemory, TypeOK
<1>3. Conversation'
  BY <1>1, BtcRows, LocalTalk, Zenon
<1>4. HasLine("mw")' => HasLine("mw") /\ LineTo("mw")' = LineTo("mw")
  BY <1>1, SameQueue, Zenon DEF commVars
<1>5. ChainsKept
  BY KeepChains, Zenon DEF btc_send_lock
<1>6. Locked' /\ btcOut'.lock_time = pub'["btc"].btc_lock_time /\ btcOut'.keys <= session
      /\ btcOut'.state # "refunded"
  BY <1>1, <1>2, SMTT(30) DEF Locked
<1>7. BtcMemory'
  BY <1>1, <1>2, <1>6, BtcPlaces, BtcOrder, BtcLockMemory, SMTT(30)
<1>8. pc'["btc"] = "btc_address"
  BY <1>1, Zenon DEF Goto, TypeOK
<1>9. \A t : LockedAt(t) => LockedAt(t)'
  BY <1>1, Zenon DEF LockedAt
<1> QED
  BY <1>1, <1>3, <1>4, <1>5, <1>6, <1>7, <1>9, BtcPlaces, BtcOrder, BtcLockFrame, ZenonT(30)

\* Bob sends the address and receives Alice's lock height.
LEMMA BtcAddressDeal ==
    ASSUME TypeOK, Conversation, Deal, btc_send_address \/ btc_receive_lock_height
    PROVE  Deal'
<1>1. CASE btc_send_address
  <2>1. /\ Goto("btc", "btc_mw_lock_time") /\ pc["btc"] = "btc_address" /\ ~ack["btc"] /\ Quiet
        /\ send_msg("btc", "address", prv["btc"].sk) /\ pub' = pub
        /\ prv'["mw"] = prv["mw"] /\ prv'["btc"].sk = prv["btc"].sk /\ prv'["btc"].x = prv["btc"].x
        /\ prv'["btc"].lock = prv["btc"].sk
    BY <1>1, SMTT(30) DEF btc_send_address, At, TypeOK, Quiet, chainVars, auxVars
  <2>2. prv["btc"].sk \in Nat
    BY Zenon DEF TypeOK, PrvSlate
  <2>3. Conversation' /\ HasLine("mw")' /\ LineTo("mw")' = Line("address", prv["btc"].sk) /\ ~HasLine("btc")'
    BY <2>1, <2>2, BtcRows, SendTalk, Zenon
  <2>4. BtcMemory'
    BY <2>1, BtcPlaces, BtcOrder, BtcLockMemory, ZenonT(30) DEF Deal, BtcMemory, Quiet, Locked
  <2>5. LineTo("mw")'.type \notin {"pub_b", "lock_time"}
    BY <2>3, SMTT(30) DEF Line
  <2> QED
    BY <2>1, <2>3, <2>4, <2>5, BtcPlaces, BtcOrder, BtcQuietFrame, ZenonT(30)
<1>2. CASE btc_receive_lock_height
  <2>1. /\ Goto("btc", "btc_ptx") /\ pc["btc"] = "btc_mw_lock_time" /\ ~ack["btc"] /\ Quiet
        /\ receive_msg("btc", "mw_lock_time")
        /\ pub'["mw"] = pub["mw"] /\ prv' = prv
        /\ pub'["btc"].status = pub["btc"].status /\ pub'["btc"].pub_a = pub["btc"].pub_a
        /\ pub'["btc"].pub_b = pub["btc"].pub_b /\ pub'["btc"].pub_x = pub["btc"].pub_x
        /\ pub'["btc"].btc_lock_time = pub["btc"].btc_lock_time
        /\ pub'["btc"].mw_lock_time = Msg("btc")
    BY <1>2, SMTT(30) DEF btc_receive_lock_height, At, TypeOK, Quiet, chainVars, auxVars
  <2>2. /\ Conversation' /\ HasLine("btc") /\ Msg("btc") = LineTo("btc").val
        /\ HasLine("mw")' => HasLine("mw") /\ LineTo("mw")' = LineTo("mw")
    BY <2>1, BtcRows, ReceiveTalk, Zenon
  <2>3. Dated("mw") => Msg("btc") = pub["mw"].mw_lock_time
    BY <2>1, <2>2, Zenon DEF Deal, LineValues
  <2>4. BtcMemory'
    BY <2>1, BtcPlaces, BtcOrder, BtcLockMemory, ZenonT(30) DEF Deal, BtcMemory, Quiet, Locked
  <2> QED
    BY <2>1, <2>2, <2>3, <2>4, BtcPlaces, BtcOrder, BtcQuietFrame, ZenonT(30)
<1> QED
  BY <1>1, <1>2, ZenonT(30)

\* Bob knows Alice's lock height once he has it.
LEMMA BtcDatedAlike ==
    ASSUME Deal, pc["btc"] \in BtcDated, pub'["btc"] = pub["btc"]
    PROVE  Dated("mw") => pub'["btc"].mw_lock_time = pub["mw"].mw_lock_time
BY Zenon DEF Deal, Settling, Dated

\* Bob's part in the shared output.
LEMMA BtcSharedOutDeal ==
    ASSUME TypeOK, Conversation, Deal, btc_shared_out
    PROVE  Deal'
<1>1. CASE ReceiveStep("btc", "btc_ptx", "ptx", "btc_ptx2")
  <2>1. /\ Goto("btc", "btc_ptx2") /\ pc["btc"] = "btc_ptx" /\ ~ack["btc"] /\ Quiet /\ pub' = pub /\ prv' = prv
    BY <1>1, Zenon DEF ReceiveStep, At, Quiet, chainVars, auxVars, slateVars
  <2>2. /\ Conversation'
        /\ HasLine("mw")' => HasLine("mw") /\ LineTo("mw")' = LineTo("mw")
    BY <1>1, <2>1, BtcRows, ReceiveTalk, Zenon DEF ReceiveStep
  <2>3. BtcMemory'
    BY <2>1, BtcPlaces, BtcOrder, BtcLockMemory, Zenon DEF Deal, BtcMemory, Quiet, Locked
  <2> QED
    BY <2>1, <2>2, <2>3, BtcPlaces, BtcOrder, BtcDatedAlike, BtcQuietFrame, Zenon
<1>2. CASE SendStep("btc", "btc_ptx2", "ptx2", 0, "btc_final")
  <2>1. /\ Goto("btc", "btc_final") /\ pc["btc"] = "btc_ptx2" /\ ~ack["btc"] /\ Quiet /\ pub' = pub /\ prv' = prv
    BY <1>2, Zenon DEF SendStep, At, Quiet, chainVars, auxVars, slateVars
  <2>2. Conversation' /\ HasLine("mw")' /\ LineTo("mw")' = Line("ptx2", 0)
    BY <1>2, <2>1, BtcRows, SendTalk, Zenon DEF SendStep
  <2>3. BtcMemory'
    BY <2>1, BtcPlaces, BtcOrder, BtcLockMemory, ZenonT(30) DEF Deal, BtcMemory, Quiet, Locked
  <2>4. LineTo("mw")'.type \notin {"pub_b", "lock_time"}
    BY <2>2, SMTT(30) DEF Line
  <2> QED
    BY <2>1, <2>2, <2>3, <2>4, BtcPlaces, BtcOrder, BtcDatedAlike, BtcQuietFrame, Zenon
<1>3. CASE At("btc", "btc_final")
  <2>1. /\ Goto("btc", "btc_ref_ptx") /\ pc["btc"] = "btc_final" /\ ~ack["btc"] /\ Quiet /\ pub' = pub
        /\ receive_msg("btc", "final")
        /\ prv' = [prv EXCEPT !["btc"] = [@ EXCEPT !.shared_coin = prv["btc"].sk]]
    BY <1>3, Zenon DEF btc_shared_out, SendStep, ReceiveStep, At, Quiet, chainVars, auxVars
  <2>2. /\ prv'["mw"] = prv["mw"] /\ prv'["btc"].sk = prv["btc"].sk /\ prv'["btc"].x = prv["btc"].x
        /\ prv'["btc"].lock = prv["btc"].lock /\ prv'["btc"].shared_coin = prv["btc"].sk
    BY <2>1, SMTT(30) DEF TypeOK
  <2>3. /\ Conversation'
        /\ HasLine("mw")' => HasLine("mw") /\ LineTo("mw")' = LineTo("mw")
    BY <2>1, BtcRows, ReceiveTalk, ZenonT(30)
  <2>4. BtcMemory'
    BY <2>1, <2>2, BtcPlaces, BtcOrder, BtcLockMemory, SMTT(30) DEF Deal, BtcMemory, Quiet, Locked
  <2> QED
    BY <2>1, <2>2, <2>3, <2>4, BtcPlaces, BtcOrder, BtcDatedAlike, BtcQuietFrame, SMTT(30)
<1> QED
  BY <1>1, <1>2, <1>3, Zenon DEF btc_shared_out

\* Bob's part in the refund transaction; his last line ends his phase.
LEMMA BtcRefundTxDeal ==
    ASSUME TypeOK, Conversation, Deal, btc_refund_tx,
           ~SendStep("btc", "btc_ref_final", "ref_final", 0, "write_prv")
    PROVE  Deal'
<1>1. CASE SendStep("btc", "btc_ref_ptx", "ref_ptx", pub["btc"].mw_lock_time, "btc_ref_ptx2")
  <2>1. /\ Goto("btc", "btc_ref_ptx2") /\ pc["btc"] = "btc_ref_ptx" /\ ~ack["btc"] /\ Quiet
        /\ pub' = pub /\ prv' = prv
    BY <1>1, Zenon DEF SendStep, At, Quiet, chainVars, auxVars, slateVars
  <2>2. pub["btc"].mw_lock_time \in Nat
    BY Zenon DEF TypeOK, PubSlate
  <2>3. Conversation' /\ HasLine("mw")' /\ LineTo("mw")' = Line("ref_ptx", pub["btc"].mw_lock_time)
    BY <1>1, <2>1, <2>2, BtcRows, SendTalk, ZenonT(30) DEF SendStep
  <2>4. BtcMemory'
    BY <2>1, BtcPlaces, BtcOrder, BtcLockMemory, ZenonT(30) DEF Deal, BtcMemory, Quiet, Locked
  <2>5. LineTo("mw")'.type \notin {"pub_b", "lock_time"}
    BY <2>3, SMTT(30) DEF Line
  <2> QED
    BY <2>1, <2>3, <2>4, <2>5, BtcPlaces, BtcOrder, BtcDatedAlike, BtcQuietFrame, Zenon
<1>2. CASE ReceiveStep("btc", "btc_ref_ptx2", "ref_ptx2", "btc_ref_final")
  <2>1. /\ Goto("btc", "btc_ref_final") /\ pc["btc"] = "btc_ref_ptx2" /\ ~ack["btc"] /\ Quiet
        /\ pub' = pub /\ prv' = prv
    BY <1>2, Zenon DEF ReceiveStep, At, Quiet, chainVars, auxVars, slateVars
  <2>2. /\ Conversation'
        /\ HasLine("mw")' => HasLine("mw") /\ LineTo("mw")' = LineTo("mw")
    BY <1>2, <2>1, BtcRows, ReceiveTalk, Zenon DEF ReceiveStep
  <2>3. BtcMemory'
    BY <2>1, BtcPlaces, BtcOrder, BtcLockMemory, ZenonT(30) DEF Deal, BtcMemory, Quiet, Locked
  <2> QED
    BY <2>1, <2>2, <2>3, BtcPlaces, BtcOrder, BtcDatedAlike, BtcQuietFrame, ZenonT(30)
<1> QED
  BY <1>1, <1>2, Zenon DEF btc_refund_tx

\* Bob sends his last line: Alice, if she is still there, waits for it.
LEMMA BtcLastLineDeal ==
    ASSUME TypeOK, Conversation, Deal, SendStep("btc", "btc_ref_final", "ref_final", 0, "write_prv")
    PROVE  Deal'
<1>1. /\ Goto("btc", "write_prv") /\ pc["btc"] = "btc_ref_final" /\ ~ack["btc"] /\ Quiet
      /\ pub' = pub /\ prv' = prv
  BY Zenon DEF SendStep, At, Quiet, chainVars, auxVars, slateVars
<1>2. pc'["btc"] = "write_prv" /\ pc'["mw"] = pc["mw"]
  BY <1>1, Zenon DEF Goto, TypeOK
<1>3. Conversation' /\ HasLine("mw")' /\ LineTo("mw")' = Line("ref_final", 0)
  BY <1>1, BtcRows, SendTalk, Zenon DEF SendStep
<1>4. pc["mw"] \in MwLockSteps \cup {"err", "write_prv"} \cup OutSteps
  BY <1>1, PhasePeer, MwPlaces, BtcPlaces, BtcOrder, SMTT(30)
<1>5. pc["mw"] \in MwLockSteps => pc["mw"] = "mw_ref_final"
  <2>1. pc["mw"] \in MwLockSteps => Due[pc["mw"]] = "ref_final"
    BY <1>2, <1>3, MwTalks, NewLineDue, SMTT(30) DEF Line
  <2>2. \A l \in MwLockSteps : Due[l] = "ref_final" => l = "mw_ref_final"
    BY MwDue, Zenon
  <2> QED
    BY <2>1, <2>2, Zenon
<1>6. ChainsKept
  BY <1>1, KeepChains, Zenon DEF Quiet
<1>7. /\ ~Filed("btc") /\ ~Set("mw") /\ ~Set("mw")'
      /\ \A p \in Party : (Filed(p)' <=> Filed(p))
  BY <1>1, <1>2, BtcPlaces, BtcOrder, ZenonT(30) DEF Deal, FilesOf, Set, Filed, Settling, fileVars, Quiet
<1>8. BtcMemory'
  <2>1. BtcDeal(pub["btc"], prv["btc"])'
    <3>1. /\ pub["btc"].status = "SETUP" /\ session > 0
          /\ pub["btc"].pub_a = session /\ pub["btc"].pub_b = session /\ pub["btc"].pub_x = session
          /\ prv["btc"].sk = session /\ prv["btc"].x = session
          /\ Locked /\ btcOut.lock_time = pub["btc"].btc_lock_time
          /\ prv["btc"].lock = session /\ prv["btc"].shared_coin = session
      BY <1>1, BtcPlaces, BtcOrder, Zenon DEF Deal, BtcMemory
    <3> QED
      BY <1>1, <3>1, Zenon DEF BtcDeal, Locked, Quiet
  <2>2. "write_prv" \notin BtcLockSteps
    BY Zenon DEF BtcLockSteps
  <2> QED
    BY <1>2, <2>1, <2>2, BtcPlaces, Zenon DEF BtcMemory
<1>9. MwMemory' /\ Filing'
  <2>1. pc["mw"] \in MwTimed => LockedAt(pub["mw"].btc_lock_time)'
    BY <1>1, <1>2, ZenonT(30) DEF Deal, MwMemory, LockedAt, Quiet
  <2> QED
    BY <1>1, <1>2, <1>6, <2>1, KeepMwMemory, KeepDeals, Zenon DEF Deal, fileVars, Quiet
<1>10. FilesOf("mw")'
  BY <1>1, <1>2, KeepFiles, Zenon DEF Deal, Quiet
<1>11. FilesOf("btc")'
  <2>1. /\ "write_prv" \notin HandshakeSteps("btc") \cup {"idle", "btc_keys"} \cup ExecSteps("btc")
              \cup RefundSteps("btc") \cup SendCommandSteps \cup {"command"} \cup LockSteps("btc")
    BY PhasesApart, Zenon DEF HandshakeSteps, AnswerSteps, AskSteps, SendCommandSteps
  <2>2. pub["btc"].status = "SETUP"
    BY <1>1, BtcPlaces, BtcOrder, ZenonT(30) DEF Deal, BtcMemory
  <2> QED
    BY <1>1, <1>2, <1>7, <2>1, <2>2, BtcPlaces, Zenon DEF FilesOf, Filed, Quiet
<1>12. Settling'
  <2>1. "write_prv" \notin BtcLockSteps
    BY ZenonT(30) DEF BtcLockSteps
  <2>2. Dated("btc") /\ (Dated("mw")' <=> Dated("mw"))
    BY <1>1, <1>2, <1>7, BtcPlaces, BtcOrder, Zenon DEF Dated
  <2> QED
    BY <1>1, <1>2, <1>3, <1>5, <2>1, <2>2, ZenonT(30) DEF Deal, Settling
<1>13. pc["mw"] \notin AskSteps \cup AnswerSteps \cup {"command", "next_client", "mw_refund_push", "mw_ctr_final",
                                                  "mw_pub_b", "mw_lock_time"} \cup MwExecSteps
  BY <1>4, <1>5, MwPlaces, Zenon DEF OutSteps, AskSteps, AnswerSteps, MwExecSteps
<1>14. "write_prv" \notin AskSteps \cup AnswerSteps \cup {"command", "next_client", "btc_refund_push", "btc_contract"}
                           \cup BtcLockSteps
  BY Zenon DEF AskSteps, AnswerSteps, BtcLockSteps
<1>15. Session'
  BY <1>1, <1>2, <1>13, <1>14, BtcPlaces, Roles, ZenonT(30) DEF Deal, Session, Locked, Quiet
<1>16. LineValues'
  BY <1>2, <1>13, <1>14, Roles, Zenon DEF LineValues, AnswerSteps
<1>17. Outcome'
  BY <1>1, <1>2, <1>7, <1>13, ZenonT(30) DEF Deal, Outcome, Quiet
<1> QED
  BY <1>8, <1>9, <1>10, <1>11, <1>12, <1>15, <1>16, <1>17, Zenon DEF Deal
-----------------------------------------------------------------------------
(* Ending, and writing the private file.                                   *)

\* A process that ends forgets what is not in its files.
LEMMA DieDeal ==
    ASSUME TypeOK, Conversation, Deal, NEW p \in Party, Die(p)
    PROVE  Deal'
<1>1. /\ pc'[p] = "idle" /\ pc'[Peer(p)] = pc[Peer(p)]
      /\ pub'[p] = pubFile[p] /\ prv'[p] = prvFile[p]
      /\ pub'[Peer(p)] = pub[Peer(p)] /\ prv'[Peer(p)] = prv[Peer(p)]
      /\ net'[p] = <<>> /\ net'[Peer(p)] = net[Peer(p)] /\ ack'[Peer(p)] = ack[Peer(p)]
      /\ UNCHANGED <<fileVars, session, x, btcOut, mwOut, btcHeight, grinHeight>>
  BY ZenonT(30) DEF Die, Goto, TypeOK, chainVars, auxVars
<1>2. ChainsKept
  BY <1>1, KeepChains, Zenon
<1>3. /\ HasLine(Peer(p))' <=> HasLine(Peer(p))
      /\ HasAck(Peer(p))' <=> HasAck(Peer(p))
      /\ LineTo(Peer(p))' = LineTo(Peer(p))
      /\ ~HasLine(p)' /\ ~HasAck(p)'
  BY <1>1, SameQueue, NoQueue, Zenon
<1>4. /\ \A q \in Party : (Filed(q)' <=> Filed(q)) /\ (Filed(q) => Set(q) /\ Dated(q))
      /\ Set(p)' <=> Filed(p)
      /\ Set(Peer(p))' <=> Set(Peer(p))
      /\ Dated(p)' <=> Filed(p)
      /\ Dated(Peer(p))' <=> Dated(Peer(p))
      /\ Locked' <=> Locked
  BY <1>1, OtherPlaces, Zenon DEF Filed, Set, Dated, Locked, fileVars
<1>5. Filing'
  BY <1>1, <1>2, KeepDeals, Zenon DEF Deal
<1>6. MwMemory'
  <2>1. CASE p = "mw"
    <3>1. (Set("mw") => MwDeal(pub["mw"], prv["mw"]))'
      BY <1>1, <1>4, <1>5, <2>1, Zenon DEF Filing, fileVars
    <3> QED
      BY <1>1, <2>1, <3>1, OtherPlaces, MwPlaces, ZenonT(30) DEF MwMemory
  <2>2. CASE p = "btc"
    <3>1. pc["mw"] \in MwTimed => LockedAt(pub["mw"].btc_lock_time)'
      BY <1>1, <2>2, Zenon DEF Deal, MwMemory, LockedAt
    <3> QED
      BY <1>1, <1>2, <2>2, <3>1, KeepMwMemory, Zenon DEF Deal, fileVars
  <2> QED
    BY <2>1, <2>2, Zenon
<1>7. BtcMemory'
  <2>1. CASE p = "btc"
    <3>1. (Set("btc") => BtcDeal(pub["btc"], prv["btc"]))'
      BY <1>1, <1>4, <1>5, <2>1, ZenonT(30) DEF Filing, fileVars
    <3> QED
      BY <1>1, <2>1, <3>1, OtherPlaces, BtcPlaces, ZenonT(30) DEF BtcMemory
  <2>2. CASE p = "mw"
    BY <1>1, <1>2, <2>2, KeepBtcMemory, ZenonT(30) DEF Deal, fileVars
  <2> QED
    BY <2>1, <2>2, Zenon
<1>8. FilesOf(p)'
  BY <1>1, OtherPlaces, ZenonT(30) DEF Deal, FilesOf, SameTerms, SendCommandSteps, fileVars
<1>9. FilesOf(Peer(p))'
  BY <1>1, KeepFiles, ZenonT(30) DEF Deal
<1>10. Settling'
  <2>1. CASE p = "mw"
    BY <1>1, <1>4, <2>1, OtherPlaces, ZenonT(30) DEF Deal, Settling, FilesOf, SameTerms
  <2>2. CASE p = "btc"
    BY <1>1, <1>3, <1>4, <2>2, OtherPlaces, ZenonT(30) DEF Deal, Settling, FilesOf, SameTerms
  <2> QED
    BY <2>1, <2>2, ZenonT(30)
<1>11. Session'
  <2>1. p = "btc" => pc'["btc"] \notin {"btc_keys", "btc_pub_b", "btc_height", "btc_lock"}
    BY <1>1, Zenon
  <2>2. "idle" \notin AskSteps
    BY Zenon DEF AskSteps
  <2>3. (pc[Client] \in AskSteps /\ HasLine(Client) /\ LineTo(Client).type = "OK" /\ ~Filed(Client) =>
           session > 0 /\ ~Locked)'
    <3>1. CASE p = Client
      BY <1>1, <2>2, <3>1, Zenon
    <3>2. CASE p = Listener
      BY <1>1, <1>3, <1>4, <3>2, Roles, ZenonT(30) DEF Deal, Session
    <3> QED
      BY <3>1, <3>2, Roles, Zenon
  <2>4. (\A q \in Party : pc[q] = FirstLockStep(q) => session > 0)'
    BY <1>1, OtherPlaces, ZenonT(30) DEF Deal, Session
  <2>5. btcOut'.keys <= session' /\ (pc'["btc"] \in {"btc_keys", "btc_pub_b", "btc_height", "btc_lock"} => ~Locked')
    BY <1>1, <1>4, <2>1, ZenonT(30) DEF Deal, Session
  <2> QED
    BY <2>3, <2>4, <2>5, Zenon DEF Session
<1>12. LineValues'
  <2>1. (pc["btc"] = "btc_keys" /\ HasLine("btc") => LineTo("btc").val = session /\ session > 0)'
    BY <1>1, <1>3, Zenon DEF Deal, LineValues
  <2>2. (/\ pc["mw"] = "mw_pub_b" /\ HasLine("mw") => LineTo("mw").val = session
         /\ pc["mw"] = "mw_lock_time" /\ HasLine("mw") => LockedAt(LineTo("mw").val)
         /\ pc["mw"] = "mw_ctr_final" /\ HasLine("mw") => LineTo("mw").val = session)'
    BY <1>1, <1>3, Zenon DEF Deal, LineValues, LockedAt
  <2>3. (pc["btc"] = "btc_mw_lock_time" /\ HasLine("btc") /\ Dated("mw") =>
           LineTo("btc").val = pub["mw"].mw_lock_time)'
    BY <1>1, <1>4, BtcPlaces, ZenonT(30) DEF Deal, Settling
  <2>4. (/\ pc[Listener] = "checksum" /\ HasLine(Listener) => LineTo(Listener).slate = pubFile[Client]
         /\ pc[Listener] = "ok" => pubFile[Client] = pubFile[Listener]
         /\ pc[Listener] = "command" => pub[Listener].status = "SETUP" /\ Filed(Client))'
    BY <1>1, <1>3, <1>4, Roles, ZenonT(30) DEF Deal, LineValues, fileVars
  <2>5. "idle" \notin AskSteps
    BY ZenonT(30) DEF AskSteps
  <2>6. (pc[Client] \in AskSteps /\ HasLine(Client) /\ LineTo(Client).type = "OK" =>
           /\ pubFile[Client] = pubFile[Listener]
           /\ pc[Listener] = "next_client" => pub[Listener].status \notin {"INITIALIZED", "SETUP"})'
    BY <1>1, <1>3, <2>5, Roles, ZenonT(30) DEF Deal, LineValues, fileVars
  <2> QED
    BY <2>1, <2>2, <2>3, <2>4, <2>6, ZenonT(30) DEF LineValues
<1>13. Outcome'
  BY <1>1, <1>3, <1>4, OtherPlaces, ZenonT(30) DEF Deal, Outcome, can_refund, fileVars
<1> QED
  BY <1>5, <1>6, <1>7, <1>8, <1>9, <1>10, <1>11, <1>12, <1>13, ZenonT(30) DEF Deal

\* main() writes the private file.
LEMMA WritePrvDeal ==
    ASSUME TypeOK, Conversation, Deal, NEW p \in Party, WritePrv(p)
    PROVE  Deal'
<1>1. /\ pc[p] = "write_prv" /\ pc'[p] = "write_pub" /\ pc'[Peer(p)] = pc[Peer(p)]
      /\ pub' = pub /\ prv' = prv /\ pubFile' = pubFile
      /\ prvFile'[p] = prv[p] /\ prvFile'[Peer(p)] = prvFile[Peer(p)]
      /\ net'[p] = <<>> /\ net'[Peer(p)] = net[Peer(p)] /\ ack' = ack
      /\ UNCHANGED <<session, x, btcOut, mwOut, btcHeight, grinHeight>>
  BY Zenon DEF WritePrv, At, Goto, TypeOK, chainVars, auxVars, slateVars
<1>2. ChainsKept
  BY <1>1, KeepChains, Zenon
<1>3. /\ HasLine(Peer(p))' <=> HasLine(Peer(p))
      /\ HasAck(Peer(p))' <=> HasAck(Peer(p))
      /\ LineTo(Peer(p))' = LineTo(Peer(p))
      /\ ~HasLine(p)' /\ ~HasAck(p)'
  BY <1>1, SameQueue, NoQueue, Zenon
<1>4. /\ \A q \in Party : /\ Filed(q)' <=> Filed(q)
                          /\ Set(q)' <=> Set(q)
                          /\ Dated(q)' <=> Dated(q)
      /\ Set(p) /\ (Locked' <=> Locked)
  <2>1. /\ (Filed(p)' <=> Filed(p)) /\ (Filed(Peer(p))' <=> Filed(Peer(p)))
        /\ Set(p)' /\ Set(p) /\ (Set(Peer(p))' <=> Set(Peer(p)))
        /\ Dated(p)' /\ Dated(p) /\ (Dated(Peer(p))' <=> Dated(Peer(p)))
        /\ Locked' <=> Locked
    BY <1>1, Zenon DEF Filed, Set, Dated, Locked
  <2> QED
    BY <2>1, Zenon
<1>5. MwMemory'
  <2>1. CASE p = "mw"
    <3>1. MwDeal(pub["mw"], prv["mw"])'
      BY <1>1, <1>2, <1>4, <2>1, KeepDeals, ZenonT(30) DEF Deal, MwMemory
    <3> QED
      BY <1>1, <2>1, <3>1, OtherPlaces, MwPlaces, Zenon DEF MwMemory
  <2>2. CASE p = "btc"
    <3>1. pc["mw"] \in MwTimed => LockedAt(pub["mw"].btc_lock_time)'
      BY <1>1, <2>2, ZenonT(30) DEF Deal, MwMemory, LockedAt
    <3> QED
      BY <1>1, <1>2, <2>2, <3>1, KeepMwMemory, ZenonT(30) DEF Deal
  <2> QED
    BY <2>1, <2>2, ZenonT(30)
<1>6. BtcMemory'
  <2>1. CASE p = "btc"
    <3>1. BtcDeal(pub["btc"], prv["btc"])'
      BY <1>1, <1>2, <1>4, <2>1, KeepDeals, ZenonT(30) DEF Deal, BtcMemory
    <3> QED
      BY <1>1, <2>1, <3>1, OtherPlaces, BtcPlaces, Zenon DEF BtcMemory
  <2>2. CASE p = "mw"
    BY <1>1, <1>2, <2>2, KeepBtcMemory, ZenonT(30) DEF Deal
  <2> QED
    BY <2>1, <2>2, ZenonT(30)
<1>7. Filing'
  <2>1. pubFile[p].status \in {"INITIALIZED", "SETUP"} /\ (Filed(p) => SameTerms(pub[p], pubFile[p]))
    BY <1>1, Zenon DEF Deal, FilesOf
  <2>2. CASE p = "mw"
    <3>1. Filed("mw") => MwDeal(pubFile["mw"], prvFile["mw"])'
      BY <1>1, <1>4, <2>1, <2>2, ZenonT(30) DEF Deal, MwMemory, MwDeal, SameTerms, Locked, Filed
    <3>2. Filed("btc") => BtcDeal(pubFile["btc"], prvFile["btc"])'
      BY <1>1, <2>2, Zenon DEF Deal, Filing, BtcDeal, Locked
    <3> QED
      BY <1>4, <3>1, <3>2, Zenon DEF Filing
  <2>3. CASE p = "btc"
    <3>1. Filed("btc") => BtcDeal(pubFile["btc"], prvFile["btc"])'
      BY <1>1, <1>4, <2>1, <2>3, ZenonT(30) DEF Deal, BtcMemory, BtcDeal, SameTerms, Locked, Filed
    <3>2. Filed("mw") => MwDeal(pubFile["mw"], prvFile["mw"])'
      BY <1>1, <2>3, ZenonT(30) DEF Deal, Filing, MwDeal, Locked
    <3> QED
      BY <1>4, <3>1, <3>2, Zenon DEF Filing
  <2> QED
    BY <2>2, <2>3, ZenonT(30)
<1>8. FilesOf(p)'
  <2>1. "write_pub" \notin HandshakeSteps(p) \cup {"idle"} \cup SendCommandSteps \cup {"command"}
    BY Zenon DEF HandshakeSteps, AnswerSteps, AskSteps, SendCommandSteps
  <2> QED
    BY <1>1, <1>4, <2>1, OtherPlaces, ZenonT(30) DEF Deal, FilesOf, SameTerms
<1>9. FilesOf(Peer(p))'
  BY <1>1, <1>4, KeepFilesApart, Roles, ZenonT(30) DEF Deal
<1>10. Settling'
  <2>1. HasLine("mw")' <=> (HasLine("mw") /\ p = "btc")
    BY <1>3, Zenon
  <2> QED
    BY <1>1, <1>4, <2>1, OtherPlaces, Zenon DEF Deal, Settling
<1>11. "write_pub" \notin AskSteps
  BY Zenon DEF AskSteps
<1>12. Session'
  <2>1. p = "btc" => pc'["btc"] \notin {"btc_keys", "btc_pub_b", "btc_height", "btc_lock"}
    BY <1>1, Zenon
  <2>2. (pc[Client] \in AskSteps /\ HasLine(Client) /\ LineTo(Client).type = "OK" /\ ~Filed(Client) =>
           session > 0 /\ ~Locked)'
    <3>1. CASE p = Client
      BY <1>1, <1>11, <3>1, Zenon
    <3>2. CASE p = Listener
      BY <1>1, <1>3, <1>4, <3>2, Roles, Zenon DEF Deal, Session
    <3> QED
      BY <3>1, <3>2, Roles, ZenonT(30)
  <2>3. (\A q \in Party : pc[q] = FirstLockStep(q) => session > 0)'
    BY <1>1, OtherPlaces, ZenonT(30) DEF Deal, Session
  <2>4. btcOut'.keys <= session' /\ (pc'["btc"] \in {"btc_keys", "btc_pub_b", "btc_height", "btc_lock"} => ~Locked')
    BY <1>1, <1>4, <2>1, ZenonT(30) DEF Deal, Session
  <2> QED
    BY <2>2, <2>3, <2>4, Zenon DEF Session
<1>13. LineValues'
  <2>1. (/\ pc["btc"] = "btc_keys" /\ HasLine("btc") => LineTo("btc").val = session /\ session > 0
         /\ pc["btc"] = "btc_mw_lock_time" /\ HasLine("btc") /\ Dated("mw") =>
               LineTo("btc").val = pub["mw"].mw_lock_time)'
    BY <1>1, <1>3, <1>4, ZenonT(30) DEF Deal, LineValues
  <2>2. (/\ pc["mw"] = "mw_pub_b" /\ HasLine("mw") => LineTo("mw").val = session
         /\ pc["mw"] = "mw_lock_time" /\ HasLine("mw") => LockedAt(LineTo("mw").val)
         /\ pc["mw"] = "mw_ctr_final" /\ HasLine("mw") => LineTo("mw").val = session)'
    BY <1>1, <1>3, ZenonT(30) DEF Deal, LineValues, LockedAt
  <2>3. (/\ pc[Listener] = "checksum" /\ HasLine(Listener) => LineTo(Listener).slate = pubFile[Client]
         /\ pc[Listener] = "ok" => pubFile[Client] = pubFile[Listener]
         /\ pc[Listener] = "command" => pub[Listener].status = "SETUP" /\ Filed(Client))'
    BY <1>1, <1>3, <1>4, Roles, ZenonT(30) DEF Deal, LineValues
  <2>4. (pc[Client] \in AskSteps /\ HasLine(Client) /\ LineTo(Client).type = "OK" =>
           /\ pubFile[Client] = pubFile[Listener]
           /\ pc[Listener] = "next_client" => pub[Listener].status \notin {"INITIALIZED", "SETUP"})'
    BY <1>1, <1>3, <1>11, Roles, ZenonT(30) DEF Deal, LineValues
  <2> QED
    BY <2>1, <2>2, <2>3, <2>4, ZenonT(30) DEF LineValues
<1>14. Outcome'
  BY <1>1, <1>3, <1>4, OtherPlaces, ZenonT(30) DEF Deal, Outcome, can_refund
<1> QED
  BY <1>5, <1>6, <1>7, <1>8, <1>9, <1>10, <1>12, <1>13, <1>14, ZenonT(30) DEF Deal
=============================================================================
