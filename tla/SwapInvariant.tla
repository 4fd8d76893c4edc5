--------------------------- MODULE SwapInvariant ---------------------------
(***************************************************************************)
(* The inductive invariant of SwapProtocol.  Its first part is about the   *)
(* conversation of the two processes: where the peer can be, and which     *)
(* line can be under way, when a process is at a given step.  Its second   *)
(* part is about the deal: what the slates in memory and in the files, the *)
(* lines under way and the two ledgers say about the current session.      *)
(***************************************************************************)
EXTENDS SwapRefinement

-----------------------------------------------------------------------------
(* The steps of the processes.                                             *)

\* No connection: no process, none yet, or the stream is closed already.
OutSteps == {"idle", "accept", "write_pub"}
AskSteps == {"lock", "execute", "cancel"}
SendCommandSteps == {"send_execute", "send_cancel"}
AnswerSteps == {"checksum", "ok", "fault"}

MwLockSteps ==
    {"mw_keys", "mw_pub_b", "mw_lock_time", "mw_import", "mw_address", "mw_verify", "mw_height",
     "mw_spend", "mw_ptx2", "mw_final", "mw_ref_ptx", "mw_ref_ptx2", "mw_ref_final", "mw_fund"}
BtcLockSteps ==
    {"btc_keys", "btc_pub_b", "btc_height", "btc_lock", "btc_address", "btc_mw_lock_time",
     "btc_ptx", "btc_ptx2", "btc_final", "btc_ref_ptx", "btc_ref_ptx2", "btc_ref_final"}
MwExecSteps ==
    {"mw_exec", "mw_ctr_ptx", "mw_ctr_ptx2", "mw_ctr_ptx3", "mw_ctr_final", "mw_redeem"}
BtcExecSteps ==
    {"btc_exec", "btc_ctr_ptx", "btc_ctr_ptx2", "btc_ctr_ptx3", "btc_ctr_final", "btc_contract"}
LockSteps(p) == IF p = "mw" THEN MwLockSteps ELSE BtcLockSteps
ExecSteps(p) == IF p = "mw" THEN MwExecSteps ELSE BtcExecSteps
RefundSteps(p) == IF p = "mw" THEN {"mw_refund", "mw_refund_push"}
                              ELSE {"btc_refund", "btc_refund_push"}
TalkSteps(p) == LockSteps(p) \cup ExecSteps(p)

HandshakeSteps(p) ==
    IF p = Listener THEN AnswerSteps \cup {"accept", "command", "next_client"}
    ELSE AskSteps \cup SendCommandSteps
Steps(p) ==
    TalkSteps(p) \cup RefundSteps(p) \cup HandshakeSteps(p) \cup {"idle", "err", "write_prv", "write_pub"}

\* The next line of the conversation, to be sent or to be received, at each step
\* of the locking and of the execution phase.
Due ==
    [mw_keys |-> "pub_a", btc_keys |-> "pub_a", mw_pub_b |-> "pub_b", btc_pub_b |-> "pub_b",
     mw_lock_time |-> "lock_time", btc_height |-> "lock_time",
     mw_import |-> "address", mw_address |-> "address",
     btc_lock |-> "address", btc_address |-> "address",
     mw_verify |-> "mw_lock_time", mw_height |-> "mw_lock_time", btc_mw_lock_time |-> "mw_lock_time",
     mw_spend |-> "ptx", btc_ptx |-> "ptx", mw_ptx2 |-> "ptx2", btc_ptx2 |-> "ptx2",
     mw_final |-> "final", btc_final |-> "final", mw_ref_ptx |-> "ref_ptx", btc_ref_ptx |-> "ref_ptx",
     mw_ref_ptx2 |-> "ref_ptx2", btc_ref_ptx2 |-> "ref_ptx2",
     mw_ref_final |-> "ref_final", btc_ref_final |-> "ref_final", mw_fund |-> "locked",
     mw_exec |-> "ctr_ptx", mw_ctr_ptx |-> "ctr_ptx", btc_exec |-> "ctr_ptx", btc_ctr_ptx |-> "ctr_ptx",
     mw_ctr_ptx2 |-> "ctr_ptx2", btc_ctr_ptx2 |-> "ctr_ptx2",
     mw_ctr_ptx3 |-> "ctr_ptx3", btc_ctr_ptx3 |-> "ctr_ptx3",
     mw_ctr_final |-> "ctr_final", btc_ctr_final |-> "ctr_final",
     mw_redeem |-> "executed", btc_contract |-> "executed"]
\* The line that follows it.
Following ==
    [pub_a |-> "pub_b", pub_b |-> "lock_time", lock_time |-> "address", address |-> "mw_lock_time",
     mw_lock_time |-> "ptx", ptx |-> "ptx2", ptx2 |-> "final", final |-> "ref_ptx",
     ref_ptx |-> "ref_ptx2", ref_ptx2 |-> "ref_final", ref_final |-> "locked",
     ctr_ptx |-> "ctr_ptx2", ctr_ptx2 |-> "ctr_ptx3", ctr_ptx3 |-> "ctr_final",
     ctr_final |-> "executed"]
LinesTo(p) ==
    IF p = "mw" THEN {"pub_b", "lock_time", "address", "ptx2", "ref_ptx", "ref_final",
                      "ctr_ptx2", "ctr_final"}
    ELSE {"pub_a", "mw_lock_time", "ptx", "final", "ref_ptx2", "ctr_ptx", "ctr_ptx3"}

-----------------------------------------------------------------------------
(* The conversation.                                                       *)

\* What is under way to p: the ACK of its last line, a line of the peer, or both.
HasAck(p) == net[p] # <<>> /\ net[p][1].type = "ACK"
HasLine(p) == net[p] # <<>> /\ net[p][Len(net[p])].type # "ACK"
LineTo(p) == net[p][Len(net[p])]
Queue(p) ==
    /\ Len(net[p]) <= 2
    /\ Len(net[p]) = 2 => net[p][1].type = "ACK" /\ net[p][2].type # "ACK"

\* A process gets its ACK before anything else, and while its line has not been read
\* nothing is under way to it.
Turns(p) ==
    /\ Queue(p)
    /\ HasAck(p) => ack[p]
    /\ ack[p] /\ HasLine(p) => HasAck(p)
    /\ pc[p] \in OutSteps => ~ack[p] /\ ~HasAck(p) /\ ~HasLine(p)
    /\ link /\ HasLine(p) => ack[Peer(p)] /\ ~HasAck(Peer(p)) /\ ~HasLine(Peer(p))
    /\ link /\ ack[p] /\ ~HasAck(p) => HasLine(Peer(p))

\* The line of the conversation p is at when it has read what is under way.
Position(p) == IF HasLine(p) THEN Following[Due[pc[p]]] ELSE Due[pc[p]]
InStep ==
    /\ \A p \in Party : pc[p] \in TalkSteps(p) /\ HasLine(p) =>
           LineTo(p).type = Due[pc[p]] /\ LineTo(p).type \in LinesTo(p)
    /\ link /\ pc["mw"] \in TalkSteps("mw") /\ pc["btc"] \in TalkSteps("btc") =>
           Position("mw") = Position("btc")

\* Where the client can be when the listener is at a step, and the handshake.
Together ==
    \/ pc[Listener] \in {"idle", "accept"}
    \/ pc[Client] = "idle"
    \/ pc[Listener] \in AnswerSteps /\ pc[Client] \in AskSteps
    \/ pc[Listener] = "next_client" /\ pc[Client] \in AskSteps \cup {"err"}
    \/ /\ pc[Listener] = "command"
       /\ pc[Client] \in AskSteps \cup SendCommandSteps \cup ExecSteps(Client) \cup RefundSteps(Client)
                             \cup {"err"}
    \/ pc[Listener] = FirstLockStep(Listener) /\ pc[Client] \in AskSteps
    \/ /\ pc[Listener] \in LockSteps(Listener)
       /\ pc[Client] \in LockSteps(Client) \cup {"err", "write_prv", "write_pub"}
    \/ /\ pc[Listener] \in ExecSteps(Listener)
       /\ pc[Client] \in ExecSteps(Client) \cup {"err", "write_prv", "write_pub"}
    \/ /\ pc[Listener] \in RefundSteps(Listener)
       /\ pc[Client] \in RefundSteps(Client) \cup {"write_prv", "write_pub"}
    \/ /\ pc[Listener] = "err"
       /\ pc[Client] \in TalkSteps(Client) \cup {"err", "write_prv", "write_pub"}
    \/ /\ pc[Listener] \in {"write_prv", "write_pub"}
       /\ pc[Client] \in TalkSteps(Client) \cup RefundSteps(Client) \cup {"err", "write_prv", "write_pub"}
Handshake ==
    /\ pc[Listener] = "checksum" /\ HasLine(Listener) => LineTo(Listener).type = "checksum"
    /\ pc[Listener] = "checksum" /\ link => HasLine(Listener) /\ ~HasLine(Client)
    /\ pc[Listener] \in {"ok", "fault", "next_client"} => ~HasLine(Listener)
    /\ pc[Listener] \in {"ok", "fault"} => ~HasLine(Client)
    /\ pc[Client] \in AskSteps /\ HasLine(Client) => LineTo(Client).type \in {"OK", "FAULT"}
    /\ pc[Client] \in AskSteps /\ link /\ pc[Listener] \notin AnswerSteps => HasLine(Client)
    /\ pc[Client] \in SendCommandSteps => ~HasLine(Client)
    /\ pc[Client] \in SendCommandSteps /\ link => ~HasLine(Listener)
    /\ pc[Listener] = "command" /\ HasLine(Listener) =>
           \/ LineTo(Listener).type = "EXECUTE" /\ pc[Client] \in ExecSteps(Client) \cup {"idle"}
           \/ LineTo(Listener).type = "CANCEL" /\ pc[Client] \in RefundSteps(Client) \cup {"idle"}
    /\ pc[Listener] = "command" /\ link /\ pc[Client] \in ExecSteps(Client) \cup RefundSteps(Client) =>
           HasLine(Listener) /\ pc[Client] \in {FirstExecStep(Client), FirstRefundStep(Client)}

Conversation ==
    /\ \A p \in Party : pc[p] \in Steps(p)
    /\ link <=> \A p \in Party : pc[p] \notin OutSteps
    /\ \A p \in Party : Turns(p)
    /\ InStep
    /\ Together
    /\ Handshake

-----------------------------------------------------------------------------
(* The deal.  Everything made in a locking session carries its number, and *)
(* no session is started once a slate file is past INITIALIZED.            *)

\* What is known at the steps of the locking phase.
MwKeyed == MwLockSteps \ {"mw_keys"}
MwMet == MwKeyed \ {"mw_pub_b"}
MwTimed == MwMet \ {"mw_lock_time"}
MwVerified == MwTimed \ {"mw_import", "mw_address", "mw_verify"}
MwDated == MwVerified \ {"mw_height"}
MwShared == {"mw_ref_ptx", "mw_ref_ptx2", "mw_ref_final", "mw_fund"}
BtcKeyed == BtcLockSteps \ {"btc_keys"}
BtcLocked == BtcKeyed \ {"btc_pub_b", "btc_height", "btc_lock"}
BtcNamed == BtcLocked \ {"btc_address"}
BtcDated == BtcNamed \ {"btc_mw_lock_time"}
BtcShared == {"btc_ref_ptx", "btc_ref_ptx2", "btc_ref_final"}

Filed(p) == pubFile[p].status # "INITIALIZED"
\* The slate in memory is that of a complete locking phase.
Set(p) == Filed(p) \/ pc[p] \in {"write_prv", "write_pub"}
Dated(p) == Set(p) \/ pc[p] \in MwDated \cup BtcDated

\* The lock output of this session, if there is one, has this lock time.
LockedAt(t) ==
    /\ btcOut.state # "none" /\ btcOut.keys = session => btcOut.lock_time = t
    /\ pc["btc"] = "btc_lock" => pub["btc"].btc_lock_time = t
Locked == btcOut.state # "none" /\ btcOut.keys = session

\* The public and the private slate of Alice after the locking phase.
MwDeal(f, s) ==
    /\ session > 0
    /\ f.pub_a = session /\ f.pub_b = session /\ f.pub_x = session
    /\ s.sk = session /\ s.lock = session /\ s.shared_coin = session /\ s.refund_tx = session
    /\ s.refund_height = f.mw_lock_time /\ "refund_coin" \in s.coins
    /\ Locked /\ btcOut.lock_time = f.btc_lock_time
    /\ mwOut.state # "none" /\ mwOut.keys = session
    /\ f.status = "FINISHED" => btcOut.state = "redeemed" /\ "swapped" \in s.coins
    /\ f.status = "FAILED" => mwOut.state = "refunded"
\* The same for Bob.
BtcDeal(f, s) ==
    /\ session > 0
    /\ f.pub_a = session /\ f.pub_b = session /\ f.pub_x = session
    /\ s.sk = session /\ s.x = session /\ s.lock = session /\ s.shared_coin = session
    /\ Locked /\ btcOut.lock_time = f.btc_lock_time
    /\ f.status = "FINISHED" => mwOut.state = "contract" /\ "swapped_coin" \in s.coins
    /\ f.status = "FAILED" => btcOut.state = "refunded" /\ "refunded" \in s.coins

MwMemory ==
    /\ pc["mw"] \in MwKeyed => /\ pub["mw"].status = "SETUP" /\ session > 0
                               /\ pub["mw"].pub_a = session /\ prv["mw"].sk = session
    /\ pc["mw"] \in MwMet => pub["mw"].pub_b = session /\ pub["mw"].pub_x = session
    /\ pc["mw"] \in MwTimed => LockedAt(pub["mw"].btc_lock_time)
    /\ pc["mw"] \in MwVerified => Locked /\ prv["mw"].lock = session
    /\ pc["mw"] \in MwShared => prv["mw"].shared_coin = session
    /\ pc["mw"] = "mw_fund" => /\ prv["mw"].refund_tx = session
                               /\ prv["mw"].refund_height = pub["mw"].mw_lock_time
                               /\ "refund_coin" \in prv["mw"].coins
    /\ Set("mw") => MwDeal(pub["mw"], prv["mw"])
BtcMemory ==
    /\ pc["btc"] \in BtcKeyed => /\ pub["btc"].status = "SETUP" /\ session > 0
                                 /\ pub["btc"].pub_a = session /\ pub["btc"].pub_b = session
                                 /\ pub["btc"].pub_x = session
                                 /\ prv["btc"].sk = session /\ prv["btc"].x = session
    /\ pc["btc"] \in BtcLocked => Locked /\ btcOut.lock_time = pub["btc"].btc_lock_time
    /\ pc["btc"] \in BtcNamed => prv["btc"].lock = session
    /\ pc["btc"] \in BtcShared => prv["btc"].shared_coin = session
    /\ Set("btc") => BtcDeal(pub["btc"], prv["btc"])

\* The files tell the truth, and fit the slate in memory.
Filing ==
    /\ Filed("mw") => MwDeal(pubFile["mw"], prvFile["mw"])
    /\ Filed("btc") => BtcDeal(pubFile["btc"], prvFile["btc"])
SameTerms(f, g) ==
    /\ f.pub_a = g.pub_a /\ f.pub_b = g.pub_b /\ f.pub_x = g.pub_x
    /\ f.btc_lock_time = g.btc_lock_time /\ f.mw_lock_time = g.mw_lock_time
FilesOf(p) ==
    /\ pubFile[p].status # "EXECUTING"
    /\ Filed(p) => SameTerms(pub[p], pubFile[p])
    /\ pc[p] \in LockSteps(p) => ~Filed(p)
    /\ pc[p] \in HandshakeSteps(p) \cup {"idle", FirstLockStep(p)} =>
           pub[p] = pubFile[p] /\ prv[p] = prvFile[p]
    /\ pc[p] \in ExecSteps(p) \cup RefundSteps(p) \cup SendCommandSteps \cup {"command"} =>
           pub[p].status \in {"SETUP", "EXECUTING"} /\ Filed("mw") /\ Filed("btc")
    /\ pc[p] \in ExecSteps(p) \cup RefundSteps(p) \cup {"write_prv"} =>
           pubFile[p].status \in {"INITIALIZED", "SETUP"}
    /\ pub[p].status = "EXECUTING" => pc[p] \in ExecSteps(p) \cup {"err"}
    /\ pc[p] \in {"write_prv", "write_pub"} => pub[p].status \in {"SETUP", "FINISHED", "FAILED"}
    /\ pc[p] = "write_pub" => prv[p] = prvFile[p]

\* Bob's last line ends the locking phase: Alice completes her slate only after him,
\* and he completes his when she needs nothing more.  Their lock heights agree.
Settling ==
    /\ pc["btc"] \in BtcLockSteps => ~Set("mw")
    /\ pc["mw"] \in MwLockSteps /\ Set("btc") =>
           pc["mw"] = "mw_fund" \/ (pc["mw"] = "mw_ref_final" /\ HasLine("mw"))
    /\ Dated("mw") /\ Dated("btc") => pub["mw"].mw_lock_time = pub["btc"].mw_lock_time

\* The session: nothing carries a later number, and its lock output is not there yet
\* when Bob has not sent the lock transaction.
Session ==
    /\ btcOut.keys <= session
    /\ \A p \in Party : pc[p] = FirstLockStep(p) => session > 0
    /\ pc["btc"] \in {"btc_keys", "btc_pub_b", "btc_height", "btc_lock"} => ~Locked
    /\ pc[Client] \in AskSteps /\ HasLine(Client) /\ LineTo(Client).type = "OK" /\ ~Filed(Client) =>
           session > 0 /\ ~Locked

\* The values of the lines under way, and the handshake.
LineValues ==
    /\ pc["btc"] = "btc_keys" /\ HasLine("btc") => LineTo("btc").val = session /\ session > 0
    /\ pc["mw"] = "mw_pub_b" /\ HasLine("mw") => LineTo("mw").val = session
    /\ pc["mw"] = "mw_lock_time" /\ HasLine("mw") => LockedAt(LineTo("mw").val)
    /\ pc["btc"] = "btc_mw_lock_time" /\ HasLine("btc") /\ Dated("mw") =>
           LineTo("btc").val = pub["mw"].mw_lock_time
    /\ pc["mw"] = "mw_ctr_final" /\ HasLine("mw") => LineTo("mw").val = session
    /\ pc[Listener] = "checksum" /\ HasLine(Listener) => LineTo(Listener).slate = pubFile[Client]
    /\ pc[Listener] = "ok" => pubFile[Client] = pubFile[Listener]
    /\ pc[Listener] = "command" => pub[Listener].status = "SETUP" /\ Filed(Client)
    /\ pc[Client] \in AskSteps /\ HasLine(Client) /\ LineTo(Client).type = "OK" =>
           /\ pubFile[Client] = pubFile[Listener]
           /\ pc[Listener] = "next_client" => pub[Listener].status \notin {"INITIALIZED", "SETUP"}

\* Refunds and the witness.
Outcome ==
    /\ mwOut.state = "refunded" =>
        /\ Filed("mw") /\ Filed("btc")
        /\ grinHeight > pubFile["mw"].mw_lock_time /\ btcHeight > pubFile["mw"].btc_lock_time
    /\ btcOut.state = "refunded" =>
        /\ Filed("mw") /\ Filed("btc")
        /\ grinHeight > pubFile["btc"].mw_lock_time /\ btcHeight > pubFile["btc"].btc_lock_time
    /\ pc["mw"] = "mw_refund_push" => can_refund("mw")
    /\ pc["btc"] = "btc_refund_push" => can_refund("btc")
    /\ pc["mw"] \in MwExecSteps \ {"mw_exec"} => mwOut.state # "refunded"
    /\ x # 0 => x = session /\ Filed("mw")
    /\ mwOut.state = "contract" => x # 0
    /\ pc["btc"] = "btc_contract" /\ (ack["btc"] => HasAck("btc")) => x # 0

Deal ==
    /\ MwMemory /\ BtcMemory
    /\ Filing /\ \A p \in Party : FilesOf(p)
    /\ Settling /\ Session /\ LineValues /\ Outcome
=============================================================================
