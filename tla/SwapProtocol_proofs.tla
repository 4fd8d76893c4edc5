------------------------ MODULE SwapProtocol_proofs ------------------------
(***************************************************************************)
(* Theorems about SwapProtocol, for every value of its constants.          *)
(***************************************************************************)
EXTENDS SwapProtocol, TLAPS

USE DEF Party, Peer, Status

-----------------------------------------------------------------------------
(* Type correctness.                                                       *)

\* A line of a message type carries a number.
LEMMA LineVal ==
    ASSUME NEW l \in Lines, l.type \in LineType
    PROVE  l.val \in Nat
BY Zenon DEF Lines, LineType

\* What the helpers for sending, receiving and ending do to the types.
LEMMA NetType ==
    ASSUME TypeOK, NEW p \in Party, NEW t \in LineType
    PROVE  /\ \A v \in Nat : send_msg(p, t, v) =>
                /\ net' \in [Party -> Seq(Lines)]
                /\ ack' \in [Party -> BOOLEAN] /\ link' \in BOOLEAN
           /\ receive_msg(p, t) =>
                /\ net' \in [Party -> Seq(Lines)]
                /\ ack' \in [Party -> BOOLEAN] /\ link' \in BOOLEAN
                /\ Msg(p) \in Nat
<1>1. ASSUME NEW v \in Nat, send_msg(p, t, v)
      PROVE  /\ net' \in [Party -> Seq(Lines)]
             /\ ack' \in [Party -> BOOLEAN] /\ link' \in BOOLEAN
  <2>1. Line(t, v) \in Lines
    BY Zenon DEF Line, Lines
  <2>2. net[Peer(p)] \in Seq(Lines) /\ Peer(p) \in Party
    BY Zenon DEF TypeOK
  <2>3. Append(net[Peer(p)], Line(t, v)) \in Seq(Lines)
    BY <2>1, <2>2, SMTT(30)
  <2> QED
    BY <1>1, <2>2, <2>3, Zenon DEF send_msg, TypeOK
<1>2. ASSUME receive_msg(p, t)
      PROVE  /\ net' \in [Party -> Seq(Lines)]
             /\ ack' \in [Party -> BOOLEAN] /\ link' \in BOOLEAN
             /\ Msg(p) \in Nat
  <2>1. ACK \in Lines
    BY Zenon DEF ACK, Line, Lines, LineType
  <2>2. net[p] \in Seq(Lines) /\ net[Peer(p)] \in Seq(Lines) /\ Peer(p) \in Party /\ net[p] # <<>>
    BY <1>2, Zenon DEF TypeOK, receive_msg, Incoming
  <2>3. Append(net[Peer(p)], ACK) \in Seq(Lines) /\ Tail(net[p]) \in Seq(Lines)
        /\ Head(net[p]) \in Lines
    BY <2>1, <2>2, SMTT(30)
  <2>4. Msg(p) \in Nat
    BY <1>2, <2>3, LineVal, Zenon DEF receive_msg, Incoming, Msg
  <2> QED
    BY <1>2, <2>2, <2>3, <2>4, Zenon DEF receive_msg, TypeOK
<1> QED
  BY <1>1, <1>2, Zenon

\* A process that ends reads its files again: the types are kept.
LEMMA DieType ==
    ASSUME TypeOK, NEW p \in Party, Die(p)
    PROVE  TypeOK'
<1>1. "idle" \in Pc
  BY Zenon DEF Pc
<1>2. <<>> \in Seq(Lines)
  OBVIOUS
<1> QED
  BY <1>1, <1>2, Zenon DEF Die, Goto, TypeOK, chainVars, fileVars, auxVars, givenVars

\* A step that sends one line and moves on keeps the types.
LEMMA SendStepType ==
    ASSUME TypeOK, NEW p \in Party, NEW at, NEW t \in LineType, NEW v \in Nat,
           NEW next \in Pc, SendStep(p, at, t, v, next)
    PROVE  TypeOK'
<1>1. /\ net' \in [Party -> Seq(Lines)]
      /\ ack' \in [Party -> BOOLEAN] /\ link' \in BOOLEAN
  BY NetType, Zenon DEF SendStep
<1> QED
  BY <1>1, Zenon DEF SendStep, Goto, TypeOK, chainVars, slateVars, fileVars, auxVars, givenVars

\* A step that receives one line and moves on keeps the types.
LEMMA ReceiveStepType ==
    ASSUME TypeOK, NEW p \in Party, NEW at, NEW t \in LineType,
           NEW next \in Pc, ReceiveStep(p, at, t, next)
    PROVE  TypeOK'
<1>1. /\ net' \in [Party -> Seq(Lines)]
      /\ ack' \in [Party -> BOOLEAN] /\ link' \in BOOLEAN
  BY NetType, Zenon DEF ReceiveStep
<1> QED
  BY <1>1, Zenon DEF ReceiveStep, Goto, TypeOK, chainVars, slateVars, fileVars, auxVars, givenVars

\* The places of the two processes, without the record that lists some of them.
LEMMA PcMembers ==
    /\ Sending \subseteq Pc
    /\ {"idle", "accept", "next_client", "err", "write_prv", "write_pub", "mw_import",
        "mw_verify", "mw_fund", "mw_exec", "mw_redeem", "mw_refund", "mw_refund_push",
        "btc_lock", "btc_exec", "btc_contract", "btc_refund", "btc_refund_push"} \subseteq Pc
    /\ {"lock", "execute", "cancel", "checksum", "command", "mw_pub_b", "mw_lock_time",
        "mw_address", "mw_ptx2", "mw_ref_ptx", "mw_ref_final", "mw_ctr_ptx2", "mw_ctr_final",
        "btc_keys", "btc_mw_lock_time", "btc_ptx", "btc_final", "btc_ref_ptx2",
        "btc_ctr_ptx", "btc_ctr_ptx3"} \subseteq Pc
BY Zenon DEF Pc, Expected

\* Listener and client are the two parties.
LEMMA ListenerParty == Listener \in Party /\ Client \in Party
BY Zenon DEF Listener, Client

\* The users start a command.
LEMMA UserStepType ==
    ASSUME TypeOK, UserStep
    PROVE  TypeOK'
<1>1. CASE Listen
  BY <1>1, ListenerParty, PcMembers, Zenon
  DEF Listen, ReadSlate, Goto, TypeOK, chainVars, commVars, fileVars, auxVars, givenVars
<1>2. ASSUME NEW c \in {"lock", "execute", "cancel"}, Command(c)
      PROVE  TypeOK'
  <2>1. [type |-> "checksum", slate |-> pubFile[Client]] \in Lines
    BY ListenerParty, Zenon DEF TypeOK, Lines
  <2>2. /\ <<[type |-> "checksum", slate |-> pubFile[Client]]>> \in Seq(Lines)
        /\ <<>> \in Seq(Lines)
    BY <2>1, SMTT(30)
  <2>3. net' \in [Party -> Seq(Lines)]
    BY <1>2, <2>2, Zenon DEF Command, TypeOK
  <2>4. pc' \in [Party -> Pc]
    BY <1>2, PcMembers, Zenon DEF Command, TypeOK
  <2> QED
    BY <1>2, <2>3, <2>4, ListenerParty, Zenon
    DEF Command, ReadSlate, TypeOK, chainVars, fileVars, auxVars, givenVars
<1> QED
  BY <1>1, <1>2, Zenon DEF UserStep, Lock, Execute, Cancel

\* The steps both parties have in common.
LEMMA CommonStepType ==
    ASSUME TypeOK, NEW p \in Party, CommonStep(p) \/ Crash(p)
    PROVE  TypeOK'
<1>1. CASE ReadAck(p)
  <2>1. Tail(net[p]) \in Seq(Lines)
    BY <1>1, SMTT(30) DEF ReadAck, TypeOK
  <2> QED
    BY <1>1, <2>1, Zenon DEF ReadAck, TypeOK, chainVars, slateVars, fileVars, auxVars, givenVars
<1>2. CASE WritePrv(p)
  <2>1. <<>> \in Seq(Lines)
    OBVIOUS
  <2> QED
    BY <1>2, <2>1, PcMembers
   , Zenon DEF WritePrv, Goto, TypeOK, chainVars, slateVars, auxVars, givenVars
<1>3. CASE WritePub(p)
  BY <1>3, PcMembers, Zenon
  DEF WritePub, Goto, TypeOK, chainVars, commVars, slateVars, auxVars, givenVars
<1>4. CASE Die(p)
  BY <1>4, DieType, Zenon
<1> QED
  BY <1>1, <1>2, <1>3, <1>4, Zenon
  DEF CommonStep, Err, BadTime, NodeRefuses, PeerGone, Crash

\* The handshake of the two commands.
LEMMA ListenStepType ==
    ASSUME TypeOK, ListenStep
    PROVE  TypeOK'
<1> USE ListenerParty
<1>1. CASE ListenChecksum
  <2>1. net' \in [Party -> Seq(Lines)] /\ ack' \in [Party -> BOOLEAN] /\ link' \in BOOLEAN
    <3>1. /\ net[Listener] \in Seq(Lines) /\ net[Peer(Listener)] \in Seq(Lines)
          /\ Peer(Listener) \in Party /\ net[Listener] # <<>>
      BY <1>1, Zenon DEF ListenChecksum, receive_msg, Incoming, TypeOK
    <3>2. ACK \in Lines
      BY Zenon DEF ACK, Line, Lines, LineType
    <3>3. Append(net[Peer(Listener)], ACK) \in Seq(Lines) /\ Tail(net[Listener]) \in Seq(Lines)
      BY <3>1, <3>2, SMTT(30)
    <3> QED
      BY <1>1, <3>1, <3>3, Zenon DEF ListenChecksum, receive_msg, TypeOK
  <2>2. pc' \in [Party -> Pc]
    BY <1>1, PcMembers, Zenon DEF ListenChecksum, Goto, TypeOK, Sending
  <2> QED
    BY <1>1, <2>1, <2>2, Zenon
    DEF ListenChecksum, TypeOK, chainVars, slateVars, fileVars, auxVars, givenVars
<1>2. ASSUME At(Listener, "ok"), send_msg(Listener, "OK", 0),
             pc' \in [Party -> Pc], session' \in Nat,
             UNCHANGED <<chainVars, slateVars, fileVars, attempts, x, givenVars>>
      PROVE  TypeOK'
  <2>1. net' \in [Party -> Seq(Lines)] /\ ack' \in [Party -> BOOLEAN] /\ link' \in BOOLEAN
    BY <1>2, NetType, Zenon DEF LineType
  <2> QED
    BY <1>2, <2>1, Zenon DEF TypeOK, chainVars, slateVars, fileVars, givenVars
<1>3. CASE ListenAnswer
  <2>1. CASE SendStep(Listener, "fault", "FAULT", 0, "next_client")
    BY <2>1, SendStepType, PcMembers, Zenon DEF LineType
  <2>2. CASE ~SendStep(Listener, "fault", "FAULT", 0, "next_client")
    <3>1. session' \in Nat
      BY <1>3, <2>2, SMTT(30) DEF ListenAnswer, TypeOK
    <3>2. pc' \in [Party -> Pc]
      BY <1>3, <2>2, PcMembers, ZenonT(30)
      DEF ListenAnswer, TypeOK, Goto, FirstLockStep, Sending
    <3> QED
      BY <1>2, <1>3, <2>2, <3>1, <3>2, Zenon DEF ListenAnswer
  <2> QED
    BY <2>1, <2>2, Zenon
<1>4. CASE ListenCommand
  <2>1. FirstExecStep(Listener) \in Pc /\ FirstRefundStep(Listener) \in Pc
    BY PcMembers, Zenon DEF FirstExecStep, FirstRefundStep
  <2> QED
    BY <1>4, <2>1, ReceiveStepType, Zenon DEF ListenCommand, LineType
<1>5. CASE ListenCommandEof
  BY <1>5, PcMembers, Zenon
  DEF ListenCommandEof, FirstRefundStep, Goto, TypeOK, chainVars, commVars, slateVars, fileVars,
      auxVars, givenVars
<1>6. CASE ListenNextClient
  <2>1. <<>> \in Seq(Lines)
    OBVIOUS
  <2> QED
    BY <1>6, <2>1, PcMembers
   , Zenon DEF ListenNextClient, Goto, TypeOK, chainVars, slateVars, fileVars, auxVars, givenVars
<1> QED
  BY <1>1, <1>3, <1>4, <1>5, <1>6, Zenon DEF ListenStep

\* The client's side of the handshake.
LEMMA ClientStepType ==
    ASSUME TypeOK, ClientStep
    PROVE  TypeOK'
<1> USE ListenerParty
<1>1. CASE ClientSendsCommand
  BY <1>1, SendStepType, PcMembers
 , Zenon DEF ClientSendsCommand, FirstExecStep, FirstRefundStep, LineType, Sending
<1>2. ASSUME receive_msg(Client, "OK"), pc' \in [Party -> Pc],
             UNCHANGED <<chainVars, slateVars, fileVars, auxVars>>
      PROVE  TypeOK'
  <2>1. net' \in [Party -> Seq(Lines)] /\ ack' \in [Party -> BOOLEAN] /\ link' \in BOOLEAN
    BY <1>2, NetType, Zenon DEF LineType
  <2> QED
    BY <1>2, <2>1, Zenon DEF TypeOK, chainVars, slateVars, fileVars, auxVars, givenVars
<1>3. ASSUME NEW l \in {"mw_keys", "btc_keys", "err", "send_execute", "send_cancel"}, Goto(Client, l)
      PROVE  pc' \in [Party -> Pc]
  BY <1>3, PcMembers, Zenon DEF Goto, TypeOK, Sending
<1>4. CASE ClientAnswered
  <2>1. CASE \E c \in {"lock", "execute", "cancel"} : ReceiveStep(Client, c, "FAULT", "err")
    BY <2>1, ReceiveStepType, PcMembers, Zenon DEF LineType
  <2>2. CASE ~\E c \in {"lock", "execute", "cancel"} : ReceiveStep(Client, c, "FAULT", "err")
    BY <1>2, <1>3, <1>4, <2>2, Zenon DEF ClientAnswered, FirstLockStep
  <2> QED
    BY <2>1, <2>2, Zenon
<1> QED
  BY <1>1, <1>4, Zenon DEF ClientStep

-----------------------------------------------------------------------------

\* One field or more of a slate is assigned.
LEMMA PubFields ==
    ASSUME NEW r \in PubSlate, NEW v \in Nat, NEW w \in Nat, NEW st \in Status
    PROVE  /\ [r EXCEPT !.status = st] \in PubSlate
           /\ [r EXCEPT !.status = st, !.pub_a = v] \in PubSlate
           /\ [r EXCEPT !.pub_b = v, !.pub_x = v] \in PubSlate
           /\ [r EXCEPT !.btc_lock_time = v] \in PubSlate
           /\ [r EXCEPT !.mw_lock_time = v] \in PubSlate
           /\ [r EXCEPT !.status = st, !.pub_a = v, !.pub_b = w, !.pub_x = w] \in PubSlate
BY Zenon DEF PubSlate

\* The same for the private slate.
LEMMA PrvFields ==
    ASSUME NEW r \in PrvSlate, NEW v \in Nat, NEW w \in Nat, NEW c \in SUBSET Coin
    PROVE  /\ [r EXCEPT !.sk = v] \in PrvSlate
           /\ [r EXCEPT !.sk = v, !.x = v] \in PrvSlate
           /\ [r EXCEPT !.lock = v] \in PrvSlate
           /\ [r EXCEPT !.shared_coin = v] \in PrvSlate
           /\ [r EXCEPT !.shared_coin = v, !.coins = c] \in PrvSlate
           /\ [r EXCEPT !.refund_tx = v, !.refund_height = w, !.coins = c] \in PrvSlate
           /\ [r EXCEPT !.coins = c] \in PrvSlate
BY Zenon DEF PrvSlate

\* The fields of a slate in memory, and what an assignment to it preserves.
LEMMA SlateType ==
    ASSUME TypeOK, NEW p \in Party
    PROVE  /\ pub[p] \in PubSlate /\ pub[p].pub_a \in Nat /\ pub[p].pub_b \in Nat
           /\ pub[p].mw_lock_time \in Nat /\ pub[p].btc_lock_time \in Nat
           /\ prv[p] \in PrvSlate /\ prv[p].sk \in Nat /\ prv[p].x \in Nat
           /\ prv[p].shared_coin \in Nat /\ prv[p].refund_tx \in Nat /\ prv[p].refund_height \in Nat
           /\ prv[p].coins \in SUBSET Coin
           /\ \A r \in PubSlate : pub' = [pub EXCEPT ![p] = r] => pub' \in [Party -> PubSlate]
           /\ \A r \in PrvSlate : prv' = [prv EXCEPT ![p] = r] => prv' \in [Party -> PrvSlate]
           /\ \A l \in Pc : Goto(p, l) => pc' \in [Party -> Pc]
<1>1. pub[p] \in PubSlate /\ prv[p] \in PrvSlate
  BY Zenon DEF TypeOK
<1>2. /\ pub[p].pub_a \in Nat /\ pub[p].pub_b \in Nat
      /\ pub[p].mw_lock_time \in Nat /\ pub[p].btc_lock_time \in Nat
  BY <1>1, Zenon DEF PubSlate
<1>3. /\ prv[p].sk \in Nat /\ prv[p].x \in Nat
      /\ prv[p].shared_coin \in Nat /\ prv[p].refund_tx \in Nat /\ prv[p].refund_height \in Nat
      /\ prv[p].coins \in SUBSET Coin
  BY <1>1, Zenon DEF PrvSlate
<1>4. \A r \in PubSlate : pub' = [pub EXCEPT ![p] = r] => pub' \in [Party -> PubSlate]
  BY SMTT(30) DEF TypeOK
<1>5. \A r \in PrvSlate : prv' = [prv EXCEPT ![p] = r] => prv' \in [Party -> PrvSlate]
  BY SMTT(30) DEF TypeOK
<1>6. \A l \in Pc : Goto(p, l) => pc' \in [Party -> Pc]
  BY SMTT(30) DEF TypeOK, Goto
<1> QED
  BY <1>1, <1>2, <1>3, <1>4, <1>5, <1>6, Zenon

ChainOK ==
    /\ btcHeight \in Nat /\ grinHeight \in Nat
    /\ btcOut \in [state : {"none", "mempool", "mined", "redeemed", "refunded"},
                   keys : Nat, lock_time : Nat]
    /\ mwOut \in [state : {"none", "shared", "contract", "refunded"}, keys : Nat]
    /\ watched \in SUBSET Nat /\ seen \in BOOLEAN
NetOK ==
    /\ net \in [Party -> Seq(Lines)]
    /\ ack \in [Party -> BOOLEAN] /\ link \in BOOLEAN

\* A step of a phase leaves the files and the imported inputs alone.
LEMMA PhaseType ==
    ASSUME TypeOK, ChainOK', NetOK', pc' \in [Party -> Pc],
           pub' \in [Party -> PubSlate], prv' \in [Party -> PrvSlate],
           attempts' \in Nat, x' \in Nat, session' = session, UNCHANGED <<fileVars, givenVars>>
    PROVE  TypeOK'
BY Zenon DEF TypeOK, ChainOK, NetOK, fileVars, givenVars

\* What a step of a phase leaves alone keeps its type.
LEMMA PhaseSame ==
    ASSUME TypeOK
    PROVE  /\ UNCHANGED chainVars => ChainOK'
           /\ UNCHANGED commVars => NetOK'
           /\ UNCHANGED pub => pub' \in [Party -> PubSlate]
           /\ UNCHANGED prv => prv' \in [Party -> PrvSlate]
           /\ UNCHANGED slateVars => pub' \in [Party -> PubSlate] /\ prv' \in [Party -> PrvSlate]
           /\ UNCHANGED pc => pc' \in [Party -> Pc]
           /\ UNCHANGED auxVars => /\ attempts' \in Nat /\ x' \in Nat /\ session' = session
                                   /\ UNCHANGED givenVars
<1>1. UNCHANGED chainVars => ChainOK'
  BY Zenon DEF TypeOK, ChainOK, chainVars
<1>2. UNCHANGED commVars => NetOK'
  BY Zenon DEF TypeOK, NetOK, commVars
<1> QED
  BY <1>1, <1>2, Zenon DEF TypeOK, slateVars, auxVars

\* Every node operation and every block keeps the types of the ledgers.
LEMMA ChainType ==
    ASSUME TypeOK, NEW s \in Nat, NEW t \in Nat
    PROVE  /\ import_btc_address(s) => ChainOK'
           /\ SendLock(s, t) => ChainOK'
           /\ SendRedeem(s, t) => ChainOK'
           /\ SendBtcRefund(s, t) => ChainOK'
           /\ PushFunding(s) => ChainOK'
           /\ PushContract(s) => ChainOK'
           /\ PushMwRefund(s, t) => ChainOK'
           /\ Mine => ChainOK'
<1>1. import_btc_address(s) => ChainOK'
  BY Zenon DEF TypeOK, ChainOK, import_btc_address
<1>2. SendLock(s, t) => ChainOK'
  BY SMTT(30) DEF TypeOK, ChainOK, SendLock
<1>3. SendRedeem(s, t) => ChainOK'
  BY Zenon DEF TypeOK, ChainOK, SendRedeem
<1>4. SendBtcRefund(s, t) => ChainOK'
  BY Zenon DEF TypeOK, ChainOK, SendBtcRefund
<1>5. PushFunding(s) => ChainOK'
  BY SMTT(30) DEF TypeOK, ChainOK, PushFunding
<1>6. PushContract(s) => ChainOK'
  BY Zenon DEF TypeOK, ChainOK, PushContract
<1>7. PushMwRefund(s, t) => ChainOK'
  BY Zenon DEF TypeOK, ChainOK, PushMwRefund
<1>8. Mine => ChainOK'
  <2>1. MineGrin => ChainOK'
    BY SMTT(30) DEF TypeOK, ChainOK, MineGrin
  <2>2. MineBtc => btcHeight' \in Nat
    BY SMTT(30) DEF TypeOK, MineBtc
  <2>3. MineBtc => seen' \in BOOLEAN
    BY Zenon DEF TypeOK, MineBtc
  <2>4. MineBtc => btcOut' \in [state : {"none", "mempool", "mined", "redeemed", "refunded"},
                                keys : Nat, lock_time : Nat]
    BY Zenon DEF TypeOK, MineBtc
  <2> QED
    BY <2>1, <2>2, <2>3, <2>4, Zenon DEF TypeOK, ChainOK, Mine, MineBtc
<1> QED
  BY <1>1, <1>2, <1>3, <1>4, <1>5, <1>6, <1>7, <1>8, Zenon

\* The numbers a phase computes with.
LEMMA NumberType ==
    ASSUME TypeOK, NEW p \in Party
    PROVE  session \in Nat /\ attempts \in Nat /\ x \in Nat /\ LockHeight(p) \in Nat
<1>1. Timelock[p] \in Nat
  BY NumbersAssumption, Zenon
<1>2. grinHeight \in Nat /\ btcHeight \in Nat /\ session \in Nat /\ attempts \in Nat /\ x \in Nat
  BY Zenon DEF TypeOK
<1> QED
  BY <1>1, <1>2, SMTT(30) DEF LockHeight

\* The checks at the head of execution and refund, when they succeed.
LEMMA StartType ==
    ASSUME TypeOK, NEW p \in Party, NEW at, NEW next \in Pc,
           StartExecution(p, at, next) \/ StartRefund(p, at, next)
    PROVE  TypeOK'
<1>1. [pub[p] EXCEPT !.status = "EXECUTING"] \in PubSlate
  BY PubFields, SlateType, Zenon
<1>2. CASE StartExecution(p, at, next)
  BY <1>1, <1>2, SlateType, PhaseSame, PhaseType, Zenon DEF StartExecution
<1>3. CASE StartRefund(p, at, next)
  BY <1>3, SlateType, PhaseSame, PhaseType, Zenon DEF StartRefund
<1> QED
  BY <1>2, <1>3, Zenon

\* Alice's phases.
LEMMA MwStepType ==
    ASSUME TypeOK, MwStep
    PROVE  TypeOK'
<1>1. CASE mw_send_pub_a
  <2>1. NetOK'
    BY <1>1, NetType, SlateType, NumberType, Zenon DEF mw_send_pub_a, NetOK, LineType
  <2>2. [pub["mw"] EXCEPT !.status = "SETUP", !.pub_a = session] \in PubSlate
    BY <2>1, PubFields, SlateType, NumberType, Zenon
  <2>3. [prv["mw"] EXCEPT !.sk = session] \in PrvSlate
    BY <2>1, <2>2, PrvFields, SlateType, NumberType, Zenon
  <2>4. pc' \in [Party -> Pc]
    BY <1>1, SlateType, PcMembers, Zenon DEF mw_send_pub_a, Sending
  <2> QED
    BY <1>1, <2>1, <2>2, <2>3, <2>4, SlateType, PhaseSame, PhaseType, ZenonT(30) DEF mw_send_pub_a
<1>2. CASE mw_receive_pub_b
  <2>1. NetOK' /\ Msg("mw") \in Nat
    BY <1>2, NetType, SlateType, NumberType, Zenon DEF mw_receive_pub_b, NetOK, LineType
  <2>2. [pub["mw"] EXCEPT !.pub_b = Msg("mw"), !.pub_x = Msg("mw")] \in PubSlate
    BY <2>1, PubFields, SlateType, NumberType, Zenon
  <2>3. pc' \in [Party -> Pc]
    BY <1>2, SlateType, PcMembers, Zenon DEF mw_receive_pub_b, Sending
  <2> QED
    BY <1>2, <2>1, <2>2, <2>3, SlateType, PhaseSame, PhaseType, Zenon DEF mw_receive_pub_b
<1>3. CASE mw_receive_lock_time
  <2>1. NetOK' /\ Msg("mw") \in Nat
    BY <1>3, NetType, SlateType, NumberType, Zenon DEF mw_receive_lock_time, NetOK, LineType
  <2>2. [pub["mw"] EXCEPT !.btc_lock_time = Msg("mw")] \in PubSlate
    BY <2>1, PubFields, SlateType, NumberType, Zenon
  <2>3. pc' \in [Party -> Pc]
    BY <1>3, SlateType, PcMembers, Zenon DEF mw_receive_lock_time, Sending
  <2> QED
    BY <1>3, <2>1, <2>2, <2>3, SlateType, PhaseSame, PhaseType, Zenon DEF mw_receive_lock_time
<1>4. CASE mw_import_address
  <2>1. ChainOK'
    BY <1>4, ChainType, SlateType, NumberType, Zenon DEF mw_import_address
  <2>2. pc' \in [Party -> Pc]
    BY <1>4, SlateType, PcMembers, Zenon DEF mw_import_address, Sending
  <2>3. attempts' \in Nat /\ x' \in Nat
    BY <1>4, NumbersAssumption, NumberType, Zenon DEF mw_import_address
  <2> QED
    BY <1>4, <2>1, <2>2, <2>3, SlateType, PhaseSame, PhaseType, Zenon DEF mw_import_address
<1>5. CASE mw_receive_address
  <2>1. NetOK'
    BY <1>5, NetType, SlateType, NumberType, Zenon DEF mw_receive_address, NetOK, LineType
  <2>2. [pub["mw"] EXCEPT !.status = "FAILED"] \in PubSlate
    BY <2>1, PubFields, SlateType, NumberType, Zenon
  <2>3. pc' \in [Party -> Pc]
    BY <1>5, SlateType, PcMembers, Zenon DEF mw_receive_address, Sending
  <2> QED
    BY <1>5, <2>1, <2>2, <2>3, SlateType, PhaseSame, PhaseType, Zenon DEF mw_receive_address
<1>6. CASE mw_balance_found
  <2>1. [prv["mw"] EXCEPT !.lock = pub["mw"].pub_a] \in PrvSlate
    BY PrvFields, SlateType, NumberType, Zenon
  <2>2. pc' \in [Party -> Pc]
    BY <1>6, SlateType, PcMembers, Zenon DEF mw_balance_found, Sending
  <2> QED
    BY <1>6, <2>1, <2>2, SlateType, PhaseSame, PhaseType, Zenon DEF mw_balance_found
<1>7. CASE mw_balance_differs
  <2>1. attempts' \in Nat /\ x' \in Nat
    BY <1>7, NumbersAssumption, NumberType, Zenon DEF mw_balance_differs
  <2> QED
    BY <1>7, <2>1, SlateType, PhaseSame, PhaseType, Zenon DEF mw_balance_differs
<1>8. CASE mw_balance_zero
  <2>1. attempts' \in Nat /\ x' \in Nat
    BY <1>8, NumbersAssumption, NumberType, SMTT(30) DEF mw_balance_zero
  <2> QED
    BY <1>8, <2>1, SlateType, PhaseSame, PhaseType, Zenon DEF mw_balance_zero
<1>9. CASE mw_not_verified
  <2>1. [pub["mw"] EXCEPT !.status = "FAILED"] \in PubSlate
    BY PubFields, SlateType, NumberType, Zenon
  <2>2. pc' \in [Party -> Pc]
    BY <1>9, SlateType, PcMembers, Zenon DEF mw_not_verified, Sending
  <2> QED
    BY <1>9, <2>1, <2>2, SlateType, PhaseSame, PhaseType, Zenon DEF mw_not_verified
<1>10. CASE mw_send_lock_height
  <2>1. NetOK'
    BY <1>10, NetType, SlateType, NumberType, Zenon DEF mw_send_lock_height, NetOK, LineType
  <2>2. [pub["mw"] EXCEPT !.mw_lock_time = LockHeight("mw")] \in PubSlate
    BY <2>1, PubFields, SlateType, NumberType, Zenon
  <2>3. pc' \in [Party -> Pc]
    BY <1>10, SlateType, PcMembers, Zenon DEF mw_send_lock_height, Sending
  <2> QED
    BY <1>10, <2>1, <2>2, <2>3, SlateType, PhaseSame, PhaseType, Zenon DEF mw_send_lock_height
<1>11. CASE mw_shared_out
  <2>1. CASE At("mw", "mw_final") /\ send_msg("mw", "final", 0)
    <3> DEFINE c == IF value["mw"] > Amount["mw"] + Fee["mw"]
                    THEN AddCoin("mw", "change_coin") ELSE prv["mw"].coins \ {"change_coin"}
    <3>1. NetOK'
      BY <2>1, NetType, Zenon DEF NetOK, LineType
    <3>2. c \in SUBSET Coin
      BY SlateType, Zenon DEF AddCoin, Coin
    <3>3. [prv["mw"] EXCEPT !.shared_coin = pub["mw"].pub_a, !.coins = c] \in PrvSlate
      BY <3>2, PrvFields, SlateType, Zenon
    <3>4. /\ prv' = [prv EXCEPT !["mw"] = [prv["mw"] EXCEPT !.shared_coin = pub["mw"].pub_a, !.coins = c]]
          /\ Goto("mw", "mw_ref_ptx")
          /\ UNCHANGED <<chainVars, pub, fileVars, auxVars>>
      BY <1>11, <2>1, Zenon DEF mw_shared_out, SendStep, ReceiveStep, At
    <3> QED
      BY <3>1, <3>3, <3>4, SlateType, PcMembers, PhaseSame, PhaseType, ZenonT(30)
  <2>2. CASE ~(At("mw", "mw_final") /\ send_msg("mw", "final", 0))
    BY <1>11, <2>2, SendStepType, ReceiveStepType, PcMembers, ZenonT(30) DEF mw_shared_out, LineType, Sending
  <2> QED
    BY <2>1, <2>2, Zenon
<1>12. CASE mw_funds_panic
  BY <1>12, DieType, Zenon DEF mw_funds_panic
<1>13. CASE mw_refund_tx
  <2>1. CASE At("mw", "mw_ref_ptx")
    <3>1. /\ receive_msg("mw", "ref_ptx")
          /\ Goto("mw", IF Msg("mw") = pub["mw"].mw_lock_time THEN "mw_ref_ptx2" ELSE "err")
          /\ UNCHANGED <<chainVars, slateVars, fileVars, auxVars>>
      BY <1>13, <2>1, Zenon DEF mw_refund_tx, SendStep, At
    <3>2. NetOK'
      BY <3>1, NetType, Zenon DEF NetOK, LineType
    <3>3. pc' \in [Party -> Pc]
      BY <3>1, SlateType, PcMembers, Zenon DEF Sending
    <3> QED
      BY <3>1, <3>2, <3>3, PhaseSame, PhaseType, Zenon
  <2>2. CASE At("mw", "mw_ref_final")
    <3>1. /\ receive_msg("mw", "ref_final")
          /\ prv' = [prv EXCEPT !["mw"] = [prv["mw"] EXCEPT !.refund_tx = prv["mw"].shared_coin,
                          !.refund_height = pub["mw"].mw_lock_time,
                          !.coins = AddCoin("mw", "refund_coin")]]
          /\ Goto("mw", "mw_fund")
          /\ UNCHANGED <<chainVars, pub, fileVars, auxVars>>
      BY <1>13, <2>2, Zenon DEF mw_refund_tx, SendStep, At
    <3>2. NetOK'
      BY <3>1, NetType, Zenon DEF NetOK, LineType
    <3>3. [prv["mw"] EXCEPT !.refund_tx = prv["mw"].shared_coin,
                          !.refund_height = pub["mw"].mw_lock_time,
                          !.coins = AddCoin("mw", "refund_coin")] \in PrvSlate
      <4>1. AddCoin("mw", "refund_coin") \in SUBSET Coin
        BY SlateType, Zenon DEF AddCoin, Coin
      <4> QED
        BY <4>1, PrvFields, SlateType, Zenon
    <3> QED
      BY <3>1, <3>2, <3>3, SlateType, PcMembers, PhaseSame, PhaseType, Zenon
  <2>3. CASE SendStep("mw", "mw_ref_ptx2", "ref_ptx2", 0, "mw_ref_final")
    BY <2>3, SendStepType, PcMembers, Zenon DEF LineType
  <2> QED
    BY <1>13, <2>1, <2>2, <2>3, Zenon DEF mw_refund_tx
<1>14. CASE mw_push_funding
  <2>1. ChainOK'
    BY <1>14, ChainType, SlateType, NumberType, Zenon DEF mw_push_funding
  <2>2. pc' \in [Party -> Pc]
    BY <1>14, SlateType, PcMembers, Zenon DEF mw_push_funding, Sending
  <2> QED
    BY <1>14, <2>1, <2>2, SlateType, PhaseSame, PhaseType, Zenon DEF mw_push_funding
<1>15. CASE StartExecution("mw", "mw_exec", "mw_ctr_ptx")
  BY <1>15, StartType, PcMembers, Zenon DEF Sending
<1>16. CASE mw_contract_tx
  <2>1. CASE At("mw", "mw_ctr_ptx2")
    <3>1. /\ receive_msg("mw", "ctr_ptx2")
          /\ Goto("mw", IF Msg("mw") = pub["mw"].pub_x THEN "mw_ctr_ptx3" ELSE "err")
          /\ UNCHANGED <<chainVars, slateVars, fileVars, auxVars>>
      BY <1>16, <2>1, Zenon DEF mw_contract_tx, SendStep, At
    <3>2. NetOK'
      BY <3>1, NetType, Zenon DEF NetOK, LineType
    <3>3. pc' \in [Party -> Pc]
      BY <3>1, SlateType, PcMembers, Zenon DEF Sending
    <3> QED
      BY <3>1, <3>2, <3>3, PhaseSame, PhaseType, Zenon
  <2>2. CASE At("mw", "mw_ctr_final")
    <3>1. /\ receive_msg("mw", "ctr_final")
          /\ x' = Msg("mw")
          /\ Goto("mw", "mw_redeem")
          /\ UNCHANGED <<chainVars, slateVars, fileVars, attempts, session, givenVars>>
      BY <1>16, <2>2, Zenon DEF mw_contract_tx, SendStep, At
    <3>2. NetOK' /\ x' \in Nat
      BY <3>1, NetType, Zenon DEF NetOK, LineType
    <3>3. attempts' \in Nat
      BY <3>1, NumberType, Zenon
    <3> QED
      BY <3>1, <3>2, <3>3, SlateType, PcMembers, PhaseSame, PhaseType, Zenon
  <2>3. CASE SendStep("mw", "mw_ctr_ptx", "ctr_ptx", 0, "mw_ctr_ptx2")
    BY <2>3, SendStepType, PcMembers, Zenon DEF LineType
  <2>4. CASE SendStep("mw", "mw_ctr_ptx3", "ctr_ptx3", prv["mw"].shared_coin, "mw_ctr_final")
    BY <2>4, SendStepType, SlateType, PcMembers, Zenon DEF LineType
  <2> QED
    BY <1>16, <2>1, <2>2, <2>3, <2>4, Zenon DEF mw_contract_tx
<1>17. CASE mw_redeem
  <2>1. ChainOK'
    BY <1>17, ChainType, SlateType, NumberType, Zenon DEF mw_redeem
  <2>2. AddCoin("mw", "swapped") \in SUBSET Coin
    BY SlateType, Zenon DEF AddCoin, Coin
  <2>3. [prv["mw"] EXCEPT !.coins = AddCoin("mw", "swapped")] \in PrvSlate
    BY <2>1, <2>2, PrvFields, SlateType, NumberType, ZenonT(30)
  <2>4. [pub["mw"] EXCEPT !.status = "FINISHED"] \in PubSlate
    BY <2>1, <2>2, <2>3, PubFields, SlateType, NumberType, Zenon
  <2>5. pc' \in [Party -> Pc]
    BY <1>17, SlateType, PcMembers, Zenon DEF mw_redeem, Sending
  <2> QED
    BY <1>17, <2>1, <2>2, <2>3, <2>4, <2>5, SlateType, PhaseSame, PhaseType, Zenon DEF mw_redeem
<1>18. CASE StartRefund("mw", "mw_refund", "mw_refund_push")
  BY <1>18, StartType, PcMembers, Zenon
<1>19. CASE mw_push_refund
  <2>1. ChainOK'
    BY <1>19, ChainType, SlateType, NumberType, Zenon DEF mw_push_refund
  <2>2. [pub["mw"] EXCEPT !.status = "FAILED"] \in PubSlate
    BY <2>1, PubFields, SlateType, NumberType, ZenonT(30)
  <2>3. pc' \in [Party -> Pc]
    BY <1>19, SlateType, PcMembers, Zenon DEF mw_push_refund, Sending
  <2> QED
    BY <1>19, <2>1, <2>2, <2>3, SlateType, PhaseSame, PhaseType, Zenon DEF mw_push_refund
<1> QED
  BY <1>1, <1>2, <1>3, <1>4, <1>5, <1>6, <1>7, <1>8, <1>9, <1>10, <1>11, <1>12, <1>13, <1>14, <1>15, <1>16, <1>17, <1>18, <1>19, Zenon
  DEF MwStep, locking_phase_swap_mw, exec_phase_swap_mw, refund_phase_swap_mw

\* Bob's phases.
LEMMA BtcStepType ==
    ASSUME TypeOK, BtcStep
    PROVE  TypeOK'
<1>1. CASE btc_receive_pub_a
  <2>1. NetOK' /\ Msg("btc") \in Nat
    BY <1>1, NetType, SlateType, NumberType, Zenon DEF btc_receive_pub_a, NetOK, LineType
  <2>2. [pub["btc"] EXCEPT !.status = "SETUP", !.pub_a = Msg("btc"),
                         !.pub_b = session, !.pub_x = session] \in PubSlate
    BY <2>1, PubFields, SlateType, NumberType, ZenonT(30)
  <2>3. [prv["btc"] EXCEPT !.sk = session, !.x = session] \in PrvSlate
    BY <2>1, <2>2, PrvFields, SlateType, NumberType, Zenon
  <2>4. pc' \in [Party -> Pc]
    BY <1>1, SlateType, PcMembers, Zenon DEF btc_receive_pub_a, Sending
  <2> QED
    BY <1>1, <2>1, <2>2, <2>3, <2>4, SlateType, PhaseSame, PhaseType, Zenon DEF btc_receive_pub_a
<1>2. CASE btc_send_pub_b
  BY <1>2, SendStepType, SlateType, PcMembers, Zenon DEF btc_send_pub_b, LineType, Sending
<1>3. CASE btc_send_lock_time
  <2>1. NetOK'
    BY <1>3, NetType, SlateType, NumberType, Zenon DEF btc_send_lock_time, NetOK, LineType
  <2>2. [pub["btc"] EXCEPT !.btc_lock_time = LockHeight("btc")] \in PubSlate
    BY <2>1, PubFields, SlateType, NumberType, Zenon
  <2>3. pc' \in [Party -> Pc]
    BY <1>3, SlateType, PcMembers, Zenon DEF btc_send_lock_time, Sending
  <2> QED
    BY <1>3, <2>1, <2>2, <2>3, SlateType, PhaseSame, PhaseType, ZenonT(30) DEF btc_send_lock_time
<1>4. CASE btc_lock_fails
  BY <1>4, DieType, Zenon DEF btc_lock_fails
<1>5. CASE btc_send_lock
  <2>1. ChainOK'
    BY <1>5, ChainType, SlateType, NumberType, Zenon DEF btc_send_lock
  <2>2. AddCoin("btc", "change") \in SUBSET Coin
    BY SlateType, Zenon DEF AddCoin, Coin
  <2>3. [prv["btc"] EXCEPT !.coins = AddCoin("btc", "change")] \in PrvSlate
    BY <2>1, <2>2, PrvFields, SlateType, NumberType, Zenon
  <2>4. pc' \in [Party -> Pc]
    BY <1>5, SlateType, PcMembers, Zenon DEF btc_send_lock, Sending
  <2> QED
    BY <1>5, <2>1, <2>2, <2>3, <2>4, SlateType, PhaseSame, PhaseType, Zenon DEF btc_send_lock
<1>6. CASE btc_send_address
  <2>1. NetOK'
    BY <1>6, NetType, SlateType, NumberType, Zenon DEF btc_send_address, NetOK, LineType
  <2>2. [prv["btc"] EXCEPT !.lock = prv["btc"].sk] \in PrvSlate
    BY <2>1, PrvFields, SlateType, NumberType, Zenon
  <2>3. pc' \in [Party -> Pc]
    BY <1>6, SlateType, PcMembers, Zenon DEF btc_send_address, Sending
  <2> QED
    BY <1>6, <2>1, <2>2, <2>3, SlateType, PhaseSame, PhaseType, Zenon DEF btc_send_address
<1>7. CASE btc_receive_lock_height
  <2>1. NetOK' /\ Msg("btc") \in Nat
    BY <1>7, NetType, SlateType, NumberType, Zenon DEF btc_receive_lock_height, NetOK, LineType
  <2>2. [pub["btc"] EXCEPT !.mw_lock_time = Msg("btc")] \in PubSlate
    BY <2>1, PubFields, SlateType, NumberType, Zenon
  <2>3. pc' \in [Party -> Pc]
    BY <1>7, SlateType, PcMembers, Zenon DEF btc_receive_lock_height, Sending
  <2> QED
    BY <1>7, <2>1, <2>2, <2>3, SlateType, PhaseSame, PhaseType, Zenon DEF btc_receive_lock_height
<1>8. CASE btc_shared_out
  <2>1. CASE At("btc", "btc_final")
    <3>1. /\ receive_msg("btc", "final")
          /\ prv' = [prv EXCEPT !["btc"] = [prv["btc"] EXCEPT !.shared_coin = prv["btc"].sk]]
          /\ Goto("btc", "btc_ref_ptx")
          /\ UNCHANGED <<chainVars, pub, fileVars, auxVars>>
      BY <1>8, <2>1, Zenon DEF btc_shared_out, SendStep, ReceiveStep, At
    <3>2. NetOK'
      BY <3>1, NetType, Zenon DEF NetOK, LineType
    <3>3. [prv["btc"] EXCEPT !.shared_coin = prv["btc"].sk] \in PrvSlate
      BY PrvFields, SlateType, Zenon
    <3> QED
      BY <3>1, <3>2, <3>3, SlateType, PcMembers, PhaseSame, PhaseType, Zenon DEF Sending
  <2>2. CASE ~At("btc", "btc_final")
    BY <1>8, <2>2, SendStepType, ReceiveStepType, PcMembers, Zenon DEF btc_shared_out, LineType, Sending
  <2> QED
    BY <2>1, <2>2, Zenon
<1>9. CASE btc_refund_tx
  BY <1>9, SendStepType, ReceiveStepType, SlateType, PcMembers, Zenon DEF btc_refund_tx, LineType, Sending
<1>10. CASE StartExecution("btc", "btc_exec", "btc_ctr_ptx")
  BY <1>10, StartType, PcMembers, Zenon
<1>11. CASE btc_contract_tx
  <2>1. CASE At("btc", "btc_ctr_ptx3")
    <3>1. /\ receive_msg("btc", "ctr_ptx3")
          /\ Goto("btc", IF Msg("btc") = prv["btc"].shared_coin THEN "btc_ctr_final" ELSE "err")
          /\ UNCHANGED <<chainVars, slateVars, fileVars, auxVars>>
      BY <1>11, <2>1, Zenon DEF btc_contract_tx, SendStep, ReceiveStep, At
    <3>2. NetOK'
      BY <3>1, NetType, Zenon DEF NetOK, LineType
    <3>3. pc' \in [Party -> Pc]
      BY <3>1, SlateType, PcMembers, Zenon DEF Sending
    <3> QED
      BY <3>1, <3>2, <3>3, PhaseSame, PhaseType, Zenon
  <2>2. CASE ~At("btc", "btc_ctr_ptx3")
    BY <1>11, <2>2, SendStepType, ReceiveStepType, SlateType, PcMembers
   , Zenon DEF btc_contract_tx, LineType, Sending
  <2> QED
    BY <2>1, <2>2, Zenon
<1>12. CASE btc_push_contract
  <2>1. ChainOK'
    BY <1>12, ChainType, SlateType, NumberType, Zenon DEF btc_push_contract
  <2>2. AddCoin("btc", "swapped_coin") \in SUBSET Coin
    BY SlateType, Zenon DEF AddCoin, Coin
  <2>3. [prv["btc"] EXCEPT !.coins = AddCoin("btc", "swapped_coin")] \in PrvSlate
    BY <2>1, <2>2, PrvFields, SlateType, NumberType, ZenonT(30)
  <2>4. [pub["btc"] EXCEPT !.status = "FINISHED"] \in PubSlate
    BY <2>1, <2>2, <2>3, PubFields, SlateType, NumberType, Zenon
  <2>5. pc' \in [Party -> Pc]
    BY <1>12, SlateType, PcMembers, Zenon DEF btc_push_contract, Sending
  <2> QED
    BY <1>12, <2>1, <2>2, <2>3, <2>4, <2>5, SlateType, PhaseSame, PhaseType, Zenon DEF btc_push_contract
<1>13. CASE StartRefund("btc", "btc_refund", "btc_refund_push")
  BY <1>13, StartType, PcMembers, Zenon
<1>14. CASE btc_send_refund
  <2>1. ChainOK'
    BY <1>14, ChainType, SlateType, NumberType, Zenon DEF btc_send_refund
  <2>2. AddCoin("btc", "refunded") \in SUBSET Coin
    BY SlateType, Zenon DEF AddCoin, Coin
  <2>3. [prv["btc"] EXCEPT !.coins = AddCoin("btc", "refunded")] \in PrvSlate
    BY <2>1, <2>2, PrvFields, SlateType, NumberType, ZenonT(30)
  <2>4. [pub["btc"] EXCEPT !.status = "FAILED"] \in PubSlate
    BY <2>1, <2>2, <2>3, PubFields, SlateType, NumberType, Zenon
  <2>5. pc' \in [Party -> Pc]
    BY <1>14, SlateType, PcMembers, Zenon DEF btc_send_refund, Sending
  <2> QED
    BY <1>14, <2>1, <2>2, <2>3, <2>4, <2>5, SlateType, PhaseSame, PhaseType, Zenon DEF btc_send_refund
<1> QED
  BY <1>1, <1>2, <1>3, <1>4, <1>5, <1>6, <1>7, <1>8, <1>9, <1>10, <1>11, <1>12, <1>13, <1>14, Zenon
  DEF BtcStep, locking_phase_swap_btc, exec_phase_swap_btc, refund_phase_swap_btc

\* Every step of the system keeps the types.
LEMMA NextType ==
    ASSUME TypeOK, [Next]_vars
    PROVE  TypeOK'
<1>1. CASE UNCHANGED vars
  BY <1>1, Zenon
  DEF TypeOK, vars, chainVars, commVars, slateVars, fileVars, auxVars, givenVars
<1>2. CASE Mine
  BY <1>2, ChainType, PhaseSame, PhaseType, Zenon DEF Mine, auxVars
<1> QED
  BY <1>1, <1>2, MwStepType, BtcStepType, ListenStepType, ClientStepType, CommonStepType,
     UserStepType, Zenon
  DEF Next, ProcessStep

\* TypeOK holds in every reachable state: slates, lines, ledgers and places of
\* the two processes stay within their types.
THEOREM TypeCorrect == Spec => []TypeOK
<1>1. Init => TypeOK
  <2>1. NewPub \in PubSlate /\ NewPrv \in PrvSlate
    BY Zenon DEF NewPub, PubSlate, NewPrv, PrvSlate
  <2>2. <<>> \in Seq(Lines) /\ "idle" \in Pc
    BY PcMembers, SMTT(30)
  <2>3. Init => value \in [Party -> Nat] /\ exact \in BOOLEAN
    BY NumbersAssumption, FlagsAssumption, Zenon DEF Init
  <2>4. Init => ChainOK
    <3>1. ChainsInit => seen \in BOOLEAN /\ watched \in SUBSET Nat
      BY Zenon DEF ChainsInit
    <3>2. ChainsInit => /\ btcHeight \in Nat /\ grinHeight \in Nat
                        /\ mwOut \in [state : {"none", "shared", "contract", "refunded"}, keys : Nat]
      BY SMTT(30) DEF ChainsInit
    <3>3. ChainsInit => btcOut \in [state : {"none", "mempool", "mined", "redeemed", "refunded"},
                                    keys : Nat, lock_time : Nat]
      BY SMTT(30) DEF ChainsInit
    <3> QED
      BY <3>1, <3>2, <3>3, Zenon DEF Init, ChainOK
  <2>5. Init => NetOK /\ pc \in [Party -> Pc]
    <3>1. Init => link \in BOOLEAN /\ ack \in [Party -> BOOLEAN]
      BY Zenon DEF Init
    <3> QED
      BY <2>2, <3>1, Zenon DEF Init, NetOK
  <2>6. Init => /\ pub \in [Party -> PubSlate] /\ prv \in [Party -> PrvSlate]
                /\ pubFile \in [Party -> PubSlate] /\ prvFile \in [Party -> PrvSlate]
    BY <2>1, Zenon DEF Init
  <2>7. Init => attempts \in Nat /\ x \in Nat /\ session \in Nat
    BY SMTT(30) DEF Init
  <2> QED
    BY <2>3, <2>4, <2>5, <2>6, <2>7, Zenon DEF ChainOK, NetOK, TypeOK
<1>2. TypeOK /\ [Next]_vars => TypeOK'
  BY NextType, Zenon
<1> QED
  BY <1>1, <1>2, PTL DEF Spec

-----------------------------------------------------------------------------
(* Alice commits her coins last.  The invariant follows her locking phase: *)
(* from the verification of the lock output on, that output stays what she *)
(* verified; from the last step of dshared_out_mw_tx_alice on, her share   *)
(* of the output belongs to the same session; and before the funding       *)
(* transaction is pushed, the refund transaction is complete.              *)

SharedSteps == {"mw_ref_ptx", "mw_ref_ptx2", "mw_ref_final", "mw_fund"}
VerifiedSteps == {"mw_height", "mw_spend", "mw_ptx2", "mw_final"} \cup SharedSteps

LockSeen(k) == seen /\ btcOut.state # "none" /\ btcOut.keys = k
RefundReady ==
    /\ prv["mw"].refund_tx = prv["mw"].shared_coin
    /\ prv["mw"].refund_height = pub["mw"].mw_lock_time
    /\ "refund_coin" \in prv["mw"].coins
FundingInv ==
    /\ pc["mw"] \in VerifiedSteps => LockSeen(pub["mw"].pub_a)
    /\ pc["mw"] \in SharedSteps => prv["mw"].shared_coin = pub["mw"].pub_a
    /\ pc["mw"] = "mw_fund" => RefundReady
    /\ FundedAfterLock

\* What no step but the push of the funding transaction does to the ledgers.
LocksKept ==
    /\ btcOut.state # "none" => btcOut'.state # "none" /\ btcOut'.keys = btcOut.keys
    /\ btcOut.state # "none" /\ seen => seen'
OutputKept == mwOut'.state # "none" => mwOut.state # "none" /\ mwOut'.keys = mwOut.keys
\* A step after which Alice is where she was with the slate she had, or
\* outside of the part of her locking phase the invariant is about.
AliceKept ==
    pc'["mw"] \in VerifiedSteps =>
        pc'["mw"] = pc["mw"] /\ pub'["mw"] = pub["mw"] /\ prv'["mw"] = prv["mw"]

\* Steps that keep all three keep the invariant.
LEMMA KeptInv ==
    ASSUME FundingInv, LocksKept, OutputKept, AliceKept
    PROVE  FundingInv'
<1>1. FundedAfterLock'
  BY Zenon DEF FundingInv, FundedAfterLock, LocksKept, OutputKept
<1>2. (pc["mw"] \in VerifiedSteps => LockSeen(pub["mw"].pub_a))'
  BY Zenon DEF FundingInv, LocksKept, AliceKept, LockSeen
<1>3. (pc["mw"] \in SharedSteps => prv["mw"].shared_coin = pub["mw"].pub_a)'
  BY Zenon DEF FundingInv, AliceKept, VerifiedSteps
<1>4. (pc["mw"] = "mw_fund" => RefundReady)'
  BY Zenon DEF FundingInv, AliceKept, VerifiedSteps, SharedSteps, RefundReady
<1> QED
  BY <1>1, <1>2, <1>3, <1>4, Zenon DEF FundingInv

\* The node operations, one by one.
LEMMA LedgerKept ==
    ASSUME TypeOK
    PROVE  /\ UNCHANGED chainVars => LocksKept /\ OutputKept
           /\ \A s : import_btc_address(s) => LocksKept /\ OutputKept
           /\ \A s, t : SendLock(s, t) => LocksKept /\ OutputKept
           /\ \A s, t : SendRedeem(s, t) => LocksKept /\ OutputKept
           /\ \A s, t : SendBtcRefund(s, t) => LocksKept /\ OutputKept
           /\ \A s : PushContract(s) => LocksKept /\ OutputKept
           /\ \A s, t : PushMwRefund(s, t) => LocksKept /\ OutputKept
           /\ MineBtc \/ MineGrin => LocksKept /\ OutputKept
<1> USE DEF LocksKept, OutputKept
<1>1. UNCHANGED chainVars => LocksKept /\ OutputKept
  BY SMTT(30) DEF chainVars
<1>2. \A s : import_btc_address(s) => LocksKept /\ OutputKept
  BY SMTT(30) DEF import_btc_address
<1>3. \A s, t : SendLock(s, t) => LocksKept /\ OutputKept
  BY Zenon DEF SendLock, LockAccepted
<1>4. \A s, t : SendRedeem(s, t) => LocksKept /\ OutputKept
  BY SMTT(30) DEF SendRedeem, TypeOK
<1>5. \A s, t : SendBtcRefund(s, t) => LocksKept /\ OutputKept
  BY SMTT(30) DEF SendBtcRefund, TypeOK
<1>6. \A s : PushContract(s) => LocksKept /\ OutputKept
  BY SMTT(30) DEF PushContract, ContractAccepted, TypeOK
<1>7. \A s, t : PushMwRefund(s, t) => LocksKept /\ OutputKept
  BY SMTT(30) DEF PushMwRefund, MwRefundAccepted, TypeOK
<1>8. MineBtc \/ MineGrin => LocksKept /\ OutputKept
  BY SMTT(30) DEF MineBtc, MineGrin, TypeOK
<1> QED
  BY <1>1, <1>2, <1>3, <1>4, <1>5, <1>6, <1>7, <1>8, Zenon

\* The end of a process, and a step that leaves Alice's process alone.
LEMMA AliceElsewhere ==
    ASSUME TypeOK
    PROVE  /\ \A p \in Party : Die(p) => AliceKept /\ UNCHANGED chainVars
           /\ UNCHANGED <<pc, slateVars>> => AliceKept
<1>1. Die("mw") => AliceKept
  <2>1. Goto("mw", "idle") => pc'["mw"] = "idle"
    BY Zenon DEF TypeOK, Goto
  <2> QED
    BY <2>1, Zenon DEF Die, AliceKept, VerifiedSteps, SharedSteps
<1>2. Die("btc") => AliceKept
  BY Zenon DEF TypeOK, Die, Goto, AliceKept
<1>3. \A p \in Party : Die(p) => UNCHANGED chainVars
  BY Zenon DEF Die
<1> QED
  BY <1>1, <1>2, <1>3, Zenon DEF AliceKept, slateVars

\* The places the funding invariant says nothing about.
LEMMA Outside ==
    /\ {"idle", "accept", "next_client", "err", "write_prv", "write_pub", "mw_import",
        "mw_verify", "mw_exec", "mw_redeem", "mw_refund", "mw_refund_push", "lock", "execute",
        "cancel", "checksum", "command", "ok", "fault", "send_execute", "send_cancel", "mw_keys",
        "mw_pub_b", "mw_lock_time", "mw_address", "mw_ctr_ptx", "mw_ctr_ptx2", "mw_ctr_ptx3",
        "mw_ctr_final", "btc_keys", "btc_exec", "btc_refund"} \subseteq Pc \ VerifiedSteps
BY PcMembers, ZenonT(30) DEF VerifiedSteps, SharedSteps, Sending

\* The commands: a user's, the handshake's and the common steps.
LEMMA CommandsKeep ==
    ASSUME TypeOK, NEW p \in Party,
           UserStep \/ ListenStep \/ ClientStep \/ CommonStep(p) \/ Crash(p) \/ Mine
    PROVE  LocksKept /\ OutputKept /\ AliceKept
<1>1. ASSUME NEW q \in Party, NEW l \in Pc \ VerifiedSteps, Goto(q, l),
             q # "mw" => pub'["mw"] = pub["mw"] /\ prv'["mw"] = prv["mw"]
      PROVE  AliceKept
  BY <1>1, Zenon DEF TypeOK, Goto, AliceKept
<1>2. CASE UserStep
  <2>1. UNCHANGED chainVars
    BY <1>2, Zenon DEF UserStep, Listen, Lock, Execute, Cancel, Command
  <2>2. CASE Listen
    <3>1. Goto(Listener, "accept")
      BY <2>2, Zenon DEF Listen
    <3>2. Listener # "mw" => pub'["mw"] = pub["mw"] /\ prv'["mw"] = prv["mw"]
      BY <2>2, ListenerParty, Zenon DEF Listen, ReadSlate, TypeOK
    <3> QED
      BY <1>1, <2>1, <3>1, <3>2, LedgerKept, Outside, ListenerParty, Zenon
  <2>3. ASSUME NEW c \in {"lock", "execute", "cancel"}, Command(c)
        PROVE  AliceKept
    <3>1. pc'["mw"] \in {c, "checksum"}
      BY <2>3, Zenon DEF Command, TypeOK, Client, Listener
    <3> QED
      BY <3>1, Outside, Zenon DEF AliceKept
  <2> QED
    BY <1>2, <2>1, <2>2, <2>3, LedgerKept, Zenon DEF UserStep, Lock, Execute, Cancel
<1>3. CASE ListenStep
  <2>1. UNCHANGED <<chainVars, slateVars>>
    BY <1>3, Zenon DEF ListenStep, ListenChecksum, ListenAnswer, ListenCommand, ListenCommandEof,
                ListenNextClient, SendStep, ReceiveStep
  <2>2. \E l \in {"ok", "fault", "mw_keys", "btc_keys", "command", "next_client", "mw_exec",
                  "btc_exec", "mw_refund", "btc_refund", "accept"} : Goto(Listener, l)
    <3>1. CASE ListenChecksum
      BY <3>1, Zenon DEF ListenChecksum
    <3>2. CASE ListenAnswer
      BY <3>2, Zenon DEF ListenAnswer, SendStep, FirstLockStep
    <3>3. CASE ListenCommand \/ ListenCommandEof \/ ListenNextClient
      BY <3>3, Zenon DEF ListenCommand, ListenCommandEof, ListenNextClient, ReceiveStep,
                  FirstExecStep, FirstRefundStep
    <3> QED
      BY <1>3, <3>1, <3>2, <3>3, Zenon DEF ListenStep
  <2> QED
    BY <1>1, <2>1, <2>2, LedgerKept, ListenerParty, Outside, Zenon DEF slateVars
<1>4. CASE ClientStep
  <2>1. UNCHANGED <<chainVars, slateVars>>
    BY <1>4, Zenon DEF ClientStep, ClientAnswered, ClientSendsCommand, SendStep, ReceiveStep
  <2>2. \E l \in {"err", "mw_keys", "btc_keys", "send_execute", "send_cancel", "mw_exec",
                  "btc_exec", "mw_refund", "btc_refund"} : Goto(Client, l)
    <3>1. CASE ClientAnswered
      BY <3>1, Zenon DEF ClientAnswered, ReceiveStep, FirstLockStep
    <3>2. CASE ClientSendsCommand
      BY <3>2, Zenon DEF ClientSendsCommand, SendStep, FirstExecStep, FirstRefundStep
    <3> QED
      BY <1>4, <3>1, <3>2, Zenon DEF ClientStep
  <2> QED
    BY <1>1, <2>1, <2>2, LedgerKept, ListenerParty, Outside, Zenon DEF slateVars
<1>5. CASE ReadAck(p)
  BY <1>5, AliceElsewhere, LedgerKept, Zenon DEF ReadAck
<1>6. CASE WritePrv(p) \/ WritePub(p)
  BY <1>1, <1>6, Outside, LedgerKept, Zenon DEF WritePrv, WritePub, slateVars
<1>7. CASE Die(p)
  BY <1>7, AliceElsewhere, LedgerKept, Zenon
<1>8. CASE Mine
  BY <1>8, AliceElsewhere, LedgerKept, Zenon DEF Mine
<1> QED
  BY <1>2, <1>3, <1>4, <1>5, <1>6, <1>7, <1>8, Zenon
  DEF CommonStep, Err, BadTime, NodeRefuses, PeerGone, Crash

\* Bob's phases never touch Alice's slate, and his node operations keep the
\* lock output and the shared output.
LEMMA BtcKeeps ==
    ASSUME TypeOK, BtcStep
    PROVE  LocksKept /\ OutputKept /\ AliceKept
<1>1. CASE locking_phase_swap_btc
  <2>1. CASE btc_lock_fails
    BY <2>1, AliceElsewhere, LedgerKept, Zenon DEF btc_lock_fails
  <2>2. CASE btc_send_lock
    BY <2>2, LedgerKept, Zenon DEF btc_send_lock, Goto, AliceKept, TypeOK
  <2>3. CASE btc_receive_pub_a \/ btc_send_lock_time \/ btc_send_address \/ btc_receive_lock_height
    BY <2>3, LedgerKept, Zenon
    DEF btc_receive_pub_a, btc_send_lock_time, btc_send_address, btc_receive_lock_height, Goto, AliceKept, TypeOK
  <2>4. CASE btc_send_pub_b \/ btc_shared_out \/ btc_refund_tx
    BY <2>4, LedgerKept, Zenon
    DEF btc_send_pub_b, btc_shared_out, btc_refund_tx, SendStep, ReceiveStep, slateVars, Goto, AliceKept, TypeOK
  <2> QED
    BY <1>1, <2>1, <2>2, <2>3, <2>4, Zenon DEF locking_phase_swap_btc
<1>2. CASE exec_phase_swap_btc
  <2>1. CASE StartExecution("btc", "btc_exec", "btc_ctr_ptx")
    BY <2>1, LedgerKept, Zenon DEF StartExecution, Goto, AliceKept, TypeOK
  <2>2. CASE btc_contract_tx
    BY <2>2, LedgerKept, Zenon DEF btc_contract_tx, SendStep, ReceiveStep, slateVars, Goto, AliceKept, TypeOK
  <2>3. CASE btc_push_contract
    BY <2>3, LedgerKept, Zenon DEF btc_push_contract, Goto, AliceKept, TypeOK
  <2> QED
    BY <1>2, <2>1, <2>2, <2>3, Zenon DEF exec_phase_swap_btc
<1>3. CASE refund_phase_swap_btc
  <2>1. CASE StartRefund("btc", "btc_refund", "btc_refund_push")
    BY <2>1, LedgerKept, Zenon DEF StartRefund, slateVars, Goto, AliceKept, TypeOK
  <2>2. CASE btc_send_refund
    BY <2>2, LedgerKept, Zenon DEF btc_send_refund, Goto, AliceKept, TypeOK
  <2> QED
    BY <1>3, <2>1, <2>2, Zenon DEF refund_phase_swap_btc
<1> QED
  BY <1>1, <1>2, <1>3, Zenon DEF BtcStep

\* Alice's steps keep the invariant and the lock output; the shared output
\* appears with the push of the funding transaction alone.
LEMMA MwKeeps ==
    ASSUME TypeOK, FundingInv, MwStep
    PROVE  FundingInv' /\ (mw_push_funding \/ OutputKept)
<1> USE DEF LockSeen
<1>1. ASSUME NEW l \in Pc \ VerifiedSteps, Goto("mw", l), LocksKept, OutputKept
      PROVE  FundingInv' /\ OutputKept
  BY <1>1, KeptInv, Zenon DEF Goto, TypeOK, AliceKept
<1>2. CASE mw_send_pub_a \/ mw_receive_pub_b \/ mw_receive_lock_time
  BY <1>1, <1>2, Outside, LedgerKept, Zenon DEF mw_send_pub_a, mw_receive_pub_b, mw_receive_lock_time
<1>3. CASE mw_import_address
  BY <1>1, <1>3, Outside, LedgerKept, Zenon DEF mw_import_address
<1>4. CASE mw_receive_address
  <2>1. Goto("mw", "mw_verify") \/ Goto("mw", "err")
    BY <1>4, Zenon DEF mw_receive_address
  <2> QED
    BY <1>1, <1>4, <2>1, Outside, LedgerKept, Zenon DEF mw_receive_address
<1>5. CASE mw_balance_found
  <2>1. pc'["mw"] = "mw_height" /\ UNCHANGED <<chainVars, pub>>
    BY <1>5, Zenon DEF mw_balance_found, Goto, TypeOK
  <2>2. LockSeen(pub["mw"].pub_a)
    BY <1>5, Zenon DEF mw_balance_found, BalanceVisible, BtcUnspent
  <2> QED
    BY <2>1, <2>2, Zenon DEF FundingInv, FundedAfterLock, OutputKept, SharedSteps, chainVars
<1>6. CASE mw_balance_differs \/ mw_balance_zero
  BY <1>6, AliceElsewhere, LedgerKept, KeptInv, Zenon DEF mw_balance_differs, mw_balance_zero
<1>7. CASE mw_not_verified
  BY <1>1, <1>7, Outside, LedgerKept, Zenon DEF mw_not_verified
<1>8. CASE mw_send_lock_height
  <2>1. /\ pc["mw"] = "mw_height" /\ pc'["mw"] = "mw_spend"
        /\ pub'["mw"].pub_a = pub["mw"].pub_a /\ UNCHANGED chainVars
    BY <1>8, Zenon DEF mw_send_lock_height, At, Goto, TypeOK, PubSlate
  <2> QED
    BY <2>1, Zenon DEF FundingInv, FundedAfterLock, OutputKept, VerifiedSteps, SharedSteps, chainVars
<1>9. CASE mw_shared_out
  <2>1. /\ pc["mw"] \in {"mw_spend", "mw_ptx2", "mw_final"}
        /\ UNCHANGED <<chainVars, pub>>
    BY <1>9, Zenon DEF mw_shared_out, SendStep, ReceiveStep, At, slateVars
  <2>2. \/ pc'["mw"] \in {"mw_ptx2", "mw_final"}
        \/ pc'["mw"] = "mw_ref_ptx" /\ prv'["mw"].shared_coin = pub["mw"].pub_a
    <3>1. \A r : prv' = [prv EXCEPT !["mw"] = r] => prv'["mw"] = r
      BY Zenon DEF TypeOK
    <3>2. \A l : Goto("mw", l) => pc'["mw"] = l
      BY Zenon DEF Goto, TypeOK
    <3> DEFINE new == [prv["mw"] EXCEPT !.shared_coin = pub["mw"].pub_a,
                          !.coins = IF value["mw"] > Amount["mw"] + Fee["mw"]
                                    THEN AddCoin("mw", "change_coin")
                                    ELSE prv["mw"].coins \ {"change_coin"}]
    <3>3. new.shared_coin = pub["mw"].pub_a
      BY SlateType, Zenon DEF PrvSlate
    <3>4. CASE At("mw", "mw_final")
      <4>1. prv' = [prv EXCEPT !["mw"] = new] /\ Goto("mw", "mw_ref_ptx")
        BY <1>9, <3>4, Zenon DEF mw_shared_out, SendStep, ReceiveStep, At
      <4> HIDE DEF new
      <4> QED
        BY <3>1, <3>2, <3>3, <4>1, Zenon
    <3>5. CASE ~At("mw", "mw_final")
      BY <1>9, <3>2, <3>5, Zenon DEF mw_shared_out, SendStep, ReceiveStep
    <3> QED
      BY <3>4, <3>5, Zenon
  <2> QED
    BY <2>1, <2>2, Zenon DEF FundingInv, FundedAfterLock, OutputKept, VerifiedSteps, SharedSteps, chainVars
<1>10. CASE mw_funds_panic
  BY <1>10, AliceElsewhere, LedgerKept, KeptInv, Zenon DEF mw_funds_panic
<1>11. CASE mw_refund_tx
  <2>1. /\ pc["mw"] \in SharedSteps /\ UNCHANGED <<chainVars, pub>>
    BY <1>11, Zenon DEF mw_refund_tx, SendStep, At, slateVars, SharedSteps
  <2>2. \/ pc'["mw"] \in {"mw_ref_ptx2", "mw_ref_final", "err"} /\ UNCHANGED prv
        \/ /\ pc'["mw"] = "mw_fund"
           /\ prv'["mw"].shared_coin = prv["mw"].shared_coin
           /\ prv'["mw"].refund_tx = prv["mw"].shared_coin
           /\ prv'["mw"].refund_height = pub["mw"].mw_lock_time
           /\ "refund_coin" \in prv'["mw"].coins
    <3>1. \A r : prv' = [prv EXCEPT !["mw"] = r] => prv'["mw"] = r
      BY ZenonT(30) DEF TypeOK
    <3>2. \A l : Goto("mw", l) => pc'["mw"] = l
      BY ZenonT(30) DEF Goto, TypeOK
    <3> DEFINE new == [prv["mw"] EXCEPT !.refund_tx = prv["mw"].shared_coin,
                          !.refund_height = pub["mw"].mw_lock_time,
                          !.coins = AddCoin("mw", "refund_coin")]
    <3>3. /\ new.shared_coin = prv["mw"].shared_coin /\ new.refund_tx = prv["mw"].shared_coin
          /\ new.refund_height = pub["mw"].mw_lock_time /\ "refund_coin" \in new.coins
      BY SlateType, Zenon DEF PrvSlate, AddCoin
    <3>4. CASE At("mw", "mw_ref_final")
      <4>1. prv' = [prv EXCEPT !["mw"] = new] /\ Goto("mw", "mw_fund")
        BY <1>11, <3>4, Zenon DEF mw_refund_tx, SendStep, At
      <4> HIDE DEF new
      <4> QED
        BY <3>1, <3>2, <3>3, <4>1, Zenon
    <3>5. CASE ~At("mw", "mw_ref_final")
      BY <1>11, <3>2, <3>5, Zenon DEF mw_refund_tx, SendStep, slateVars
    <3> QED
      BY <3>4, <3>5, Zenon
  <2> QED
    BY <2>1, <2>2, Zenon
    DEF FundingInv, FundedAfterLock, OutputKept, VerifiedSteps, SharedSteps, RefundReady, chainVars
<1>12. CASE mw_push_funding
  <2>1. /\ pc["mw"] = "mw_fund" /\ pc'["mw"] = "write_prv"
        /\ mwOut'.keys = prv["mw"].shared_coin /\ UNCHANGED <<btcOut, seen>>
    BY <1>12, Zenon DEF mw_push_funding, At, Goto, TypeOK, PushFunding
  <2>2. LockSeen(prv["mw"].shared_coin)
    BY <2>1, Zenon DEF FundingInv, VerifiedSteps, SharedSteps
  <2> QED
    BY <1>12, <2>1, <2>2, Zenon DEF FundingInv, FundedAfterLock, VerifiedSteps, SharedSteps
<1>13. CASE StartExecution("mw", "mw_exec", "mw_ctr_ptx")
  BY <1>1, <1>13, Outside, LedgerKept, Zenon DEF StartExecution
<1>14. CASE mw_contract_tx
  <2>1. \E l \in {"mw_ctr_ptx2", "mw_ctr_ptx3", "mw_ctr_final", "mw_redeem", "err"} : Goto("mw", l)
    BY <1>14, Zenon DEF mw_contract_tx, SendStep
  <2>2. UNCHANGED chainVars
    BY <1>14, Zenon DEF mw_contract_tx, SendStep
  <2> QED
    BY <1>1, <2>1, <2>2, Outside, LedgerKept, Zenon
<1>15. CASE mw_redeem
  BY <1>1, <1>15, Outside, LedgerKept, Zenon DEF mw_redeem
<1>16. CASE StartRefund("mw", "mw_refund", "mw_refund_push")
  BY <1>1, <1>16, Outside, LedgerKept, Zenon DEF StartRefund
<1>17. CASE mw_push_refund
  BY <1>1, <1>17, Outside, LedgerKept, Zenon DEF mw_push_refund
<1> QED
  BY <1>2, <1>3, <1>4, <1>5, <1>6, <1>7, <1>8, <1>9, <1>10, <1>11, <1>12, <1>13, <1>14,
     <1>15, <1>16, <1>17, Zenon
  DEF MwStep, locking_phase_swap_mw, exec_phase_swap_mw, refund_phase_swap_mw

\* Every step keeps the funding invariant, and only the push of the funding
\* transaction makes the shared output appear.
LEMMA NextKeeps ==
    ASSUME TypeOK, FundingInv, [Next]_vars
    PROVE  FundingInv' /\ (mw_push_funding \/ OutputKept)
<1>1. CASE UNCHANGED vars
  BY <1>1, AliceElsewhere, LedgerKept, KeptInv, Zenon DEF vars
<1>2. CASE MwStep
  BY <1>2, MwKeeps, Zenon
<1>3. CASE ~MwStep /\ Next
  BY <1>3, BtcKeeps, CommandsKeep, KeptInv, Zenon DEF Next, ProcessStep
<1> QED
  BY <1>1, <1>2, <1>3, Zenon

\* The funding invariant holds in every reachable state.
LEMMA FundingInvariant == Spec => [](TypeOK /\ FundingInv)
<1>1. Init => FundingInv
  BY SMTT(30) DEF Init, ChainsInit, FundingInv, FundedAfterLock, VerifiedSteps, SharedSteps
<1>2. TypeOK /\ FundingInv /\ [Next]_vars => FundingInv'
  BY NextKeeps, Zenon
<1> QED
  BY <1>1, <1>2, TypeCorrect, PTL DEF Spec

\* Alice's coins are on the shared output only when Bob's are, or were, on the
\* lock output of the same session and her node has seen them, whatever
\* crashes, restarts and new sessions happen in between.
THEOREM FundedAfterLockHolds == Spec => []FundedAfterLock
<1>1. FundingInv => FundedAfterLock
  BY Zenon DEF FundingInv
<1> QED
  BY <1>1, FundingInvariant, PTL

\* The step that publishes the funding transaction is taken with the refund
\* transaction of the same output, locked to the agreed height, in hand.
THEOREM RefundTxFirstHolds == Spec => RefundTxFirst
<1>1. TypeOK /\ FundingInv /\ [Next]_vars =>
        [mwOut.state = "none" /\ mwOut'.state # "none" =>
            /\ prv["mw"].refund_tx = mwOut'.keys
            /\ prv["mw"].refund_height = pub["mw"].mw_lock_time
            /\ "refund_coin" \in prv["mw"].coins]_vars
  <2>1. SUFFICES ASSUME TypeOK, FundingInv, [Next]_vars,
                        mwOut.state = "none", mwOut'.state # "none"
                 PROVE  /\ prv["mw"].refund_tx = mwOut'.keys
                        /\ prv["mw"].refund_height = pub["mw"].mw_lock_time
                        /\ "refund_coin" \in prv["mw"].coins
    OBVIOUS
  <2>2. mw_push_funding
    BY <2>1, NextKeeps, Zenon DEF OutputKept
  <2>3. pc["mw"] = "mw_fund" /\ mwOut'.keys = prv["mw"].shared_coin
    BY <2>2, Zenon DEF mw_push_funding, At, PushFunding
  <2> QED
    BY <2>1, <2>3, Zenon DEF FundingInv, RefundReady
<1> QED
  BY <1>1, FundingInvariant, PTL DEF Spec, RefundTxFirst
=============================================================================
