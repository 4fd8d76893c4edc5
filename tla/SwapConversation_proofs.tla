---------------------- MODULE SwapConversation_proofs ----------------------
(***************************************************************************)
(* The two processes of SwapProtocol stay in step: every action preserves  *)
(* Conversation.                                                           *)
(***************************************************************************)
EXTENDS SwapInvariant, TLAPS

USE DEF Party, Peer

\* The numbers the steps compute with are natural.
LEMMA Amounts ==
    ASSUME TypeOK, NEW p \in Party
    PROVE  /\ session \in Nat /\ LockHeight(p) \in Nat
           /\ pub[p].pub_b \in Nat /\ pub[p].mw_lock_time \in Nat
           /\ prv[p].sk \in Nat /\ prv[p].x \in Nat /\ prv[p].shared_coin \in Nat
<1>1. pub[p] \in PubSlate /\ prv[p] \in PrvSlate
  BY Zenon DEF TypeOK
<1>2. Timelock[p] \in Nat
  BY NumbersAssumption, Zenon
<1>3. session \in Nat /\ LockHeight(p) \in Nat
  BY <1>2, SMTT(30) DEF LockHeight, TypeOK
<1>4. pub[p].pub_b \in Nat /\ pub[p].mw_lock_time \in Nat
  BY <1>1, Zenon DEF PubSlate
<1> QED
  BY <1>1, <1>3, <1>4, Zenon DEF PrvSlate

-----------------------------------------------------------------------------
(* Queues.  What send_msg, receive_msg and the reading of an ACK do to the *)
(* lines under way.                                                        *)

\* The empty sequence.
LEMMA EmptySeq ==
    ASSUME NEW S, NEW s \in Seq(S)
    PROVE  s = <<>> <=> Len(s) = 0
OBVIOUS

\* Sequences of at most two elements.
LEMMA ShortSeq ==
    ASSUME NEW S, NEW s \in Seq(S)
    PROVE  /\ Len(s) \in Nat
           /\ s = <<>> <=> Len(s) = 0
           /\ Len(s) <= 2 => Len(s) = 0 \/ Len(s) = 1 \/ Len(s) = 2
           /\ s # <<>> => Head(s) = s[1] /\ Len(Tail(s)) = Len(s) - 1 /\ Tail(s) \in Seq(S)
           /\ Len(s) = 1 => Tail(s) = <<>>
           /\ Len(s) = 2 => Tail(s)[1] = s[2]
           /\ \A e \in S : /\ Append(s, e) \in Seq(S) /\ Len(Append(s, e)) = Len(s) + 1
                           /\ Append(s, e)[Len(s) + 1] = e
                           /\ Len(s) = 1 => Append(s, e)[1] = s[1]
<1>1. Len(s) \in Nat
  OBVIOUS
<1>2. Len(s) <= 2 => Len(s) = 0 \/ Len(s) = 1 \/ Len(s) = 2
  <2>1. \A n \in Nat : n <= 2 => n = 0 \/ n = 1 \/ n = 2
    OBVIOUS
  <2> QED
    BY <1>1, <2>1, Zenon
<1>3. s = <<>> <=> Len(s) = 0
  OBVIOUS
<1>4. ASSUME s # <<>>
      PROVE  Head(s) = s[1] /\ Len(Tail(s)) = Len(s) - 1 /\ Tail(s) \in Seq(S)
  BY <1>4, SMTT(30)
<1>5. ASSUME Len(s) = 1
      PROVE  Tail(s) = <<>>
  <2>1. s # <<>> /\ Len(Tail(s)) = 0 /\ Tail(s) \in Seq(S)
    BY <1>3, <1>5, SMTT(30)
  <2> QED
    BY <2>1, EmptySeq, Zenon
<1>6. ASSUME Len(s) = 2
      PROVE  Tail(s)[1] = s[2]
  BY <1>3, <1>6, SMTT(30)
<1>7. ASSUME NEW e \in S
      PROVE  /\ Append(s, e) \in Seq(S) /\ Len(Append(s, e)) = Len(s) + 1
             /\ Append(s, e)[Len(s) + 1] = e
             /\ Len(s) = 1 => Append(s, e)[1] = s[1]
  OBVIOUS
<1> QED
  BY <1>2, <1>5, SMTT(30)

\* The shapes of a queue.
LEMMA QueueShape ==
    ASSUME TypeOK, NEW p \in Party, Queue(p)
    PROVE  /\ net[p] = <<>> <=> ~HasAck(p) /\ ~HasLine(p)
           /\ net[p] # <<>> => (Head(net[p]).type = "ACK" <=> HasAck(p))
           /\ HasLine(p) /\ ~HasAck(p) => Len(net[p]) = 1 /\ Head(net[p]) = LineTo(p)
           /\ HasLine(p) /\ HasAck(p) => Len(net[p]) = 2
           /\ ~HasLine(p) /\ HasAck(p) => Len(net[p]) = 1
           /\ net[p] # <<>> => LineTo(p) \in Lines
<1> DEFINE s == net[p]
<1>1. s \in Seq(Lines)
  BY Zenon DEF TypeOK
<1>2. /\ s = <<>> <=> Len(s) = 0
      /\ s # <<>> => Head(s) = s[1]
      /\ s # <<>> => Len(s) = 1 \/ Len(s) = 2
  BY <1>1, ShortSeq, Zenon DEF Queue
<1>3. Len(s) = 2 => s[1].type = "ACK" /\ s[2].type # "ACK"
  BY Zenon DEF Queue
<1>4. s # <<>> => s[Len(s)] \in Lines
  BY <1>1, SMTT(30)
<1> QED
  BY <1>2, <1>3, <1>4, Zenon DEF HasAck, HasLine, LineTo

\* A queue that does not change.
LEMMA SameQueue ==
    ASSUME NEW p \in Party, net'[p] = net[p]
    PROVE  /\ HasLine(p)' <=> HasLine(p)
           /\ HasAck(p)' <=> HasAck(p)
           /\ Queue(p)' <=> Queue(p)
           /\ LineTo(p)' = LineTo(p)
BY Zenon DEF HasLine, HasAck, Queue, LineTo

\* An emptied queue.
LEMMA NoQueue ==
    ASSUME NEW p \in Party, net'[p] = <<>>
    PROVE  ~HasLine(p)' /\ ~HasAck(p)' /\ Queue(p)'
BY SMTT(30) DEF HasLine, HasAck, Queue

\* send_msg puts its line alone, or behind an ACK, into the queue of the peer.
LEMMA SendQueue ==
    ASSUME TypeOK, NEW p \in Party, NEW t \in LineType, NEW v \in Nat, t # "ACK",
           send_msg(p, t, v), Queue(Peer(p)), ~HasLine(Peer(p))
    PROVE  /\ HasLine(Peer(p))' /\ LineTo(Peer(p))' = Line(t, v) /\ Queue(Peer(p))'
           /\ HasAck(Peer(p))' <=> HasAck(Peer(p))
           /\ net'[p] = net[p]
           /\ ack'[p] /\ ack'[Peer(p)] = ack[Peer(p)] /\ link /\ link'
<1> DEFINE s == net[Peer(p)]
           e == Line(t, v)
<1>1. Peer(p) \in Party /\ Peer(p) # p /\ e \in Lines /\ e.type = t /\ s \in Seq(Lines)
  BY Zenon DEF TypeOK, Line, Lines
<1>2. /\ net'[Peer(p)] = Append(s, e) /\ net'[p] = net[p]
      /\ ack'[p] /\ ack'[Peer(p)] = ack[Peer(p)] /\ link /\ link'
  BY <1>1, Zenon DEF send_msg, TypeOK
<1>3. s = <<>> \/ (Len(s) = 1 /\ s # <<>> /\ s[1].type = "ACK")
  <2>1. s = <<>> \/ Len(s) = 1
    BY QueueShape, Zenon
  <2> QED
    BY <2>1, Zenon DEF HasLine
<1>4. /\ Append(s, e) \in Seq(Lines) /\ Len(Append(s, e)) = Len(s) + 1
      /\ Append(s, e)[Len(s) + 1] = e
      /\ Len(s) = 1 => Append(s, e)[1] = s[1]
      /\ Len(s) \in Nat /\ (s = <<>> <=> Len(s) = 0)
  BY <1>1, ShortSeq, SMTT(30)
<1>5. Append(s, e) = <<>> <=> Len(Append(s, e)) = 0
  BY <1>4, SMTT(30)
<1>6. CASE s = <<>>
  BY <1>1, <1>2, <1>6, SMTT(30) DEF HasLine, LineTo, Queue, HasAck
<1>7. CASE Len(s) = 1 /\ s # <<>> /\ s[1].type = "ACK"
  BY <1>1, <1>2, <1>4, <1>7, SMTT(30) DEF HasLine, LineTo, Queue, HasAck
<1> QED
  BY <1>3, <1>6, <1>7, Zenon

\* receive_msg takes the line that is under way, and answers with an ACK.
LEMMA ReceiveQueue ==
    ASSUME TypeOK, NEW p \in Party, NEW t, t # "ACK",
           receive_msg(p, t), Queue(p), link => net[Peer(p)] = <<>>
    PROVE  /\ HasLine(p) /\ ~HasAck(p) /\ LineTo(p) = Head(net[p]) /\ LineTo(p).type = t
           /\ ~HasLine(p)' /\ ~HasAck(p)' /\ Queue(p)'
           /\ link => HasAck(Peer(p))' /\ ~HasLine(Peer(p))' /\ Queue(Peer(p))'
           /\ ~link => net'[Peer(p)] = net[Peer(p)]
           /\ ack' = ack /\ link' = link
<1>1. /\ net[p] \in Seq(Lines) /\ net[p] # <<>> /\ Head(net[p]).type = t
      /\ Peer(p) \in Party /\ Peer(p) # p /\ net[Peer(p)] \in Seq(Lines)
  BY Zenon DEF TypeOK, receive_msg, Incoming
<1>2. HasLine(p) /\ ~HasAck(p) /\ LineTo(p) = Head(net[p]) /\ Len(net[p]) = 1
  BY <1>1, QueueShape, Zenon
<1>3. net'[p] = Tail(net[p])
  BY Zenon DEF receive_msg, TypeOK
<1>4. net'[p] = <<>>
  BY <1>1, <1>2, <1>3, ShortSeq, Zenon
<1>5. ASSUME link
      PROVE  HasAck(Peer(p))' /\ ~HasLine(Peer(p))' /\ Queue(Peer(p))'
  <2>1. net'[Peer(p)] = Append(<<>>, ACK)
    BY <1>5, Zenon DEF receive_msg, TypeOK
  <2>2. net'[Peer(p)] = <<ACK>>
    BY <2>1, SMTT(30)
  <2> QED
    BY <2>2, SMTT(30) DEF HasAck, HasLine, Queue, ACK, Line
<1>6. ~link => net'[Peer(p)] = net[Peer(p)]
  BY <1>1, SMTT(30) DEF receive_msg
<1> QED
  BY <1>1, <1>2, <1>4, <1>5, <1>6, NoQueue, Zenon DEF receive_msg

\* A process reads its ACK and leaves the line behind it.
LEMMA AckQueue ==
    ASSUME TypeOK, NEW p \in Party, ReadAck(p), Queue(p)
    PROVE  /\ HasAck(p) /\ ~HasAck(p)' /\ Queue(p)'
           /\ HasLine(p)' <=> HasLine(p)
           /\ HasLine(p) => LineTo(p)' = LineTo(p)
           /\ net'[Peer(p)] = net[Peer(p)]
           /\ ack[p] /\ ~ack'[p] /\ ack'[Peer(p)] = ack[Peer(p)] /\ link' = link /\ pc' = pc
<1>1. /\ net[p] \in Seq(Lines) /\ net[p] # <<>> /\ Head(net[p]).type = "ACK"
      /\ Peer(p) \in Party /\ Peer(p) # p
  BY Zenon DEF TypeOK, ReadAck
<1>2. HasAck(p)
  BY <1>1, QueueShape, Zenon
<1>3. /\ net'[p] = Tail(net[p]) /\ net'[Peer(p)] = net[Peer(p)]
      /\ ack[p] /\ ~ack'[p] /\ ack'[Peer(p)] = ack[Peer(p)] /\ link' = link /\ pc' = pc
  BY <1>1, Zenon DEF ReadAck, TypeOK
<1>4. CASE HasLine(p)
  <2>1. Len(net[p]) = 2 /\ Len(net'[p]) = 1 /\ net'[p] \in Seq(Lines) /\ net'[p][1] = net[p][2]
    BY <1>1, <1>2, <1>3, <1>4, QueueShape, SMTT(30)
  <2>2. net'[p] # <<>> /\ net[p][2].type # "ACK"
    BY <2>1, Zenon DEF Queue
  <2>3. ~HasAck(p)' /\ HasLine(p)' /\ LineTo(p)' = LineTo(p)
    BY <2>1, <2>2, Zenon DEF HasAck, HasLine, LineTo
  <2>4. Queue(p)'
    BY <2>1, SMTT(30) DEF Queue
  <2> QED
    BY <1>2, <1>3, <1>4, <2>3, <2>4, Zenon
<1>5. CASE ~HasLine(p)
  <2>1. Len(net[p]) = 1 /\ net'[p] = <<>>
    BY <1>1, <1>3, <1>5, QueueShape, ShortSeq, Zenon
  <2> QED
    BY <1>2, <1>3, <1>5, <2>1, NoQueue, Zenon
<1> QED
  BY <1>4, <1>5, Zenon

-----------------------------------------------------------------------------
(* Steps and places.                                                       *)

\* The two parties are the listener and the client.
LEMMA Roles ==
    /\ Listener \in Party /\ Client \in Party /\ Listener # Client
    /\ Client = Peer(Listener) /\ Listener = Peer(Client)
    /\ \A p \in Party : (p = Listener \/ p = Client) /\ Peer(p) \in Party /\ Peer(p) # p /\ Peer(Peer(p)) = p
BY Zenon DEF Listener, Client

\* The steps of the three phases are apart from each other and from the rest.
LEMMA PhasesApart ==
    ASSUME NEW p \in Party
    PROVE  /\ \A l \in LockSteps(p) : l \notin ExecSteps(p) /\ l \notin RefundSteps(p)
           /\ \A l \in ExecSteps(p) : l \notin RefundSteps(p)
           /\ \A l \in LockSteps(p) \cup ExecSteps(p) \cup RefundSteps(p) :
                  l \notin {"idle", "accept", "write_prv", "write_pub", "err", "lock", "execute", "cancel",
                            "send_execute", "send_cancel", "checksum", "ok", "fault", "command",
                            "next_client"}
           /\ FirstLockStep(p) \in LockSteps(p) /\ FirstExecStep(p) \in ExecSteps(p)
           /\ FirstRefundStep(p) \in RefundSteps(p)
           /\ TalkSteps(p) = LockSteps(p) \cup ExecSteps(p)
<1>1. /\ \A l \in LockSteps(p) : l \notin ExecSteps(p) /\ l \notin RefundSteps(p)
      /\ \A l \in ExecSteps(p) : l \notin RefundSteps(p)
  BY Zenon DEF LockSteps, ExecSteps, RefundSteps, MwLockSteps, BtcLockSteps, MwExecSteps, BtcExecSteps
<1>2. \A l \in LockSteps(p) \cup ExecSteps(p) \cup RefundSteps(p) :
          l \notin {"idle", "accept", "write_prv", "write_pub", "err", "lock", "execute", "cancel",
                    "send_execute", "send_cancel", "checksum", "ok", "fault", "command",
                    "next_client"}
  BY ZenonT(30) DEF LockSteps, ExecSteps, RefundSteps, MwLockSteps, BtcLockSteps, MwExecSteps, BtcExecSteps
<1>3. /\ FirstLockStep(p) \in LockSteps(p) /\ FirstExecStep(p) \in ExecSteps(p)
      /\ FirstRefundStep(p) \in RefundSteps(p)
  BY Zenon DEF LockSteps, ExecSteps, RefundSteps, MwLockSteps, BtcLockSteps, MwExecSteps, BtcExecSteps, FirstLockStep,
         FirstExecStep, FirstRefundStep
<1> QED
  BY <1>1, <1>2, <1>3, Zenon DEF TalkSteps

\* The first steps of the phases are no places of the handshake.
LEMMA FirstSteps ==
    ASSUME NEW p \in Party, NEW l \in {FirstLockStep(p), FirstExecStep(p), FirstRefundStep(p)}
    PROVE  /\ l \notin AskSteps /\ l \notin SendCommandSteps /\ l \notin AnswerSteps /\ l \notin OutSteps
           /\ l \notin {"checksum", "ok", "fault", "next_client", "command", "err"}
BY PhasesApart, ZenonT(30) DEF AskSteps, SendCommandSteps, AnswerSteps, OutSteps

\* Being in step, told of the two roles.
LEMMA InStepRoles ==
    ASSUME \A p \in {Listener, Client} : pc'[p] \in TalkSteps(p) => ~HasLine(p)',
           link' /\ pc'[Listener] \in TalkSteps(Listener) /\ pc'[Client] \in TalkSteps(Client) =>
               Due[pc'[Listener]] = Due[pc'[Client]]
    PROVE  InStep'
<1>1. \A p \in Party : pc'[p] \in TalkSteps(p) => ~HasLine(p)'
  BY Roles, Zenon
<1>2. link' /\ pc'["mw"] \in TalkSteps("mw") /\ pc'["btc"] \in TalkSteps("btc") =>
         Due[pc'["mw"]] = Due[pc'["btc"]]
  BY Roles, Zenon
<1> QED
  BY <1>1, <1>2, Zenon DEF InStep, Position

\* Where the peer can be when a process may take a step of a phase.
LEMMA PhasePeer ==
    ASSUME Conversation, NEW p \in Party, ~ack[p]
    PROVE  /\ pc[p] \in LockSteps(p) =>
                pc[Peer(p)] \in LockSteps(Peer(p)) \cup {"err", "write_prv"} \cup OutSteps
           /\ pc[p] \in ExecSteps(p) =>
                pc[Peer(p)] \in ExecSteps(Peer(p)) \cup {"err", "write_prv"} \cup OutSteps
           /\ pc[p] \in RefundSteps(p) =>
                pc[Peer(p)] \in RefundSteps(Peer(p)) \cup {"write_prv"} \cup OutSteps
<1>1. CASE p = Listener
  <2>1. pc[Client] \in AskSteps /\ pc[Listener] \notin AnswerSteps \cup OutSteps => ack[Listener]
    BY Roles, Zenon DEF Conversation, Handshake, Turns, AskSteps, OutSteps
  <2> QED
    BY <1>1, <2>1, Roles, PhasesApart, SMTT(30) DEF Conversation, Together, AskSteps, AnswerSteps, OutSteps
<1>2. CASE p = Client
  <2>1. pc[Listener] = "command" /\ pc[Client] \in ExecSteps(Client) \cup RefundSteps(Client) => ack[Client]
    BY Roles, PhasesApart, SMTT(30) DEF Conversation, Handshake, Turns, OutSteps
  <2> QED
    BY <1>2, <2>1, Roles, PhasesApart, SMTT(30) DEF Conversation, Together, AskSteps, SendCommandSteps, OutSteps
<1> QED
  BY <1>1, <1>2, Roles, Zenon

\* The step from l to m stays in its phase, ends it or fails.
InPhase(p, l, m) ==
    \/ l \in LockSteps(p) /\ m \in LockSteps(p) \cup {"err", "write_prv"}
    \/ l \in ExecSteps(p) /\ m \in ExecSteps(p) \cup {"err", "write_prv"}
    \/ l \in RefundSteps(p) /\ m \in RefundSteps(p) \cup {"write_prv"}

\* A step of a phase has nothing to do with the handshake.
LEMMA PhaseMove ==
    ASSUME TypeOK, Conversation, NEW p \in Party, NEW m, ~ack[p], Goto(p, m), InPhase(p, pc[p], m)
    PROVE  /\ Together' /\ Handshake'
           /\ \A r \in Party : pc'[r] \in Steps(r) /\ (pc'[r] \in OutSteps <=> pc[r] \in OutSteps)
           /\ \A r \in Party : pc'[r] \in OutSteps => pc'[r] = pc[r]
           /\ pc'[p] = m /\ pc'[Peer(p)] = pc[Peer(p)]
<1>1. pc'[p] = m /\ pc'[Peer(p)] = pc[Peer(p)]
  BY Zenon DEF TypeOK, Goto
<1>2. m \in Steps(p) /\ m \notin OutSteps /\ pc[p] \notin OutSteps
  BY PhasesApart, ZenonT(30) DEF InPhase, Steps, OutSteps
<1>3. \/ /\ m \in LockSteps(p) \cup {"err", "write_prv"}
         /\ pc[Peer(p)] \in LockSteps(Peer(p)) \cup {"err", "write_prv"} \cup OutSteps
      \/ /\ m \in ExecSteps(p) \cup {"err", "write_prv"}
         /\ pc[Peer(p)] \in ExecSteps(Peer(p)) \cup {"err", "write_prv"} \cup OutSteps
      \/ /\ m \in RefundSteps(p) \cup {"write_prv"}
         /\ pc[Peer(p)] \in RefundSteps(Peer(p)) \cup {"write_prv"} \cup OutSteps
  BY PhasePeer, Zenon DEF InPhase
<1>4. \A r \in Party : pc'[r] \in Steps(r)
  BY <1>1, <1>2, Zenon DEF Conversation
<1>5. Together'
  <2>1. CASE p = Listener
    BY <1>1, <1>3, <1>4, Roles, PhasesApart, SMTT(30) DEF Together, OutSteps, Steps, HandshakeSteps, AskSteps,
           SendCommandSteps
  <2>2. CASE p = Client
    BY <1>1, <1>3, <2>2, Roles, PhasesApart, ZenonT(30) DEF Together, OutSteps
  <2> QED
    BY <2>1, <2>2, Roles, Zenon
<1>6. Handshake'
  <2>1. \A r \in Party : pc'[r] \notin {"checksum", "ok", "fault", "next_client", "command",
                                       "lock", "execute", "cancel", "send_execute", "send_cancel"}
    BY <1>1, <1>3, PhasesApart, SMTT(30) DEF OutSteps
  <2> QED
    BY <2>1, Roles, Zenon DEF Handshake, AskSteps, SendCommandSteps
<1> QED
  BY <1>1, <1>2, <1>4, <1>5, <1>6, Zenon

-----------------------------------------------------------------------------
(* The steps of the locking and of the execution phase.                    *)

\* No kind of line is sent in both directions.
LEMMA LinesApart ==
    ASSUME NEW p \in Party, NEW t \in LinesTo(Peer(p))
    PROVE  t \notin LinesTo(p) /\ t # "ACK"
BY Zenon DEF LinesTo

\* The step from l to m sends, receives or passes over the line that is due.
SendRow(p, l, t, m) ==
    /\ l \in TalkSteps(p) /\ InPhase(p, l, m)
    /\ Due[l] = t /\ t \in LinesTo(Peer(p)) /\ t \in LineType
    /\ m \in TalkSteps(p) => Due[m] = Following[t]
ReceiveRow(p, l, t, m) ==
    /\ l \in TalkSteps(p) /\ InPhase(p, l, m)
    /\ t # "ACK"
    /\ m \in TalkSteps(p) => Due[m] = Following[Due[l]]
LocalRow(p, l, m) ==
    /\ InPhase(p, l, m)
    /\ m \in TalkSteps(p) => l \in TalkSteps(p) /\ Due[m] = Due[l]

\* A step of a phase that sends the line that is due.
LEMMA SendTalk ==
    ASSUME TypeOK, Conversation, NEW p \in Party, NEW t, NEW v \in Nat, NEW m,
           ~ack[p], send_msg(p, t, v), Goto(p, m), SendRow(p, pc[p], t, m)
    PROVE  /\ Conversation'
           /\ link /\ ~HasLine(p) /\ ~HasLine(p)' /\ ~HasLine(Peer(p))
           /\ HasLine(Peer(p))' /\ LineTo(Peer(p))' = Line(t, v)
<1>1. link /\ ~HasLine(p) /\ ~HasLine(Peer(p)) /\ ~HasAck(p) /\ Queue(p) /\ Queue(Peer(p))
  <2>1. link
    BY Zenon DEF send_msg
  <2> QED
    BY <2>1, LinesApart, Zenon DEF Conversation, Turns, InStep, SendRow
<1>2. /\ HasLine(Peer(p))' /\ LineTo(Peer(p))' = Line(t, v) /\ Queue(Peer(p))'
      /\ HasAck(Peer(p))' <=> HasAck(Peer(p))
      /\ net'[p] = net[p]
      /\ ack'[p] /\ ack'[Peer(p)] = ack[Peer(p)] /\ link'
  BY <1>1, LinesApart, SendQueue, Roles, Zenon DEF SendRow
<1>3. ~HasLine(p)' /\ ~HasAck(p)' /\ Queue(p)'
  BY <1>1, <1>2, SameQueue, Zenon
<1>4. /\ Together' /\ Handshake'
      /\ \A r \in Party : pc'[r] \in Steps(r) /\ (pc'[r] \in OutSteps <=> pc[r] \in OutSteps)
      /\ pc'[p] = m /\ pc'[Peer(p)] = pc[Peer(p)]
  BY PhaseMove, Zenon DEF SendRow
<1>5. \A r \in Party : pc[r] \notin OutSteps
  BY <1>1, Zenon DEF Conversation
<1>6. Turns(p)' /\ Turns(Peer(p))'
  BY <1>1, <1>2, <1>3, <1>4, Zenon DEF Conversation, Turns
<1>7. InStep'
  <2>1. (pc[Peer(p)] \in TalkSteps(Peer(p)) => Due[pc[Peer(p)]] = t)
    BY <1>1, Zenon DEF Conversation, InStep, Position, SendRow
  <2>2. LineTo(Peer(p))'.type = t
    BY <1>2, SMTT(30) DEF Line
  <2> QED
    BY <1>2, <1>3, <1>4, <2>1, <2>2, Roles, Zenon DEF InStep, Position, SendRow
<1> QED
  BY <1>1, <1>2, <1>3, <1>4, <1>6, <1>7, Zenon DEF Conversation

\* A step of a phase that receives a line.
LEMMA ReceiveTalk ==
    ASSUME TypeOK, Conversation, NEW p \in Party, NEW t, NEW m,
           ~ack[p], receive_msg(p, t), Goto(p, m), ReceiveRow(p, pc[p], t, m)
    PROVE  /\ Conversation'
           /\ HasLine(p) /\ Msg(p) = LineTo(p).val /\ ~HasLine(p)'
           /\ HasLine(Peer(p))' => HasLine(Peer(p)) /\ LineTo(Peer(p))' = LineTo(Peer(p))
           /\ link => ack[Peer(p)] /\ HasAck(Peer(p))' /\ ~HasLine(Peer(p))
<1>1. Queue(p) /\ Queue(Peer(p)) /\ (link /\ HasLine(p) => net[Peer(p)] = <<>> /\ ~HasLine(Peer(p)) /\ ack[Peer(p)])
  BY QueueShape, Zenon DEF Conversation, Turns
<1>2. HasLine(p)
  BY <1>1, QueueShape, Roles, Zenon DEF receive_msg, Incoming, ReceiveRow
<1>3. /\ ~HasAck(p) /\ LineTo(p) = Head(net[p]) /\ LineTo(p).type = t
      /\ ~HasLine(p)' /\ ~HasAck(p)' /\ Queue(p)'
      /\ link => HasAck(Peer(p))' /\ ~HasLine(Peer(p))' /\ Queue(Peer(p))'
      /\ ~link => net'[Peer(p)] = net[Peer(p)]
      /\ ack' = ack /\ link' = link
  BY <1>1, <1>2, ReceiveQueue, Zenon DEF ReceiveRow
<1>4. /\ Together' /\ Handshake'
      /\ \A r \in Party : pc'[r] \in Steps(r) /\ (pc'[r] \in OutSteps <=> pc[r] \in OutSteps)
      /\ pc'[p] = m /\ pc'[Peer(p)] = pc[Peer(p)]
  BY PhaseMove, Roles, Zenon DEF ReceiveRow
<1>5. ~link => /\ HasLine(Peer(p))' <=> HasLine(Peer(p))
               /\ HasAck(Peer(p))' <=> HasAck(Peer(p))
               /\ Queue(Peer(p))' /\ LineTo(Peer(p))' = LineTo(Peer(p))
  BY <1>1, <1>3, SameQueue, Zenon
<1>6. Turns(p)' /\ Turns(Peer(p))'
  BY <1>2, <1>3, <1>4, <1>5, Zenon DEF Conversation, Turns
<1>7. InStep'
  BY <1>1, <1>2, <1>3, <1>4, <1>5, Roles, SMTT(30) DEF Conversation, InStep, Position, ReceiveRow
<1>8. HasLine(Peer(p))' => HasLine(Peer(p)) /\ LineTo(Peer(p))' = LineTo(Peer(p))
  BY <1>3, <1>5, Zenon
<1> QED
  BY <1>1, <1>2, <1>3, <1>4, <1>6, <1>7, <1>8, Zenon DEF Conversation, Msg

\* A step of a phase that neither sends nor receives.
LEMMA LocalTalk ==
    ASSUME TypeOK, Conversation, NEW p \in Party, NEW m,
           ~ack[p], UNCHANGED commVars, Goto(p, m), LocalRow(p, pc[p], m)
    PROVE  Conversation'
<1>1. \A r \in Party : /\ HasLine(r)' <=> HasLine(r)
                       /\ HasAck(r)' <=> HasAck(r)
                       /\ Queue(r)' <=> Queue(r)
                       /\ LineTo(r)' = LineTo(r)
  BY SameQueue, Zenon DEF commVars
<1>2. ack' = ack /\ link' = link
  BY Zenon DEF commVars
<1>3. /\ Together' /\ Handshake'
      /\ \A r \in Party : pc'[r] \in Steps(r) /\ (pc'[r] \in OutSteps <=> pc[r] \in OutSteps)
      /\ pc'[p] = m /\ pc'[Peer(p)] = pc[Peer(p)]
  BY PhaseMove, Zenon DEF LocalRow
<1>4. \A r \in Party : Turns(r)'
  BY <1>1, <1>2, <1>3, Zenon DEF Conversation, Turns
<1>5. InStep'
  BY <1>1, <1>2, <1>3, Zenon DEF Conversation, InStep, Position, LocalRow
<1> QED
  BY <1>2, <1>3, <1>4, <1>5, Zenon DEF Conversation

-----------------------------------------------------------------------------
(* The steps all commands have in common.                                  *)

\* Nothing of the conversation changes.
LEMMA SameConversation ==
    ASSUME Conversation, UNCHANGED <<pc, commVars>>
    PROVE  Conversation'
<1>1. pc' = pc /\ net' = net /\ ack' = ack /\ link' = link
  BY Zenon DEF commVars
<1>2. /\ \A p \in Party : (HasLine(p)' <=> HasLine(p)) /\ LineTo(p)' = LineTo(p)
      /\ \A p \in Party : (HasAck(p)' <=> HasAck(p)) /\ (Queue(p)' <=> Queue(p))
  BY <1>1, SameQueue, Zenon
<1>3. \A p \in Party : Turns(p)'
  BY <1>1, <1>2, Zenon DEF Conversation, Turns
<1>4. InStep'
  BY <1>1, <1>2, Zenon DEF Conversation, InStep, Position
<1>5. Together'
  BY <1>1, Zenon DEF Conversation, Together
<1>6. Handshake'
  BY <1>1, <1>2, Roles, Zenon DEF Conversation, Handshake
<1> QED
  BY <1>1, <1>3, <1>4, <1>5, <1>6, Zenon DEF Conversation

\* A process that ends takes its end of the connection with it.
LEMMA DieTalk ==
    ASSUME TypeOK, Conversation, NEW p \in Party, Die(p)
    PROVE  Conversation'
<1>1. /\ pc'[p] = "idle" /\ pc'[Peer(p)] = pc[Peer(p)]
      /\ ~ack'[p] /\ ack'[Peer(p)] = ack[Peer(p)] /\ ~link'
      /\ net'[p] = <<>> /\ net'[Peer(p)] = net[Peer(p)]
  BY Zenon DEF Die, Goto, TypeOK
<1>2. /\ ~HasLine(p)' /\ ~HasAck(p)' /\ Queue(p)'
      /\ HasLine(Peer(p))' <=> HasLine(Peer(p))
      /\ HasAck(Peer(p))' <=> HasAck(Peer(p))
      /\ Queue(Peer(p))' <=> Queue(Peer(p))
      /\ LineTo(Peer(p))' = LineTo(Peer(p))
  BY <1>1, NoQueue, SameQueue, Zenon
<1>3. Turns(p)' /\ Turns(Peer(p))'
  BY <1>1, <1>2, Zenon DEF Conversation, Turns
<1>4. InStep'
  BY <1>1, <1>2, PhasesApart, ZenonT(30) DEF Conversation, InStep
<1>5. Together'
  BY <1>1, Roles, Zenon DEF Together
<1>6. Handshake'
  BY <1>1, <1>2, Roles, Zenon DEF Conversation, Handshake, AskSteps
<1>7. "idle" \in Steps(p) /\ "idle" \in OutSteps
  BY Zenon DEF Steps, OutSteps
<1> QED
  BY <1>1, <1>3, <1>4, <1>5, <1>6, <1>7, Zenon DEF Conversation

\* A process reads the ACK of its line.
LEMMA ReadAckTalk ==
    ASSUME TypeOK, Conversation, NEW p \in Party, ReadAck(p)
    PROVE  Conversation'
<1>1. /\ HasAck(p) /\ ~HasAck(p)' /\ Queue(p)'
      /\ HasLine(p)' <=> HasLine(p)
      /\ HasLine(p) => LineTo(p)' = LineTo(p)
      /\ net'[Peer(p)] = net[Peer(p)]
      /\ ack[p] /\ ~ack'[p] /\ ack'[Peer(p)] = ack[Peer(p)] /\ link' = link /\ pc' = pc
  BY AckQueue, Zenon DEF Conversation, Turns
<1>2. /\ HasLine(Peer(p))' <=> HasLine(Peer(p))
      /\ HasAck(Peer(p))' <=> HasAck(Peer(p))
      /\ Queue(Peer(p))' <=> Queue(Peer(p))
      /\ LineTo(Peer(p))' = LineTo(Peer(p))
  BY <1>1, SameQueue, Zenon
<1>3. \A r \in Party : (HasLine(r)' <=> HasLine(r)) /\ (HasLine(r) => LineTo(r)' = LineTo(r))
  BY <1>1, <1>2, Zenon
<1>4. Turns(p)' /\ Turns(Peer(p))'
  BY <1>1, <1>2, Zenon DEF Conversation, Turns
<1>5. InStep'
  BY <1>1, <1>3, Zenon DEF Conversation, InStep, Position
<1>6. Together'
  BY <1>1, Zenon DEF Conversation, Together
<1>7. Handshake'
  BY <1>1, <1>3, Roles, ZenonT(30) DEF Conversation, Handshake
<1> QED
  BY <1>1, <1>4, <1>5, <1>6, <1>7, ZenonT(30) DEF Conversation

\* main() drops the stream and writes the private file, then the public one.
LEMMA WriteTalk ==
    ASSUME TypeOK, Conversation, NEW p \in Party, WritePrv(p) \/ WritePub(p)
    PROVE  Conversation'
<1>1. /\ \/ pc[p] = "write_prv" /\ pc'[p] = "write_pub"
         \/ pc[p] = "write_pub" /\ pc'[p] = "idle"
      /\ pc'[Peer(p)] = pc[Peer(p)] /\ ~ack[p]
      /\ ack' = ack /\ ~link' /\ net'[p] = <<>> /\ net'[Peer(p)] = net[Peer(p)]
  <2>1. CASE WritePrv(p)
    BY <2>1, Zenon DEF WritePrv, Goto, At, TypeOK
  <2>2. CASE WritePub(p)
    <3>1. /\ pc[p] = "write_pub" /\ pc'[p] = "idle" /\ pc'[Peer(p)] = pc[Peer(p)]
          /\ ack' = ack /\ link' = link /\ net' = net /\ ~ack[p]
      BY <2>2, Zenon DEF WritePub, Goto, At, TypeOK, commVars
    <3>2. ~link /\ net[p] = <<>>
      BY <3>1, QueueShape, Zenon DEF Conversation, OutSteps, Turns
    <3> QED
      BY <3>1, <3>2, Zenon
  <2> QED
    BY <2>1, <2>2, Zenon
<1>2. /\ ~HasLine(p)' /\ ~HasAck(p)' /\ Queue(p)'
      /\ HasLine(Peer(p))' <=> HasLine(Peer(p))
      /\ HasAck(Peer(p))' <=> HasAck(Peer(p))
      /\ Queue(Peer(p))' <=> Queue(Peer(p))
      /\ LineTo(Peer(p))' = LineTo(Peer(p))
  BY <1>1, NoQueue, SameQueue, Zenon
<1>3. Turns(p)' /\ Turns(Peer(p))'
  BY <1>1, <1>2, Zenon DEF Conversation, Turns
<1>4. InStep'
  BY <1>1, <1>2, Zenon DEF Conversation, InStep
<1>5. Together'
  <2>1. CASE p = Listener
    BY <1>1, <2>1, Roles, PhasesApart, ZenonT(30) DEF Conversation, Together, AnswerSteps
  <2>2. CASE p = Client
    BY <1>1, <2>2, Roles, PhasesApart, SMTT(30) DEF Conversation, Together, AskSteps, SendCommandSteps
  <2> QED
    BY <2>1, <2>2, Roles, Zenon
<1>6. Handshake'
  BY <1>1, <1>2, Roles, PhasesApart, ZenonT(30) DEF Conversation, Handshake, SendCommandSteps
<1>7. pc'[p] \in Steps(p) /\ pc'[p] \in OutSteps
  BY <1>1, Zenon DEF Steps, OutSteps
<1> QED
  BY <1>1, <1>3, <1>4, <1>5, <1>6, <1>7, Zenon DEF Conversation

-----------------------------------------------------------------------------
(* The handshake.                                                          *)

\* The listener starts.
LEMMA ListenTalk ==
    ASSUME TypeOK, Conversation, Listen
    PROVE  Conversation'
<1>1. /\ pc[Listener] = "idle" /\ pc'[Listener] = "accept" /\ pc'[Client] = pc[Client]
      /\ net' = net /\ ack' = ack /\ link' = link
  BY Roles, Zenon DEF Listen, Goto, TypeOK, commVars
<1>2. \A r \in Party : /\ HasLine(r)' <=> HasLine(r)
                       /\ HasAck(r)' <=> HasAck(r)
                       /\ Queue(r)' <=> Queue(r)
                       /\ LineTo(r)' = LineTo(r)
  BY <1>1, SameQueue, Zenon
<1>3. \A r \in Party : pc'[r] \in Steps(r) /\ (pc'[r] \in OutSteps <=> pc[r] \in OutSteps)
  BY <1>1, Roles, Zenon DEF Conversation, Steps, HandshakeSteps, OutSteps
<1>4. \A r \in Party : Turns(r)'
  BY <1>1, <1>2, <1>3, Zenon DEF Conversation, Turns
<1>5. InStep'
  BY <1>1, <1>2, PhasesApart, Roles, SMTT(30) DEF Conversation, InStep, Position
<1>6. Together'
  BY <1>1, Zenon DEF Together
<1>7. Handshake'
  BY <1>1, <1>2, Roles, Zenon DEF Conversation, Handshake, OutSteps
<1> QED
  BY <1>1, <1>3, <1>4, <1>5, <1>6, <1>7, Zenon DEF Conversation

\* A client connects and sends its checksum.
LEMMA CommandTalk ==
    ASSUME TypeOK, Conversation, NEW c \in AskSteps, Command(c)
    PROVE  /\ Conversation'
           /\ HasLine(Listener)' /\ LineTo(Listener)'.slate = pubFile[Client] /\ ~HasLine(Client)'
<1> DEFINE e == [type |-> "checksum", slate |-> pubFile[Client]]
<1>1. /\ pc[Client] = "idle" /\ pc[Listener] = "accept"
      /\ pc'[Client] = c /\ pc'[Listener] = "checksum"
      /\ net'[Client] = <<>> /\ net'[Listener] = <<e>>
      /\ ack'[Client] /\ ack'[Listener] = ack[Listener] /\ link'
  BY Roles, Zenon DEF Command, TypeOK
<1>2. ~HasLine(Client)' /\ ~HasAck(Client)' /\ Queue(Client)'
  BY <1>1, NoQueue, Roles, Zenon
<1>3. e.type = "checksum" /\ e.slate = pubFile[Client]
  OBVIOUS
<1> HIDE DEF e
<1>4. /\ HasLine(Listener)' /\ ~HasAck(Listener)' /\ Queue(Listener)'
      /\ LineTo(Listener)' = e
  BY <1>1, <1>3, SMTT(30) DEF HasLine, HasAck, Queue, LineTo
<1>5. \A r \in Party : pc'[r] \in Steps(r) /\ pc'[r] \notin OutSteps
  BY <1>1, Roles, Zenon DEF Steps, HandshakeSteps, OutSteps, AskSteps, AnswerSteps
<1>6. Turns(Listener)' /\ Turns(Client)'
  BY <1>1, <1>2, <1>4, <1>5, Roles, ZenonT(30) DEF Conversation, Turns, OutSteps
<1>7. InStep'
  BY <1>1, PhasesApart, Roles, SMTT(30) DEF InStep, AskSteps
<1>8. Together'
  BY <1>1, Zenon DEF Together, AnswerSteps
<1>9. Handshake'
  BY <1>1, <1>2, <1>3, <1>4, Zenon DEF Handshake, AskSteps, SendCommandSteps, AnswerSteps
<1> QED
  BY <1>1, <1>3, <1>4, <1>2, <1>5, <1>6, <1>7, <1>8, <1>9, Roles, Zenon DEF Conversation

\* A process of the handshake receives a line.
LEMMA ReceiveHandshake ==
    ASSUME TypeOK, Conversation, NEW p \in Party, NEW t, NEW m, t # "ACK",
           ~ack[p], receive_msg(p, t), Goto(p, m), pc[p] \notin OutSteps, m \notin OutSteps
    PROVE  /\ HasLine(p) /\ ~HasAck(p) /\ LineTo(p) = Head(net[p]) /\ LineTo(p).type = t
           /\ ~HasLine(p)'
           /\ link => ~HasLine(Peer(p))'
           /\ ~link => /\ HasLine(Peer(p))' <=> HasLine(Peer(p))
                       /\ LineTo(Peer(p))' = LineTo(Peer(p))
           /\ link => ~HasLine(Peer(p)) /\ ack[Peer(p)]
           /\ ack' = ack /\ link' = link
           /\ pc'[p] = m /\ pc'[Peer(p)] = pc[Peer(p)]
           /\ Turns(p)' /\ Turns(Peer(p))'
<1>1. Queue(p) /\ Queue(Peer(p)) /\ (link /\ HasLine(p) => net[Peer(p)] = <<>> /\ ~HasLine(Peer(p)) /\ ack[Peer(p)])
  BY QueueShape, Zenon DEF Conversation, Turns
<1>2. HasLine(p)
  BY <1>1, QueueShape, Zenon DEF receive_msg, Incoming
<1>3. /\ ~HasAck(p) /\ LineTo(p) = Head(net[p]) /\ LineTo(p).type = t
      /\ ~HasLine(p)' /\ ~HasAck(p)' /\ Queue(p)'
      /\ link => HasAck(Peer(p))' /\ ~HasLine(Peer(p))' /\ Queue(Peer(p))'
      /\ ~link => net'[Peer(p)] = net[Peer(p)]
      /\ ack' = ack /\ link' = link
  BY <1>1, <1>2, ReceiveQueue, Zenon
<1>4. ~link => /\ HasLine(Peer(p))' <=> HasLine(Peer(p))
               /\ HasAck(Peer(p))' <=> HasAck(Peer(p))
               /\ Queue(Peer(p))' /\ LineTo(Peer(p))' = LineTo(Peer(p))
  BY <1>1, <1>3, SameQueue, Zenon
<1>5. pc'[p] = m /\ pc'[Peer(p)] = pc[Peer(p)]
  BY Zenon DEF Goto, TypeOK
<1>6. Turns(p)' /\ Turns(Peer(p))'
  BY <1>2, <1>3, <1>4, <1>5, Roles, Zenon DEF Conversation, Turns
<1> QED
  BY <1>1, <1>2, <1>3, <1>4, <1>5, <1>6, Zenon

\* A process of the handshake sends a line.
LEMMA SendHandshake ==
    ASSUME TypeOK, Conversation, NEW p \in Party, NEW t \in LineType, t # "ACK", NEW m,
           ~ack[p], send_msg(p, t, 0), Goto(p, m), pc[p] \notin OutSteps, m \notin OutSteps,
           ~HasLine(p)
    PROVE  /\ HasLine(Peer(p))' /\ LineTo(Peer(p))'.type = t /\ ~HasLine(p)'
           /\ ~HasLine(Peer(p)) /\ ack'[p] /\ link /\ link'
           /\ pc'[p] = m /\ pc'[Peer(p)] = pc[Peer(p)] /\ pc[Peer(p)] \notin OutSteps
           /\ Turns(p)' /\ Turns(Peer(p))'
<1>1. link /\ ~HasLine(Peer(p)) /\ ~HasAck(p) /\ Queue(p) /\ Queue(Peer(p))
  BY Roles, Zenon DEF Conversation, Turns, send_msg
<1>2. /\ HasLine(Peer(p))' /\ LineTo(Peer(p))' = Line(t, 0) /\ Queue(Peer(p))'
      /\ HasAck(Peer(p))' <=> HasAck(Peer(p))
      /\ net'[p] = net[p]
      /\ ack'[p] /\ ack'[Peer(p)] = ack[Peer(p)] /\ link'
  BY <1>1, SendQueue, Zenon
<1>3. ~HasLine(p)' /\ ~HasAck(p)' /\ Queue(p)'
  BY <1>1, <1>2, SameQueue, Zenon
<1>4. pc'[p] = m /\ pc'[Peer(p)] = pc[Peer(p)]
  BY Zenon DEF Goto, TypeOK
<1>5. pc[Peer(p)] \notin OutSteps
  BY <1>1, Zenon DEF Conversation
<1>6. Turns(p)' /\ Turns(Peer(p))'
  BY <1>1, <1>2, <1>3, <1>4, Zenon DEF Conversation, Turns
<1>7. LineTo(Peer(p))'.type = t
  BY <1>2, SMTT(30) DEF Line
<1> QED
  BY <1>1, <1>2, <1>3, <1>4, <1>5, <1>6, <1>7, Zenon

\* The listener compares the checksums.
LEMMA ListenChecksumTalk ==
    ASSUME TypeOK, Conversation, ListenChecksum
    PROVE  Conversation' /\ HasLine(Listener) /\ LineTo(Listener) = Head(net[Listener])
<1>1. PICK m \in {"ok", "fault"} : Goto(Listener, m)
  BY Zenon DEF ListenChecksum
<1>2. pc[Listener] = "checksum" /\ ~ack[Listener] /\ receive_msg(Listener, "checksum")
  BY Zenon DEF ListenChecksum, At
<1>3. pc[Listener] \notin OutSteps /\ m \notin OutSteps /\ m \in Steps(Listener)
  BY <1>2, Zenon DEF OutSteps, Steps, HandshakeSteps, AnswerSteps
<1>4. /\ HasLine(Listener) /\ LineTo(Listener) = Head(net[Listener]) /\ ~HasLine(Listener)'
      /\ link => ~HasLine(Client)'
      /\ ~link => /\ HasLine(Client)' <=> HasLine(Client)
                  /\ LineTo(Client)' = LineTo(Client)
      /\ ack' = ack /\ link' = link
      /\ pc'[Listener] = m /\ pc'[Client] = pc[Client]
      /\ Turns(Listener)' /\ Turns(Client)'
  BY <1>1, <1>2, <1>3, ReceiveHandshake, Roles, Zenon
<1>5. pc[Client] = "idle" \/ (pc[Client] \in AskSteps /\ link)
  BY <1>2, Roles, PhasesApart, ZenonT(30) DEF Conversation, Together, OutSteps, AskSteps
<1>6. ~HasLine(Client)'
  BY <1>4, <1>5, Zenon DEF Turns, OutSteps
<1>7. InStep'
  BY <1>4, <1>5, Roles, PhasesApart, ZenonT(30) DEF InStep, AskSteps
<1>8. Together'
  BY <1>4, <1>5, Zenon DEF Together, AnswerSteps
<1>9. Handshake'
  BY <1>4, <1>6, Zenon DEF Handshake, AnswerSteps
<1> QED
  BY <1>2, <1>3, <1>4, <1>7, <1>8, <1>9, Roles, Zenon DEF Conversation

\* The listener answers.
LEMMA ListenAnswerTalk ==
    ASSUME TypeOK, Conversation, ListenAnswer
    PROVE  /\ Conversation' /\ link /\ HasLine(Client)' /\ ~HasLine(Client) /\ ~HasLine(Listener)'
           /\ pc'[Client] = pc[Client] /\ pc[Client] \in AskSteps
           /\ pc[Listener] = "ok" => LineTo(Client)'.type = "OK"
           /\ pc[Listener] = "fault" => LineTo(Client)'.type = "FAULT"
<1>1. PICK t \in {"OK", "FAULT"}, m \in {FirstLockStep(Listener), "command", "next_client"} :
          /\ send_msg(Listener, t, 0) /\ Goto(Listener, m)
          /\ t = "FAULT" => m = "next_client" /\ pc[Listener] = "fault"
          /\ t = "OK" => pc[Listener] = "ok"
  BY ZenonT(30) DEF ListenAnswer, SendStep, At
<1>2. pc[Listener] \in {"ok", "fault"} /\ ~ack[Listener] /\ ~HasLine(Listener)
  BY Zenon DEF ListenAnswer, SendStep, At, Conversation, Handshake
<1>3. /\ pc[Listener] \notin OutSteps /\ m \notin OutSteps
      /\ m \in Steps(Listener) /\ t \in LineType /\ t # "ACK"
  BY <1>2, Roles, PhasesApart, SMTT(30) DEF OutSteps, Steps, HandshakeSteps, LineType
<1>4. /\ HasLine(Client)' /\ LineTo(Client)'.type = t /\ ~HasLine(Listener)'
      /\ ~HasLine(Client) /\ link /\ link'
      /\ pc'[Listener] = m /\ pc'[Client] = pc[Client] /\ pc[Client] \notin OutSteps
      /\ Turns(Listener)' /\ Turns(Client)'
  BY <1>1, <1>2, <1>3, SendHandshake, Roles, Zenon
<1>5. pc[Client] \in AskSteps
  BY <1>2, <1>4, Roles, PhasesApart, SMTT(30) DEF Conversation, Together, OutSteps
<1>6. InStep'
  BY <1>4, <1>5, Roles, PhasesApart, SMTT(30) DEF InStep, AskSteps
<1>7. Together'
  BY <1>4, <1>5, ZenonT(30) DEF Together
<1>8. Handshake'
  BY <1>4, <1>5, Roles, PhasesApart, ZenonT(30) DEF Handshake, AskSteps, SendCommandSteps
<1> QED
  BY <1>1, <1>3, <1>4, <1>5, <1>6, <1>7, <1>8, Roles, Zenon DEF Conversation

\* The listener reads the command, or the end of the stream.
LEMMA ListenCommandTalk ==
    ASSUME TypeOK, Conversation, ListenCommand \/ ListenCommandEof
    PROVE  Conversation'
<1>1. pc[Listener] = "command" /\ ~ack[Listener] /\ pc[Listener] \notin OutSteps
  BY Roles, Zenon DEF ListenCommand, ListenCommandEof, ReceiveStep, At, OutSteps
<1>2. CASE ListenCommand
  <2>1. PICK t \in {"EXECUTE", "CANCEL"}, m \in {FirstExecStep(Listener), FirstRefundStep(Listener)} :
            /\ receive_msg(Listener, t) /\ Goto(Listener, m)
            /\ t = "EXECUTE" => m = FirstExecStep(Listener)
            /\ t = "CANCEL" => m = FirstRefundStep(Listener)
    BY <1>2, Zenon DEF ListenCommand, ReceiveStep
  <2>2. m \notin OutSteps /\ m \in Steps(Listener)
    BY Roles, PhasesApart, ZenonT(30) DEF OutSteps, Steps
  <2>3. /\ HasLine(Listener) /\ LineTo(Listener).type = t /\ ~HasLine(Listener)'
        /\ link => ~HasLine(Client)' /\ ~HasLine(Client)
        /\ ~link => /\ HasLine(Client)' <=> HasLine(Client)
                    /\ LineTo(Client)' = LineTo(Client)
        /\ ack' = ack /\ link' = link
        /\ pc'[Listener] = m /\ pc'[Client] = pc[Client]
        /\ Turns(Listener)' /\ Turns(Client)'
    BY <1>1, <2>1, <2>2, ReceiveHandshake, Roles, Zenon
  <2>4. \/ pc[Client] = "idle" /\ ~link
        \/ t = "EXECUTE" /\ pc[Client] = FirstExecStep(Client) /\ link
        \/ t = "CANCEL" /\ pc[Client] = FirstRefundStep(Client) /\ link
    BY <1>1, <2>3, Roles, PhasesApart, SMTT(30) DEF Conversation, Handshake, OutSteps
  <2>5. InStep'
    <3>1. Due[FirstExecStep(Listener)] = Due[FirstExecStep(Client)]
      BY Zenon DEF FirstExecStep, Due
    <3>2. pc'[Client] \in TalkSteps(Client) => link /\ ~HasLine(Client)' /\ t = "EXECUTE"
      BY <2>3, <2>4, Roles, PhasesApart, SMTT(30)
    <3>3. t = "EXECUTE" /\ link => pc'[Listener] = FirstExecStep(Listener) /\ pc'[Client] = FirstExecStep(Client)
      BY <2>1, <2>3, <2>4, ZenonT(30)
    <3> QED
      BY <2>3, <3>1, <3>2, <3>3, InStepRoles, ZenonT(30)
  <2>6. Together'
    BY <2>1, <2>3, <2>4, Roles, PhasesApart, SMTT(30) DEF Together
  <2>7. Handshake'
    <3>1. pc'[Listener] \notin {"checksum", "ok", "fault", "next_client", "command"}
      BY <2>1, <2>3, Roles, FirstSteps, Zenon
    <3>2. "idle" \notin AskSteps /\ "idle" \notin SendCommandSteps
      BY Zenon DEF AskSteps, SendCommandSteps
    <3>3. pc'[Client] \notin AskSteps /\ pc'[Client] \notin SendCommandSteps
      BY <2>3, <2>4, <3>2, Roles, FirstSteps, Zenon
    <3> QED
      BY <3>1, <3>3, Zenon DEF Handshake
  <2> QED
    BY <1>1, <2>2, <2>3, <2>5, <2>6, <2>7, Roles, Zenon DEF Conversation
<1>3. CASE ListenCommandEof
  <2> DEFINE m == FirstRefundStep(Listener)
  <2>1. /\ pc'[Listener] = m /\ pc'[Client] = pc[Client]
        /\ net' = net /\ ack' = ack /\ link' = link /\ ~link
    BY <1>3, Roles, Zenon DEF ListenCommandEof, Goto, TypeOK, commVars
  <2>2. m \notin OutSteps /\ m \in Steps(Listener) /\ m \in RefundSteps(Listener)
    BY Roles, PhasesApart, Zenon DEF OutSteps, Steps
  <2> HIDE DEF m
  <2>3. \A r \in Party : /\ HasLine(r)' <=> HasLine(r)
                         /\ HasAck(r)' <=> HasAck(r)
                         /\ Queue(r)' <=> Queue(r)
                         /\ LineTo(r)' = LineTo(r)
    BY <2>1, SameQueue, Zenon
  <2>4. pc[Client] = "idle"
    BY <1>1, <2>1, Roles, PhasesApart, ZenonT(30) DEF Conversation, Together, OutSteps, AskSteps, SendCommandSteps
  <2>5. \A r \in Party : Turns(r)'
    BY <2>1, <2>2, <2>3, Roles, ZenonT(30) DEF Conversation, Turns
  <2>6. InStep'
    BY <2>1, <2>2, <2>4, Roles, PhasesApart, ZenonT(30) DEF InStep
  <2>7. Together'
    BY <2>1, <2>4, Zenon DEF Together
  <2>8. Handshake'
    BY <2>1, <2>2, <2>4, Roles, PhasesApart, Zenon DEF Handshake, AskSteps, SendCommandSteps
  <2> QED
    BY <1>1, <2>1, <2>2, <2>5, <2>6, <2>7, <2>8, Roles, Zenon DEF Conversation
<1> QED
  BY <1>2, <1>3, Zenon

\* The listener drops the connection.
LEMMA NextClientTalk ==
    ASSUME TypeOK, Conversation, ListenNextClient
    PROVE  Conversation'
<1>1. /\ pc[Listener] = "next_client" /\ pc'[Listener] = "accept" /\ pc'[Client] = pc[Client]
      /\ ~ack[Listener] /\ ack' = ack /\ ~link'
      /\ net'[Listener] = <<>> /\ net'[Client] = net[Client]
  BY Roles, Zenon DEF ListenNextClient, Goto, At, TypeOK
<1>2. /\ ~HasLine(Listener)' /\ ~HasAck(Listener)' /\ Queue(Listener)'
      /\ HasLine(Client)' <=> HasLine(Client)
      /\ HasAck(Client)' <=> HasAck(Client)
      /\ Queue(Client)' <=> Queue(Client)
      /\ LineTo(Client)' = LineTo(Client)
  BY <1>1, NoQueue, SameQueue, Roles, Zenon
<1>3. Turns(Listener)' /\ Turns(Client)'
  BY <1>1, <1>2, Roles, Zenon DEF Conversation, Turns
<1>4. InStep'
  BY <1>1, <1>2, Roles, Zenon DEF Conversation, InStep
<1>5. Together'
  BY <1>1, Zenon DEF Together
<1>6. Handshake'
  BY <1>1, <1>2, ZenonT(30) DEF Conversation, Handshake
<1>7. pc'[Listener] \in Steps(Listener) /\ pc'[Listener] \in OutSteps
  BY <1>1, ZenonT(30) DEF Steps, HandshakeSteps, OutSteps
<1> QED
  BY <1>1, <1>3, <1>4, <1>5, <1>6, <1>7, Roles, Zenon DEF Conversation

\* The client sends the command.
LEMMA ClientSendsTalk ==
    ASSUME TypeOK, Conversation, ClientSendsCommand
    PROVE  Conversation'
<1>1. PICK t \in {"EXECUTE", "CANCEL"}, m \in {FirstExecStep(Client), FirstRefundStep(Client)} :
          /\ send_msg(Client, t, 0) /\ Goto(Client, m)
          /\ t = "EXECUTE" => m = FirstExecStep(Client)
          /\ t = "CANCEL" => m = FirstRefundStep(Client)
  BY Zenon DEF ClientSendsCommand, SendStep
<1>2. pc[Client] \in SendCommandSteps /\ ~ack[Client] /\ ~HasLine(Client)
  BY Zenon DEF ClientSendsCommand, SendStep, At, SendCommandSteps, Conversation, Handshake
<1>3. /\ pc[Client] \notin OutSteps /\ m \notin OutSteps
      /\ m \in Steps(Client) /\ t \in LineType /\ t # "ACK"
  BY <1>2, Roles, PhasesApart, SMTT(30) DEF OutSteps, Steps, LineType, SendCommandSteps
<1>4. /\ HasLine(Listener)' /\ LineTo(Listener)'.type = t /\ ~HasLine(Client)'
      /\ link /\ link'
      /\ pc'[Client] = m /\ pc'[Listener] = pc[Listener] /\ pc[Listener] \notin OutSteps
      /\ Turns(Listener)' /\ Turns(Client)'
  BY <1>1, <1>2, <1>3, SendHandshake, Roles, SMTT(30)
<1>5. pc[Listener] = "command"
  BY <1>2, <1>4, Roles, PhasesApart, ZenonT(30) DEF Conversation, Together, SendCommandSteps, AskSteps, OutSteps
<1>6. InStep'
  BY <1>4, <1>5, Roles, PhasesApart, ZenonT(30) DEF InStep
<1>7. Together'
  BY <1>4, <1>5, Roles, PhasesApart, ZenonT(30) DEF Together
<1>8. Handshake'
  <2>1. pc'[Listener] = "command" /\ link' /\ HasLine(Listener)'
    BY <1>4, <1>5, Zenon
  <2>2. pc'[Client] \notin AskSteps /\ pc'[Client] \notin SendCommandSteps
    BY <1>1, <1>4, Roles, FirstSteps, Zenon
  <2>3. \/ LineTo(Listener)'.type = "EXECUTE" /\ pc'[Client] \in ExecSteps(Client)
        \/ LineTo(Listener)'.type = "CANCEL" /\ pc'[Client] \in RefundSteps(Client)
    BY <1>1, <1>4, Roles, PhasesApart, ZenonT(30)
  <2>4. pc'[Client] \in {FirstExecStep(Client), FirstRefundStep(Client)}
    BY <1>1, <1>4, ZenonT(30)
  <2> QED
    BY <2>1, <2>2, <2>3, <2>4, Zenon DEF Handshake
<1> QED
  BY <1>3, <1>4, <1>6, <1>7, <1>8, Roles, Zenon DEF Conversation

\* The client reads the answer; what it does next fits what the listener does.
LEMMA ClientAnsweredTalk ==
    ASSUME TypeOK, Conversation, ClientAnswered,
           HasLine(Client) /\ LineTo(Client).type = "OK" =>
               /\ pub[Client].status = "INITIALIZED" => pc[Listener] \notin {"next_client", "command"}
               /\ pub[Client].status = "SETUP" => pc[Listener] \notin LockSteps(Listener) \cup {"next_client"}
    PROVE  Conversation' /\ HasLine(Client) /\ (pc'[Client] # "err" => LineTo(Client).type = "OK")
<1>1. PICK t \in {"OK", "FAULT"}, m \in {FirstLockStep(Client), "send_execute", "send_cancel", "err"} :
          /\ receive_msg(Client, t) /\ Goto(Client, m)
          /\ m # "err" => t = "OK"
          /\ m = FirstLockStep(Client) => pub[Client].status = "INITIALIZED"
          /\ m \in {"send_execute", "send_cancel"} => pub[Client].status = "SETUP"
  <2>1. \/ receive_msg(Client, "OK") /\ Goto(Client, IF pub[Client].status = "INITIALIZED"
                                                    THEN FirstLockStep(Client) ELSE "err")
        \/ receive_msg(Client, "OK") /\ \E c \in {"execute", "cancel"} :
              Goto(Client, IF pub[Client].status # "SETUP" THEN "err"
                           ELSE IF c = "execute" THEN "send_execute" ELSE "send_cancel")
        \/ receive_msg(Client, "FAULT") /\ Goto(Client, "err")
    BY Zenon DEF ClientAnswered, ReceiveStep
  <2>2. FirstLockStep(Client) \notin {"send_execute", "send_cancel", "err"}
    BY Roles, PhasesApart, Zenon
  <2> QED
    BY <2>1, <2>2, ZenonT(30)
<1>2. pc[Client] \in AskSteps /\ ~ack[Client]
  BY Zenon DEF ClientAnswered, ReceiveStep, At, AskSteps
<1>3. /\ pc[Client] \notin OutSteps /\ m \notin OutSteps /\ m \in Steps(Client)
  BY <1>2, Roles, PhasesApart, ZenonT(30) DEF OutSteps, Steps, HandshakeSteps, AskSteps, SendCommandSteps
<1>4. /\ HasLine(Client) /\ LineTo(Client).type = t /\ ~HasLine(Client)'
      /\ link => ~HasLine(Listener)' /\ ack[Listener]
      /\ ~link => /\ HasLine(Listener)' <=> HasLine(Listener)
                  /\ LineTo(Listener)' = LineTo(Listener)
      /\ ack' = ack /\ link' = link
      /\ pc'[Client] = m /\ pc'[Listener] = pc[Listener]
      /\ Turns(Listener)' /\ Turns(Client)'
  BY <1>1, <1>2, <1>3, ReceiveHandshake, Roles, ZenonT(30)
<1>5. \/ pc[Listener] \in {"idle", "accept"} /\ ~link
      \/ pc[Listener] \in {"next_client", "command", FirstLockStep(Listener)} /\ link
  <2>1. \A l \in AskSteps : /\ l \notin LockSteps(Client) /\ l \notin ExecSteps(Client) /\ l \notin RefundSteps(Client)
                            /\ l \notin TalkSteps(Client) /\ l \notin {"idle", "err", "write_prv", "write_pub"}
    BY Roles, PhasesApart, Zenon DEF AskSteps
  <2>2. pc[Listener] \in {"idle", "accept", "next_client", "command", FirstLockStep(Listener)} \cup AnswerSteps
    BY <1>2, <2>1, ZenonT(30) DEF Conversation, Together
  <2>3. link <=> pc[Listener] \notin OutSteps
    BY <1>3, Roles, Zenon DEF Conversation
  <2>4. pc[Listener] \notin AnswerSteps
    BY <1>4, <2>3, Zenon DEF Conversation, Handshake, AnswerSteps, OutSteps
  <2>5. /\ FirstLockStep(Listener) \notin OutSteps /\ "next_client" \notin OutSteps /\ "command" \notin OutSteps
        /\ "idle" \in OutSteps /\ "accept" \in OutSteps
    BY Roles, FirstSteps, Zenon DEF OutSteps
  <2> QED
    BY <2>2, <2>3, <2>4, <2>5, Zenon
<1>6. InStep'
  <2>1. Due[FirstLockStep(Listener)] = Due[FirstLockStep(Client)]
    BY Zenon DEF FirstLockStep, Due
  <2>2. \A l \in {"idle", "accept", "next_client", "command"} : l \notin TalkSteps(Listener)
    BY Roles, PhasesApart, Zenon
  <2>3. \A l \in {"send_execute", "send_cancel", "err"} : l \notin TalkSteps(Client)
    BY Roles, PhasesApart, Zenon
  <2>4. pc'[Listener] \in TalkSteps(Listener) => pc'[Listener] = FirstLockStep(Listener) /\ ~HasLine(Listener)'
    BY <1>4, <1>5, <2>2, ZenonT(30)
  <2>5. pc'[Client] \in TalkSteps(Client) => pc'[Client] = FirstLockStep(Client)
    BY <1>1, <1>4, <2>3, ZenonT(30)
  <2> QED
    BY <1>4, <2>1, <2>4, <2>5, InStepRoles, ZenonT(30)
<1>7. Together'
  <2>1. m = FirstLockStep(Client) => pc[Listener] # "next_client" /\ pc[Listener] # "command"
    <3>1. FirstLockStep(Client) # "err"
      BY Roles, FirstSteps, Zenon
    <3> QED
      BY <1>1, <1>4, <3>1, Zenon
  <2>2. m \in {"send_execute", "send_cancel"} => pc[Listener] \notin LockSteps(Listener) /\ pc[Listener] # "next_client"
    BY <1>1, <1>4, Zenon
  <2>3. FirstLockStep(Listener) \in LockSteps(Listener) /\ FirstLockStep(Client) \in LockSteps(Client)
    BY Roles, PhasesApart, Zenon
  <2>4. CASE pc[Listener] \in {"idle", "accept"}
    BY <1>4, <2>4, ZenonT(30) DEF Together
  <2>5. CASE pc[Listener] = "next_client"
    <3>1. m = "err"
      BY <1>1, <2>1, <2>2, <2>5, ZenonT(30)
    <3> QED
      BY <1>4, <2>5, <3>1, ZenonT(30) DEF Together
  <2>6. CASE pc[Listener] = "command"
    <3>1. m \in SendCommandSteps \cup {"err"}
      BY <1>1, <2>1, <2>6, Zenon DEF SendCommandSteps
    <3> QED
      BY <1>4, <2>6, <3>1, Zenon DEF Together
  <2>7. CASE pc[Listener] = FirstLockStep(Listener)
    <3>1. m \in LockSteps(Client) \cup {"err"}
      BY <1>1, <2>2, <2>3, <2>7, ZenonT(30)
    <3> QED
      BY <1>4, <2>3, <2>7, <3>1, ZenonT(30) DEF Together
  <2> QED
    BY <1>5, <2>4, <2>5, <2>6, <2>7, Zenon
<1>8. Handshake'
  <2>1. pc'[Listener] \notin {"checksum", "ok", "fault"}
    BY <1>4, <1>5, Roles, FirstSteps, ZenonT(30)
  <2>2. pc'[Client] \notin AskSteps
    BY <1>1, <1>4, Roles, FirstSteps, ZenonT(30) DEF AskSteps
  <2>3. pc'[Listener] \in {"next_client", "command"} => ~HasLine(Listener)'
    BY <1>4, <1>5, Roles, FirstSteps, ZenonT(30)
  <2>4. pc'[Listener] = "command" => pc'[Client] \notin ExecSteps(Client) /\ pc'[Client] \notin RefundSteps(Client)
    BY <1>1, <1>4, Roles, PhasesApart, ZenonT(30)
  <2>5. link' => ~HasLine(Listener)'
    BY <1>4, Zenon
  <2> QED
    BY <1>4, <2>1, <2>2, <2>3, <2>4, <2>5, ZenonT(30) DEF Handshake
<1> QED
  BY <1>1, <1>3, <1>4, <1>6, <1>7, <1>8, Roles, Zenon DEF Conversation

-----------------------------------------------------------------------------
(* The rows of the two phases.                                             *)

\* Alice's steps.
LEMMA MwRows ==
    /\ SendRow("mw", "mw_keys", "pub_a", "mw_pub_b")
    /\ ReceiveRow("mw", "mw_pub_b", "pub_b", "mw_lock_time")
    /\ ReceiveRow("mw", "mw_lock_time", "lock_time", "mw_import")
    /\ LocalRow("mw", "mw_import", "mw_address")
    /\ ReceiveRow("mw", "mw_address", "address", "mw_verify")
    /\ ReceiveRow("mw", "mw_address", "address", "err")
    /\ LocalRow("mw", "mw_verify", "mw_height")
    /\ LocalRow("mw", "mw_verify", "err")
    /\ SendRow("mw", "mw_height", "mw_lock_time", "mw_spend")
    /\ SendRow("mw", "mw_spend", "ptx", "mw_ptx2")
    /\ ReceiveRow("mw", "mw_ptx2", "ptx2", "mw_final")
    /\ SendRow("mw", "mw_final", "final", "mw_ref_ptx")
    /\ ReceiveRow("mw", "mw_ref_ptx", "ref_ptx", "mw_ref_ptx2")
    /\ ReceiveRow("mw", "mw_ref_ptx", "ref_ptx", "err")
    /\ SendRow("mw", "mw_ref_ptx2", "ref_ptx2", "mw_ref_final")
    /\ ReceiveRow("mw", "mw_ref_final", "ref_final", "mw_fund")
    /\ LocalRow("mw", "mw_fund", "write_prv")
    /\ LocalRow("mw", "mw_exec", "mw_ctr_ptx")
    /\ SendRow("mw", "mw_ctr_ptx", "ctr_ptx", "mw_ctr_ptx2")
    /\ ReceiveRow("mw", "mw_ctr_ptx2", "ctr_ptx2", "mw_ctr_ptx3")
    /\ ReceiveRow("mw", "mw_ctr_ptx2", "ctr_ptx2", "err")
    /\ SendRow("mw", "mw_ctr_ptx3", "ctr_ptx3", "mw_ctr_final")
    /\ ReceiveRow("mw", "mw_ctr_final", "ctr_final", "mw_redeem")
    /\ LocalRow("mw", "mw_redeem", "write_prv")
    /\ LocalRow("mw", "mw_refund", "mw_refund_push")
    /\ LocalRow("mw", "mw_refund_push", "write_prv")
BY ZenonT(30) DEF SendRow, ReceiveRow, LocalRow, InPhase, TalkSteps, LockSteps, ExecSteps, RefundSteps, MwLockSteps,
       MwExecSteps, Due, Following, LinesTo, LineType

\* Bob's steps.
LEMMA BtcRows ==
    /\ ReceiveRow("btc", "btc_keys", "pub_a", "btc_pub_b")
    /\ SendRow("btc", "btc_pub_b", "pub_b", "btc_height")
    /\ SendRow("btc", "btc_height", "lock_time", "btc_lock")
    /\ LocalRow("btc", "btc_lock", "btc_address")
    /\ SendRow("btc", "btc_address", "address", "btc_mw_lock_time")
    /\ ReceiveRow("btc", "btc_mw_lock_time", "mw_lock_time", "btc_ptx")
    /\ ReceiveRow("btc", "btc_ptx", "ptx", "btc_ptx2")
    /\ SendRow("btc", "btc_ptx2", "ptx2", "btc_final")
    /\ ReceiveRow("btc", "btc_final", "final", "btc_ref_ptx")
    /\ SendRow("btc", "btc_ref_ptx", "ref_ptx", "btc_ref_ptx2")
    /\ ReceiveRow("btc", "btc_ref_ptx2", "ref_ptx2", "btc_ref_final")
    /\ SendRow("btc", "btc_ref_final", "ref_final", "write_prv")
    /\ LocalRow("btc", "btc_exec", "btc_ctr_ptx")
    /\ ReceiveRow("btc", "btc_ctr_ptx", "ctr_ptx", "btc_ctr_ptx2")
    /\ SendRow("btc", "btc_ctr_ptx2", "ctr_ptx2", "btc_ctr_ptx3")
    /\ ReceiveRow("btc", "btc_ctr_ptx3", "ctr_ptx3", "btc_ctr_final")
    /\ ReceiveRow("btc", "btc_ctr_ptx3", "ctr_ptx3", "err")
    /\ SendRow("btc", "btc_ctr_final", "ctr_final", "btc_contract")
    /\ LocalRow("btc", "btc_contract", "write_prv")
    /\ LocalRow("btc", "btc_refund", "btc_refund_push")
    /\ LocalRow("btc", "btc_refund_push", "write_prv")
BY ZenonT(30) DEF SendRow, ReceiveRow, LocalRow, InPhase, TalkSteps, LockSteps, ExecSteps, RefundSteps, BtcLockSteps,
       BtcExecSteps, Due, Following, LinesTo, LineType

\* Alice's steps keep the two sides in step.
LEMMA MwTalk ==
    ASSUME TypeOK, Conversation, MwStep
    PROVE  Conversation'
<1>1. "mw" \in Party
  OBVIOUS
<1>2. session \in Nat /\ LockHeight("mw") \in Nat /\ prv["mw"].shared_coin \in Nat /\ 0 \in Nat
  BY Amounts, Zenon
<1>3. CASE locking_phase_swap_mw
  <2>1. CASE mw_send_pub_a
    BY <1>1, <1>2, <2>1, SendTalk, MwRows, Zenon DEF mw_send_pub_a, At
  <2>2. CASE mw_receive_pub_b
    BY <2>2, ReceiveTalk, MwRows, Zenon DEF mw_receive_pub_b, At
  <2>3. CASE mw_receive_lock_time
    BY <2>3, ReceiveTalk, MwRows, Zenon DEF mw_receive_lock_time, At
  <2>4. CASE mw_import_address
    BY <2>4, LocalTalk, MwRows, Zenon DEF mw_import_address, At
  <2>5. CASE mw_receive_address
    BY <2>5, ReceiveTalk, MwRows, Zenon DEF mw_receive_address, At
  <2>6. CASE mw_balance_found
    BY <2>6, LocalTalk, MwRows, Zenon DEF mw_balance_found, At
  <2>7. CASE mw_balance_differs \/ mw_balance_zero
    BY <2>7, SameConversation, Zenon DEF mw_balance_differs, mw_balance_zero
  <2>8. CASE mw_not_verified
    BY <1>1, <2>8, LocalTalk, MwRows, Zenon DEF mw_not_verified, At
  <2>9. CASE mw_send_lock_height
    BY <1>2, <2>9, SendTalk, MwRows, Zenon DEF mw_send_lock_height, At
  <2>10. CASE mw_shared_out
    BY <2>10, SendTalk, ReceiveTalk, MwRows, Zenon DEF mw_shared_out, SendStep, ReceiveStep, At
  <2>11. CASE mw_funds_panic
    BY <2>11, DieTalk, Zenon DEF mw_funds_panic
  <2>12. CASE mw_refund_tx
    BY <1>1, <1>2, <2>12, SendTalk, ReceiveTalk, MwRows, Zenon DEF mw_refund_tx, SendStep, At
  <2>13. CASE mw_push_funding
    BY <2>13, LocalTalk, MwRows, Zenon DEF mw_push_funding, At
  <2> QED
    BY <1>3, <2>1, <2>2, <2>3, <2>4, <2>5, <2>6, <2>7, <2>8, <2>9, <2>10, <2>11, <2>12, <2>13, ZenonT(30) DEF
           locking_phase_swap_mw
<1>4. CASE exec_phase_swap_mw
  <2>1. CASE StartExecution("mw", "mw_exec", "mw_ctr_ptx")
    BY <2>1, LocalTalk, MwRows, Zenon DEF StartExecution, At
  <2>2. CASE mw_contract_tx
    BY <1>1, <1>2, <2>2, SendTalk, ReceiveTalk, MwRows, Zenon DEF mw_contract_tx, SendStep, ReceiveStep, At
  <2>3. CASE mw_redeem
    BY <2>3, LocalTalk, MwRows, Zenon DEF mw_redeem, At
  <2> QED
    BY <1>4, <2>1, <2>2, <2>3, Zenon DEF exec_phase_swap_mw
<1>5. CASE refund_phase_swap_mw
  BY <1>5, LocalTalk, MwRows, Zenon DEF refund_phase_swap_mw, StartRefund, mw_push_refund, At
<1> QED
  BY <1>3, <1>4, <1>5, Zenon DEF MwStep

\* Bob's steps keep the two sides in step.
LEMMA BtcTalk ==
    ASSUME TypeOK, Conversation, BtcStep
    PROVE  Conversation'
<1>1. "btc" \in Party
  OBVIOUS
<1>2. /\ session \in Nat /\ LockHeight("btc") \in Nat /\ pub["btc"].pub_b \in Nat /\ 0 \in Nat
      /\ pub["btc"].mw_lock_time \in Nat /\ prv["btc"].sk \in Nat /\ prv["btc"].x \in Nat
  BY Amounts, Zenon
<1>3. CASE locking_phase_swap_btc
  <2>1. CASE btc_receive_pub_a
    BY <2>1, ReceiveTalk, BtcRows, Zenon DEF btc_receive_pub_a, At
  <2>2. CASE btc_send_pub_b
    BY <1>2, <2>2, SendTalk, BtcRows, Zenon DEF btc_send_pub_b, SendStep, At
  <2>3. CASE btc_send_lock_time
    BY <1>2, <2>3, SendTalk, BtcRows, Zenon DEF btc_send_lock_time, At
  <2>4. CASE btc_lock_fails
    BY <2>4, DieTalk, Zenon DEF btc_lock_fails
  <2>5. CASE btc_send_lock
    BY <2>5, LocalTalk, BtcRows, Zenon DEF btc_send_lock, At
  <2>6. CASE btc_send_address
    BY <1>2, <2>6, SendTalk, BtcRows, Zenon DEF btc_send_address, At
  <2>7. CASE btc_receive_lock_height
    BY <2>7, ReceiveTalk, BtcRows, Zenon DEF btc_receive_lock_height, At
  <2>8. CASE btc_shared_out
    BY <2>8, SendTalk, ReceiveTalk, BtcRows, Zenon DEF btc_shared_out, SendStep, ReceiveStep, At
  <2>9. CASE btc_refund_tx
    BY <1>2, <2>9, SendTalk, ReceiveTalk, BtcRows, Zenon DEF btc_refund_tx, SendStep, ReceiveStep, At
  <2> QED
    BY <1>3, <2>1, <2>2, <2>3, <2>4, <2>5, <2>6, <2>7, <2>8, <2>9, Zenon DEF locking_phase_swap_btc
<1>4. CASE exec_phase_swap_btc
  <2>1. CASE StartExecution("btc", "btc_exec", "btc_ctr_ptx")
    BY <2>1, LocalTalk, BtcRows, Zenon DEF StartExecution, At
  <2>2. CASE btc_contract_tx
    BY <1>2, <2>2, SendTalk, ReceiveTalk, BtcRows, Zenon DEF btc_contract_tx, SendStep, ReceiveStep, At
  <2>3. CASE btc_push_contract
    BY <2>3, LocalTalk, BtcRows, Zenon DEF btc_push_contract, At
  <2> QED
    BY <1>4, <2>1, <2>2, <2>3, Zenon DEF exec_phase_swap_btc
<1>5. CASE refund_phase_swap_btc
  BY <1>5, LocalTalk, BtcRows, Zenon DEF refund_phase_swap_btc, StartRefund, btc_send_refund, At
<1> QED
  BY <1>3, <1>4, <1>5, ZenonT(30) DEF BtcStep

=============================================================================
