------------------------- MODULE TcpChannel_proofs -------------------------
(***************************************************************************)
(* Theorems about TcpChannel: for scripts of any length and processes that *)
(* are killed at any point, however TCP cuts the stream, messages are      *)
(* handed over once and in order, and no ACK is ahead of its message.      *)
(***************************************************************************)
EXTENDS TcpChannel, SequenceTheorems, WellFoundedInduction, TLAPS

USE DEF End, Other

-----------------------------------------------------------------------------
(* The inductive invariant.                                                *)

\* All that is under way to e and not yet returned to it.
Flow(e) == buf[e] \o sock[e] \o wire[e]
Alive(e) == state[e] # "panic"
Received(e, i) == \E k \in DOMAIN got[e] : got[e][k] # <<>> /\ Last(got[e][k]) = Newline(i)

\* What a living process e can still read: fl are the fragments under way to it, st is its
\* state, i its step, r says that message i has been received, and ms are the messages the
\* other one sends.  Outside send_msg e reads a part of message i; inside, the ACK of a
\* message that has been received, or a part of message i + 1, or first the one and then
\* the other.
Fits(fl, st, i, r, ms) ==
    \A k \in 1 .. Len(fl) :
        /\ st = "run" => fl[k].msg = i
        /\ st = "ack" => fl[k].msg \in {0, i + 1}
        /\ fl[k].msg = 0 => k <= 2 /\ r
        /\ fl[k].msg # 0 => fl[k].msg \in ms
        /\ fl[k].msg # 0 /\ fl[k].part = "newline" => k = Len(fl)
Theirs(e) == {m \in 1 .. Len(script) : script[m] # e}
Stream(e) ==
    /\ state[e] = "ack" => Sender(e)
    /\ Fits(Flow(e), state[e], step[e], Received(Other(e), step[e]), Theirs(e))

\* Two living processes are at the same message, or the sender s has not yet read the ACK
\* that is under way to it.  In the second case the receiver may have begun to send.
Quiet(e) == Flow(e) = <<>>
Acks(e) == \A k \in 1 .. Len(Flow(e)) : Flow(e)[k].msg = 0
Same(s, r) ==
    /\ step[r] = step[s] /\ Quiet(s) /\ state[r] = "run"
    /\ \/ Done(s) /\ state[s] = "run" /\ Quiet(r)
       \/ Sender(s) /\ state[s] = "run" /\ Quiet(r)
       \/ Sender(s) /\ state[s] = "ack"
Behind(s, r) ==
    /\ step[r] = step[s] + 1 /\ Quiet(r) /\ state[s] = "ack"
    /\ \/ state[r] = "run" /\ Acks(s)
       \/ state[r] = "ack" /\ Sender(r)
Paired == \E s \in End : Same(s, Other(s)) \/ Behind(s, Other(s))

\* The lines handed over to e are of messages before its step.
Handed(e) ==
    /\ step[e] > 0
    /\ \A k \in DOMAIN got[e] : got[e][k] # <<>> => Last(got[e][k]).msg \in 0 .. step[e] - 1

IInv ==
    /\ \A e \in End : Handed(e) /\ (Alive(e) => Stream(e))
    /\ (\A e \in End : Alive(e)) => Paired
    /\ DeliveredInOrder

-----------------------------------------------------------------------------
(* Sequences.                                                              *)

\* A set of numbers has a least element.
LEMMA LeastNat ==
    ASSUME NEW S \in SUBSET Nat, S # {}
    PROVE  \E i \in S : \A j \in S : i <= j
<1> DEFINE Less == {ss \in Nat \X Nat : ss[1] < ss[2]}
<1>1. IsWellFoundedOn(Less, Nat)
  BY NatLessThanWellFounded, Zenon DEF OpToRel
<1> HIDE DEF Less
<1>2. PICK i \in S : \A j \in S : ~(<<j, i>> \in Less)
  BY <1>1, WFMin, Zenon
<1>3. \A j \in S : ~(j < i)
  BY <1>2, Zenon DEF Less
<1> QED
  BY <1>3

\* What read_line returns: the beginning of what has been read, up to a newline.
LEMMA FirstLineFacts ==
    ASSUME NEW S, NEW s \in Seq(S), Newlines(s) # {}
    PROVE  /\ FirstLine(s) \in Seq(S) /\ FirstLine(s) # <<>>
           /\ Len(FirstLine(s)) \in 1 .. Len(s)
           /\ \A i \in 1 .. Len(FirstLine(s)) : FirstLine(s)[i] = s[i]
           /\ Last(FirstLine(s)) = s[Len(FirstLine(s))]
           /\ Last(FirstLine(s)).part = "newline"
<1> DEFINE n == CHOOSE i \in Newlines(s) : \A j \in Newlines(s) : i <= j
<1>1. n \in Newlines(s)
  <2>1. Newlines(s) \in SUBSET Nat
    BY DEF Newlines
  <2>2. \E i \in Newlines(s) : \A j \in Newlines(s) : i <= j
    BY <2>1, LeastNat, Zenon
  <2> QED
    BY <2>2, Zenon
<1>2. n \in 1 .. Len(s) /\ s[n].part = "newline"
  BY <1>1, SMTT(30) DEF Newlines
<1>3. FirstLine(s) = SubSeq(s, 1, n)
  BY Zenon DEF FirstLine
<1> HIDE DEF n
<1>4. /\ SubSeq(s, 1, n) \in Seq(S) /\ Len(SubSeq(s, 1, n)) = n
      /\ \A i \in 1 .. n : SubSeq(s, 1, n)[i] = s[i]
  BY <1>2
<1> QED
  BY <1>2, <1>3, <1>4 DEF Last

-----------------------------------------------------------------------------
(* Types.                                                                  *)

\* Queues of fragments.
Stuff == Seq(Fragments({"text", "newline"}))

\* What is under way, and where it is.
LEMMA FlowType ==
    ASSUME TypeOK, NEW e \in End
    PROVE  /\ buf[e] \in Stuff /\ sock[e] \in Stuff /\ wire[e] \in Stuff
           /\ Chunk(e) \in Stuff /\ Flow(e) \in Stuff
           /\ Flow(e) = Chunk(e) \o wire[e]
           /\ Len(Flow(e)) = Len(Chunk(e)) + Len(wire[e])
           /\ \A k \in 1 .. Len(Chunk(e)) : Flow(e)[k] = Chunk(e)[k]
           /\ \A k \in 1 .. Len(wire[e]) : Flow(e)[Len(Chunk(e)) + k] = wire[e][k]
<1>1. buf[e] \in Seq(Fragments({"text"})) /\ Fragments({"text"}) \subseteq Fragments({"text", "newline"})
  BY Zenon DEF TypeOK, Fragments
<1>2. buf[e] \in Stuff /\ sock[e] \in Stuff /\ wire[e] \in Stuff
  BY <1>1, SeqMonotonic, Zenon DEF TypeOK, Stuff
<1> DEFINE T == Fragments({"text", "newline"})
<1> HIDE DEF T
<1>3. buf[e] \in Seq(T) /\ sock[e] \in Seq(T) /\ wire[e] \in Seq(T)
  BY <1>2, Zenon DEF Stuff, T
<1>4. Chunk(e) \in Seq(T)
  BY <1>3 DEF Chunk
<1>5. Flow(e) = Chunk(e) \o wire[e]
  BY Zenon DEF Flow, Chunk
<1>6. /\ Flow(e) \in Seq(T)
      /\ Len(Flow(e)) = Len(Chunk(e)) + Len(wire[e])
      /\ \A k \in 1 .. Len(Chunk(e)) : Flow(e)[k] = Chunk(e)[k]
      /\ \A k \in 1 .. Len(wire[e]) : Flow(e)[Len(Chunk(e)) + k] = wire[e][k]
  BY <1>3, <1>4, <1>5
<1> QED
  BY <1>2, <1>4, <1>5, <1>6, Zenon DEF Stuff, T

\* There are two ends.
LEMMA OtherEnd == \A e \in End : Other(e) \in End /\ Other(e) # e /\ Other(Other(e)) = e
OBVIOUS

\* One step of a process or of the network keeps the types.
LEMMA NextType ==
    ASSUME TypeOK, [Next]_vars
    PROVE  TypeOK'
<1> USE OtherEnd
<1> DEFINE T == Fragments({"text", "newline"})
           C == Fragments({"text", "newline", "cut"})
<1>0. /\ \A m \in Nat : Text(m) \in T /\ Newline(m) \in T
      /\ T \subseteq C
  BY Zenon DEF Fragments, Text, Newline
<1>1. \A m \in Nat : Whole(m) \in Seq(T) /\ <<Text(m)>> \in Seq(T)
  BY <1>0 DEF Whole
<1> HIDE DEF T, C
<1>2. /\ script \in Scripts /\ step \in [End -> Nat] /\ state \in [End -> {"run", "ack", "panic"}]
      /\ wire \in [End -> Seq(T)] /\ sock \in [End -> Seq(T)] /\ buf \in [End -> Seq(Fragments({"text"}))]
      /\ got \in [End -> Seq(Seq(C))]
  BY Zenon DEF TypeOK, T, C
<1>3. SUFFICES
      /\ script' \in Scripts /\ step' \in [End -> Nat] /\ state' \in [End -> {"run", "ack", "panic"}]
      /\ wire' \in [End -> Seq(T)] /\ sock' \in [End -> Seq(T)] /\ buf' \in [End -> Seq(Fragments({"text"}))]
      /\ got' \in [End -> Seq(Seq(C))]
  BY Zenon DEF TypeOK, T, C
<1>4. CASE UNCHANGED vars
  BY <1>2, <1>4, Zenon DEF vars
<1>5. ASSUME NEW e \in End, Arrive(e)
      PROVE  <1>3!1
  BY <1>2, <1>5, SMTT(30) DEF Arrive
<1>6. ASSUME NEW e \in End, FillBuffer(e)
      PROVE  <1>3!1
  <2>1. Chunk(e) \in Seq(T) /\ Newlines(Chunk(e)) = {}
    BY <1>6, FlowType, Zenon DEF FillBuffer, Stuff, T
  <2>2. \A k \in 1 .. Len(Chunk(e)) : Chunk(e)[k] \in T /\ Chunk(e)[k].part # "newline"
    BY <2>1 DEF Newlines
  <2>3. \A k \in 1 .. Len(Chunk(e)) : Chunk(e)[k] \in Fragments({"text"})
    BY <2>2, Zenon DEF T, Fragments
  <2>4. Chunk(e) \in Seq(Fragments({"text"}))
    BY <2>1, <2>3
  <2> QED
    BY <1>2, <1>6, <2>4 DEF FillBuffer
<1>7. ASSUME NEW e \in End, SendWrite(e)
      PROVE  <1>3!1
  <2>0. step[e] \in Nat /\ wire[Other(e)] \in Seq(T)
    BY <1>2, Zenon
  <2>1. wire[Other(e)] \o Whole(step[e]) \in Seq(T)
    BY <1>1, <2>0, ConcatProperties, Zenon
  <2>2. wire' \in [End -> Seq(T)]
    BY <1>2, <1>7, <2>1, Zenon DEF SendWrite, write_to_stream
  <2> QED
    BY <1>2, <1>7, <2>2, Zenon DEF SendWrite
<1>8. ASSUME NEW e \in End, SendAcknowledged(e)
      PROVE  <1>3!1
  BY <1>2, <1>8 DEF SendAcknowledged, read_from_stream
<1>9. ASSUME NEW e \in End, LineComplete(e)
      PROVE  FirstLine(Chunk(e)) \in Seq(C)
  <2>1. Chunk(e) \in Seq(T)
    BY FlowType, Zenon DEF Stuff, T
  <2>2. FirstLine(Chunk(e)) \in Seq(T)
    BY <1>9, <2>1, FirstLineFacts, Zenon DEF LineComplete
  <2> QED
    BY <1>0, <2>2, SeqMonotonic, Zenon
<1>10. ASSUME NEW e \in End, receive_msg(e)
       PROVE  <1>3!1
  <2>1. FirstLine(Chunk(e)) \in Seq(C)
    BY <1>9, <1>10, Zenon DEF receive_msg, read_from_stream
  <2>2. wire[Other(e)] \o Whole(0) \in Seq(T)
    BY <1>1, <1>2
  <2>3. wire' \in [End -> Seq(T)]
    BY <1>2, <1>10, <2>2, Zenon DEF receive_msg, write_to_stream
  <2>4. Append(got[e], FirstLine(Chunk(e))) \in Seq(Seq(C))
    BY <1>2, <2>1
  <2>5. got' \in [End -> Seq(Seq(C))]
    BY <1>2, <1>10, <2>4, Zenon DEF receive_msg
  <2>6. step' \in [End -> Nat] /\ buf' \in [End -> Seq(Fragments({"text"}))] /\ sock' \in [End -> Seq(T)]
    BY <1>2, <1>10, SMTT(30) DEF receive_msg, read_from_stream
  <2> QED
    BY <1>2, <1>10, <2>3, <2>5, <2>6, ZenonT(30) DEF receive_msg
<1>11. ASSUME NEW e \in End, EndOfStream(e)
       PROVE  <1>3!1
  <2>1. Rest(e) \in Seq(C)
    <3>1. buf[e] \in Seq(Fragments({"text"}))
      BY <1>2, Zenon
    <3>2. \A k \in DOMAIN buf[e] : buf[e][k] \in Fragments({"text"})
      BY <3>1
    <3>3. \A k \in DOMAIN buf[e] : [buf[e][k] EXCEPT !.part = "cut"] \in C
      BY <3>2, Zenon DEF Fragments, C
    <3> QED
      BY <3>1, <3>3 DEF Rest
  <2>2. Append(got[e], Rest(e)) \in Seq(Seq(C))
    BY <1>2, <2>1
  <2>3. got' \in [End -> Seq(Seq(C))]
    BY <1>2, <1>11, <2>2, Zenon DEF EndOfStream
  <2>4. step' \in [End -> Nat] /\ state' \in [End -> {"run", "ack", "panic"}]
    BY <1>2, <1>11, SMTT(30) DEF EndOfStream
  <2>5. buf' \in [End -> Seq(Fragments({"text"}))]
    BY <1>2, <1>11 DEF EndOfStream
  <2> QED
    BY <1>2, <1>11, <2>3, <2>4, <2>5, Zenon DEF EndOfStream
<1>12. ASSUME NEW e \in End, Crash(e)
       PROVE  <1>3!1
  <2>1. Append(wire[Other(e)], Text(step[e])) \in Seq(T)
    BY <1>0, <1>2
  <2>2. wire' \in [End -> Seq(T)]
    BY <1>2, <1>12, <2>1, Zenon DEF Crash
  <2> QED
    BY <1>2, <1>12, <2>2, ZenonT(30) DEF Crash
<1> QED
  BY <1>4, <1>5, <1>6, <1>7, <1>8, <1>10, <1>11, <1>12, ZenonT(30) DEF Next, ProcessStep

-----------------------------------------------------------------------------
(* What a process can read.                                                *)

\* Nothing is always fit to be read.
LEMMA FitsNothing == \A st, i, r, ms : Fits(<<>>, st, i, r, ms)
BY DEF Fits

\* The two parts of a message.
LEMMA WholeIs ==
    ASSUME NEW m
    PROVE  /\ Len(Whole(m)) = 2 /\ Len(<<Text(m)>>) = 1 /\ Whole(m) # <<>>
           /\ Whole(m)[1] = Text(m) /\ Whole(m)[2] = Newline(m) /\ <<Text(m)>>[1] = Text(m)
           /\ Text(m).msg = m /\ Newline(m).msg = m /\ Text(m).part = "text" /\ Newline(m).part = "newline"
BY Zenon DEF Whole, Text, Newline

\* A message, or what a killed process has written of it.
LEMMA MessageIs ==
    ASSUME NEW m \in Nat, NEW w \in {Whole(m), <<Text(m)>>}
    PROVE  /\ w \in Stuff /\ Len(w) \in {1, 2}
           /\ \A k \in 1 .. Len(w) : w[k].msg = m /\ (w[k].part = "newline" => k = Len(w))
<1>1. Text(m) \in Fragments({"text", "newline"}) /\ Newline(m) \in Fragments({"text", "newline"})
  BY Zenon DEF Text, Newline, Fragments
<1>2. CASE w = Whole(m)
  <2>1. w \in Stuff /\ Len(w) = 2
    BY <1>1, <1>2 DEF Whole, Stuff
  <2>2. \A k \in 1 .. 2 : k = 1 \/ k = 2
    OBVIOUS
  <2>3. w[1].msg = m /\ w[1].part = "text" /\ w[2].msg = m
    BY <1>2, WholeIs
  <2> QED
    BY <2>1, <2>2, <2>3, Zenon
<1>3. CASE w = <<Text(m)>>
  <2>1. w \in Stuff /\ Len(w) = 1
    BY <1>1, <1>3 DEF Stuff
  <2>2. w[1].msg = m /\ w[1].part = "text"
    BY <1>3, WholeIs, Zenon
  <2> QED
    BY <2>1, <2>2
<1> QED
  BY <1>2, <1>3, Zenon

\* A message to a process that waits for it.
LEMMA FitsMessage ==
    ASSUME NEW i \in Nat \ {0}, NEW r, NEW ms, i \in ms, NEW w \in {Whole(i), <<Text(i)>>}
    PROVE  Fits(w, "run", i, r, ms)
<1>1. \A k \in 1 .. Len(w) : w[k].msg = i /\ (w[k].part = "newline" => k = Len(w))
  BY MessageIs, ZenonT(30)
<1> QED
  BY <1>1, Zenon DEF Fits

\* The ACK, to a process that waits for it.
LEMMA FitsAck ==
    ASSUME NEW i \in Nat, NEW ms
    PROVE  Fits(Whole(0), "ack", i, TRUE, ms)
BY WholeIs DEF Fits

\* The next message, behind the ACK.
LEMMA FitsNext ==
    ASSUME NEW fl \in Stuff, NEW i \in Nat, NEW r, NEW ms, NEW j \in ms, j = i + 1, NEW w \in {Whole(j), <<Text(j)>>},
           Fits(fl, "ack", i, r, ms), \A k \in 1 .. Len(fl) : fl[k].msg = 0
    PROVE  Fits(fl \o w, "ack", i, r, ms)
<1>0. j \in Nat
  OBVIOUS
<1> DEFINE T == Fragments({"text", "newline"})
<1> HIDE DEF T
<1>1. w \in Seq(T) /\ Len(w) \in {1, 2}
  BY <1>0, MessageIs, Zenon DEF Stuff, T
<1>2. \A k \in 1 .. Len(w) : w[k].msg = j /\ (w[k].part = "newline" => k = Len(w))
  BY <1>0, MessageIs, ZenonT(30)
<1>3. fl \in Seq(T)
  BY Zenon DEF Stuff, T
<1>4. /\ Len(fl \o w) = Len(fl) + Len(w) /\ Len(fl) \in Nat
      /\ \A k \in 1 .. Len(fl) : (fl \o w)[k] = fl[k]
      /\ \A k \in (Len(fl) + 1) .. (Len(fl) + Len(w)) : (fl \o w)[k] = w[k - Len(fl)]
  BY <1>1, <1>3
<1>5. ASSUME NEW k \in 1 .. Len(fl)
      PROVE  /\ (fl \o w)[k].msg = 0 /\ k <= 2 /\ r
  BY <1>4, <1>5, Zenon DEF Fits
<1>6. ASSUME NEW k \in (Len(fl) + 1) .. (Len(fl) + Len(w))
      PROVE  (fl \o w)[k].msg = j /\ ((fl \o w)[k].part = "newline" => k = Len(fl \o w))
  <2>1. k - Len(fl) \in 1 .. Len(w) /\ (fl \o w)[k] = w[k - Len(fl)]
    BY <1>1, <1>4, <1>6
  <2> QED
    BY <1>1, <1>2, <1>4, <2>1
<1> QED
  BY <1>0, <1>1, <1>4, <1>5, <1>6 DEF Fits

\* What is left when the ACK has been read, with all that was in the buffer.
LEMMA FitsRest ==
    ASSUME NEW c \in Stuff, NEW w \in Stuff, NEW i \in Nat, NEW r, NEW q, NEW ms,
           Fits(c \o w, "ack", i, r, ms), Len(c) >= 2
    PROVE  Fits(w, "run", i + 1, q, ms)
<1> DEFINE T == Fragments({"text", "newline"})
<1> HIDE DEF T
<1>1. c \in Seq(T) /\ w \in Seq(T)
  BY Zenon DEF Stuff, T
<1>2. /\ Len(c \o w) = Len(c) + Len(w) /\ Len(c) \in Nat /\ Len(w) \in Nat
      /\ \A k \in 1 .. Len(w) : (c \o w)[Len(c) + k] = w[k] /\ Len(c) + k \in 1 .. Len(c \o w)
  BY <1>1
<1>3. ASSUME NEW k \in 1 .. Len(w)
      PROVE  /\ w[k].msg = i + 1 /\ w[k].msg \in ms /\ w[k].msg # 0
             /\ w[k].part = "newline" => k = Len(w)
  <2>1. (c \o w)[Len(c) + k] = w[k] /\ Len(c) + k \in 1 .. Len(c \o w) /\ Len(c) + k > 2
    BY <1>2, <1>3
  <2> QED
    BY <1>2, <2>1 DEF Fits
<1> QED
  BY <1>3, Zenon DEF Fits

-----------------------------------------------------------------------------
(* What has been handed over.                                              *)

\* The part of the invariant that is about returned calls.
Books == DeliveredInOrder /\ \A e \in End : Handed(e)

\* send_msg returns, for a message that has been received.
LEMMA BooksAcknowledged ==
    ASSUME TypeOK, Books, NEW e \in End, UNCHANGED <<script, got>>,
           step' = [step EXCEPT ![e] = @ + 1], Received(Other(e), step[e])
    PROVE  Books'
<1>1. step \in [End -> Nat]
  BY Zenon DEF TypeOK
<1>2. AckMeansReceived'
  <2>1. \A p \in End : \A i \in 1 .. step[p] - 1 : script[i] = p => Received(Other(p), i)
    BY Zenon DEF Books, DeliveredInOrder, AckMeansReceived, Received
  <2>2. \A p \in End : \A i \in 1 .. step'[p] - 1 : i \in 1 .. step[p] - 1 \/ (p = e /\ i = step[e])
    BY <1>1
  <2>3. \A p \in End : \A i \in 1 .. step'[p] - 1 : script[i] = p => Received(Other(p), i)
    BY <2>1, <2>2, Zenon
  <2> QED
    BY <2>3, Zenon DEF AckMeansReceived, Received
<1>3. ReceivedInOrder'
  BY Zenon DEF Books, DeliveredInOrder, ReceivedInOrder
<1>4. \A p \in End : Handed(p)'
  BY <1>1 DEF Books, Handed
<1> QED
  BY <1>2, <1>3, <1>4, Zenon DEF Books, DeliveredInOrder

\* receive_msg returns a line of the message of its step, or a line that is empty.
LEMMA BooksReceived ==
    ASSUME TypeOK, Books, NEW e \in End, UNCHANGED script, NEW line,
           got' = [got EXCEPT ![e] = Append(@, line)], step' = [step EXCEPT ![e] = @ + 1],
           script[step[e]] # e, line # <<>> => Last(line).msg = step[e]
    PROVE  /\ Books'
           /\ \A p \in End, i \in Nat : Received(p, i) => Received(p, i)'
           /\ \A i \in Nat : i = step[e] /\ line # <<>> /\ Last(line) = Newline(i) => Received(e, i)'
<1>1. step \in [End -> Nat] /\ DOMAIN got = End
  BY Zenon DEF TypeOK
<1>2. \A p \in End : \E S : got[p] \in Seq(S)
  BY Zenon DEF TypeOK
<1>3. /\ Len(got[e]) \in Nat /\ DOMAIN got[e] = 1 .. Len(got[e])
      /\ DOMAIN got'[e] = 1 .. Len(got[e]) + 1
      /\ got'[e][Len(got[e]) + 1] = line
      /\ \A k \in DOMAIN got[e] : got'[e][k] = got[e][k]
  BY <1>1, <1>2
<1>4. \A p \in End : p # e => got'[p] = got[p] /\ step'[p] = step[p]
  BY <1>1, Zenon
<1>5. step'[e] = step[e] + 1 /\ step[e] \in Nat
  BY <1>1, Zenon
<1>6. \A p \in End, i \in Nat : Received(p, i) => Received(p, i)'
  BY <1>3, <1>4 DEF Received, Newline
<1>7. AckMeansReceived'
  <2>1. \A p \in End : \A i \in 1 .. step[p] - 1 : script[i] = p => Received(Other(p), i)
    BY Zenon DEF Books, DeliveredInOrder, AckMeansReceived, Received
  <2>2. \A p \in End : \A i \in 1 .. step'[p] - 1 : i \in 1 .. step[p] - 1 \/ (p = e /\ i = step[e])
    BY <1>1
  <2>3. \A p \in End : \A i \in 1 .. step'[p] - 1 : script'[i] = p => Received(Other(p), i)'
    BY <1>6, <2>1, <2>2, SMTT(30)
  <2> QED
    BY <2>3, Zenon DEF AckMeansReceived, Received
<1>8. ASSUME NEW p \in End, NEW k \in DOMAIN got'[p], got'[p][k] # <<>>
      PROVE  IF k \in DOMAIN got[p] THEN got'[p][k] = got[p][k] /\ Last(got[p][k]).msg \in 0 .. step[p] - 1
             ELSE p = e /\ k = Len(got[e]) + 1 /\ Last(got'[p][k]).msg = step[e]
  BY <1>3, <1>4, <1>8 DEF Books, Handed
<1>9. ReceivedInOrder'
  <2>1. SUFFICES ASSUME NEW p \in End, NEW j \in DOMAIN got'[p], NEW k \in DOMAIN got'[p],
                        j < k, got'[p][j] # <<>>, got'[p][k] # <<>>
                 PROVE  Last(got'[p][j]).msg < Last(got'[p][k]).msg
    BY Zenon DEF ReceivedInOrder
  <2>2. CASE k \in DOMAIN got[p]
    <3>1. j \in DOMAIN got[p]
      BY <1>3, <1>4, <2>1, <2>2, SMTT(30)
    <3> QED
      BY <1>8, <2>1, <2>2, <3>1 DEF Books, DeliveredInOrder, ReceivedInOrder
  <2>3. CASE k \notin DOMAIN got[p]
    <3>1. p = e /\ k = Len(got[e]) + 1 /\ Last(got'[p][k]).msg = step[e]
      BY <1>8, <2>1, <2>3, ZenonT(30)
    <3>2. j \in DOMAIN got[e]
      BY <1>3, <2>1, <3>1
    <3>3. Last(got'[p][j]).msg \in 0 .. step[e] - 1
      BY <1>8, <2>1, <3>1, <3>2, ZenonT(30)
    <3> QED
      BY <1>5, <3>1, <3>3
  <2> QED
    BY <2>2, <2>3, Zenon
<1>10. ASSUME NEW p \in End
       PROVE  Handed(p)'
  <2>1. step[p] > 0 /\ step[p] \in Nat /\ step'[p] \in {step[p], step[p] + 1} /\ (p = e => step'[p] = step[p] + 1)
    BY <1>1, <1>5, <1>4, Zenon DEF Books, Handed
  <2>2. \A k \in DOMAIN got'[p] : got'[p][k] # <<>> => Last(got'[p][k]).msg \in 0 .. step'[p] - 1
    <3>1. SUFFICES ASSUME NEW k \in DOMAIN got'[p], got'[p][k] # <<>>
                   PROVE  Last(got'[p][k]).msg \in 0 .. step'[p] - 1
      OBVIOUS
    <3>2. CASE k \in DOMAIN got[p]
      BY <1>4, <1>8, <2>1, <3>1, <3>2, SMTT(30)
    <3>3. CASE k \notin DOMAIN got[p]
      BY <1>5, <1>8, <3>1, <3>3
    <3> QED
      BY <3>2, <3>3, Zenon
  <2> QED
    BY <2>1, <2>2 DEF Handed
<1>11. \A i \in Nat : i = step[e] /\ line # <<>> /\ Last(line) = Newline(i) => Received(e, i)'
  BY <1>3 DEF Received
<1> QED
  BY <1>6, <1>7, <1>9, <1>10, <1>11, ZenonT(30) DEF Books, DeliveredInOrder

-----------------------------------------------------------------------------
(* The steps.                                                              *)

\* Nothing new is under way to e and it has not moved.
LEMMA StreamKept ==
    ASSUME NEW e \in End, Stream(e), Flow(e)' = Flow(e), state'[e] = state[e], step'[e] = step[e],
           UNCHANGED script, step[e] \in Nat, Received(Other(e), step[e]) => Received(Other(e), step[e])'
    PROVE  Stream(e)'
<1>1. Theirs(e)' = Theirs(e) /\ Sender(e)' = Sender(e)
  BY Zenon DEF Theirs, Sender, Done
<1>2. Fits(Flow(e)', state'[e], step'[e], Received(Other(e), step[e])', Theirs(e)')
  BY <1>1, Zenon DEF Stream, Fits
<1> QED
  BY <1>1, <1>2, Zenon DEF Stream

\* The writes of a process and the arrival of what was written.
LEMMA FlowMoves ==
    ASSUME TypeOK, NEW e \in End
    PROVE  /\ Arrive(e) \/ FillBuffer(e) => \A p \in End : Flow(p)' = Flow(p)
           /\ SendWrite(e) => Flow(Other(e))' = Flow(Other(e)) \o Whole(step[e]) /\ Flow(e)' = Flow(e)
           /\ SendAcknowledged(e) => Flow(Other(e))' = Flow(Other(e)) /\ Flow(e)' = wire[e]
           /\ receive_msg(e) => Flow(Other(e))' = Flow(Other(e)) \o Whole(0) /\ Flow(e)' = wire[e]
           /\ EndOfStream(e) => Flow(Other(e))' = Flow(Other(e)) /\ Flow(e)' = <<>>
           /\ Crash(e) => /\ Flow(e)' = Flow(e)
                          /\ \/ Flow(Other(e))' = Flow(Other(e))
                             \/ /\ state[e] = "run" /\ Sender(e)
                                /\ Flow(Other(e))' = Flow(Other(e)) \o <<Text(step[e])>>
<1> DEFINE T == Fragments({"text", "newline"})
           f == Other(e)
<1> HIDE DEF T
<1>1. \A p \in End : buf[p] \in Seq(T) /\ sock[p] \in Seq(T) /\ wire[p] \in Seq(T)
  BY FlowType, Zenon DEF Stuff, T
<1>2. DOMAIN wire = End /\ DOMAIN sock = End /\ DOMAIN buf = End
  BY Zenon DEF TypeOK
<1>3. step[e] \in Nat
  BY Zenon DEF TypeOK
<1>4. \A m \in Nat : Whole(m) \in Seq(T) /\ <<Text(m)>> \in Seq(T) /\ Text(m) \in T
  BY DEF T, Fragments, Whole, Text, Newline
<1>5. ASSUME NEW p \in End, NEW w \in Seq(T)
      PROVE  /\ (buf[p] \o sock[p]) \o (wire[p] \o w) = Flow(p) \o w
             /\ <<>> \o <<>> \o wire[p] = wire[p]
  <2> DEFINE c == buf[p] \o sock[p]
             u == wire[p]
  <2>1. c \in Seq(T) /\ u \in Seq(T) /\ w \in Seq(T) /\ wire[p] \in Seq(T)
    BY <1>1, <1>5
  <2>2. c \o (u \o w) = (c \o u) \o w
    <3>1. \A a, b, d \in Seq(T) : (a \o b) \o d = a \o (b \o d)
      BY ConcatAssociative, SMTT(30)
    <3> HIDE DEF c, u
    <3> QED
      BY <2>1, <3>1, ZenonT(30)
  <2>3. <<>> \in Seq(T) /\ <<>> \o wire[p] = wire[p]
    BY <2>1, ConcatEmptySeq
  <2>4. <<>> \o <<>> = <<>>
    BY <2>3, ConcatEmptySeq, Zenon
  <2> QED
    BY <2>2, <2>3, <2>4, ZenonT(30) DEF Flow
<1>6. ASSUME Arrive(e), NEW p \in End
      PROVE  Flow(p)' = Flow(p)
  <2>1. CASE p = e
    <3> DEFINE b == buf[e]
               c == sock[e]
               w == wire[e]
    <3>1. b \in Seq(T) /\ c \in Seq(T) /\ w \in Seq(T) /\ w # <<>>
      BY <1>1, <1>6, Zenon DEF Arrive
    <3>2. Flow(e)' = (b \o Append(c, Head(w))) \o Tail(w)
      BY <1>2, <1>6, Zenon DEF Arrive, Flow
    <3>3. Flow(e) = (b \o c) \o w
      BY Zenon DEF Flow
    <3> HIDE DEF b, c, w
    <3>4. (b \o Append(c, Head(w))) \o Tail(w) = (b \o c) \o w
      <4> DEFINE l == (b \o Append(c, Head(w))) \o Tail(w)
                 r == (b \o c) \o w
      <4>1. l \in Seq(T) /\ r \in Seq(T) /\ Len(l) = Len(r)
        BY <3>1
      <4>2. \A i \in 1 .. Len(l) : l[i] = r[i]
        BY <3>1
      <4> HIDE DEF l, r
      <4>3. l = r
        BY <4>1, <4>2, SeqEqual, Zenon
      <4> QED
        BY <4>3, Zenon DEF l, r
    <3>5. Flow(e)' = Flow(e)
      BY <3>2, <3>3, <3>4, Zenon
    <3> QED
      BY <2>1, <3>5, Zenon
  <2>2. CASE p # e
    BY <1>2, <1>6, <2>2, ZenonT(30) DEF Arrive, Flow
  <2> QED
    BY <2>1, <2>2, Zenon
<1>7. ASSUME FillBuffer(e), NEW p \in End
      PROVE  Flow(p)' = Flow(p)
  <2>1. buf[e] \o sock[e] \in Seq(T)
    BY <1>1, ConcatProperties, Zenon
  <2>2. (buf[e] \o sock[e]) \o <<>> = buf[e] \o sock[e]
    BY <2>1, ConcatEmptySeq, Zenon
  <2>3. Flow(e)' = ((buf[e] \o sock[e]) \o <<>>) \o wire[e]
    BY <1>2, <1>7, Zenon DEF FillBuffer, Chunk, Flow
  <2>4. p # e => Flow(p)' = Flow(p)
    BY <1>2, <1>7, Zenon DEF FillBuffer, Flow
  <2> QED
    BY <2>2, <2>3, <2>4, ZenonT(30) DEF Flow
<1>8. SendWrite(e) => Flow(f)' = Flow(f) \o Whole(step[e]) /\ Flow(e)' = Flow(e)
  BY <1>2, <1>3, <1>4, <1>5, ZenonT(30) DEF SendWrite, write_to_stream, Flow
<1>9. SendAcknowledged(e) => Flow(f)' = Flow(f) /\ Flow(e)' = wire[e]
  BY <1>2, <1>4, <1>5, Zenon DEF SendAcknowledged, read_from_stream, Flow
<1>10. receive_msg(e) => Flow(f)' = Flow(f) \o Whole(0) /\ Flow(e)' = wire[e]
  BY <1>2, <1>4, <1>5, Zenon DEF receive_msg, read_from_stream, write_to_stream, Flow
<1>11. EndOfStream(e) => Flow(f)' = Flow(f) /\ Flow(e)' = <<>>
  <2>1. EndOfStream(e) => wire[e] = <<>> /\ sock[e] = <<>>
    BY <1>1, ConcatEqualIffEmpty DEF EndOfStream
  <2> QED
    BY <1>2, <2>1, Zenon DEF EndOfStream, Flow
<1>12. Append(wire[f], Text(step[e])) = wire[f] \o <<Text(step[e])>>
  BY <1>1, <1>3, <1>4, AppendIsConcat, ZenonT(30)
<1>13. Crash(e) => /\ Flow(e)' = Flow(e)
                   /\ \/ Flow(f)' = Flow(f)
                      \/ /\ state[e] = "run" /\ Sender(e)
                         /\ Flow(f)' = Flow(f) \o <<Text(step[e])>>
  <2>1. Crash(e) => UNCHANGED <<buf, sock>> /\ wire'[e] = wire[e]
    BY <1>2, Zenon DEF Crash
  <2>2. Crash(e) => \/ wire'[f] = wire[f]
                    \/ state[e] = "run" /\ Sender(e) /\ wire'[f] = wire[f] \o <<Text(step[e])>>
    BY <1>2, <1>12, Zenon DEF Crash
  <2>3. (buf[f] \o sock[f]) \o (wire[f] \o <<Text(step[e])>>) = Flow(f) \o <<Text(step[e])>>
    BY <1>3, <1>4, <1>5, Zenon
  <2>4. Crash(e) => Flow(e)' = Flow(e)
    BY <2>1, Zenon DEF Flow
  <2>5. Crash(e) => Flow(f)' = (buf[f] \o sock[f]) \o wire'[f]
    BY <2>1, Zenon DEF Flow
  <2>6. Flow(f) = (buf[f] \o sock[f]) \o wire[f]
    BY Zenon DEF Flow
  <2> QED
    BY <2>2, <2>3, <2>4, <2>5, <2>6, ZenonT(30)
<1> QED
  BY <1>6, <1>7, <1>8, <1>9, <1>10, <1>11, <1>13, ZenonT(30)

\* The numbers of the state.
LEMMA Numbers ==
    ASSUME ScriptsAssumption, TypeOK, IInv
    PROVE  /\ Len(script) \in Nat /\ \A i \in 1 .. Len(script) : script[i] \in End
           /\ \A p \in End : step[p] \in Nat \ {0}
           /\ DOMAIN step = End /\ DOMAIN state = End
           /\ \A p \in End : state[p] \in {"run", "ack", "panic"}
<1>1. script \in Seq(End)
  BY Zenon DEF ScriptsAssumption, TypeOK
<1>2. Len(script) \in Nat /\ \A i \in 1 .. Len(script) : script[i] \in End
  BY <1>1, LenProperties, ElementOfSeq, Zenon
<1>3. step \in [End -> Nat] /\ state \in [End -> {"run", "ack", "panic"}]
  BY Zenon DEF TypeOK
<1>4. \A p \in End : step[p] > 0
  BY Zenon DEF IInv, Handed
<1> QED
  BY <1>2, <1>3, <1>4

\* Nothing is under way when the stream is empty, and only then.
LEMMA QuietLen ==
    ASSUME TypeOK, NEW p \in End
    PROVE  /\ Len(Flow(p)) \in Nat /\ Len(Chunk(p)) \in Nat /\ Len(wire[p]) \in Nat
           /\ Quiet(p) <=> Len(Flow(p)) = 0
           /\ wire[p] = <<>> <=> Len(wire[p]) = 0
           /\ LineComplete(p) => Len(Chunk(p)) > 0 /\ ~Quiet(p)
<1> DEFINE T == Fragments({"text", "newline"})
<1> HIDE DEF T
<1>1. Flow(p) \in Seq(T) /\ wire[p] \in Seq(T) /\ Chunk(p) \in Seq(T) /\ Len(Flow(p)) = Len(Chunk(p)) + Len(wire[p])
  BY FlowType, Zenon DEF Stuff, T
<1>2. /\ Len(Flow(p)) \in Nat /\ Len(Chunk(p)) \in Nat /\ Len(wire[p]) \in Nat
      /\ (Flow(p) = <<>> <=> Len(Flow(p)) = 0) /\ (wire[p] = <<>> <=> Len(wire[p]) = 0)
  BY <1>1, EmptySeq, LenProperties, ZenonT(30)
<1>3. LineComplete(p) => Len(Chunk(p)) > 0
  <2>1. DOMAIN Chunk(p) = 1 .. Len(Chunk(p))
    BY <1>1, LenProperties, Zenon
  <2> QED
    BY <1>2, <2>1 DEF LineComplete, Newlines
<1> QED
  BY <1>1, <1>2, <1>3 DEF Quiet

\* Steps that return no line.
LEMMA BooksKept ==
    ASSUME UNCHANGED <<script, step, got>>
    PROVE  /\ Books => Books'
           /\ \A p \in End : \A i : Received(p, i)' = Received(p, i)
<1>1. \A p \in End : \A i : Received(p, i)' = Received(p, i)
  BY Zenon DEF Received
<1>2. Books => Books'
  BY Zenon DEF Books, DeliveredInOrder, AckMeansReceived, ReceivedInOrder, Handed
<1> QED
  BY <1>1, <1>2, Zenon

\* The parts of the invariant.
LEMMA Parts ==
    /\ IInv <=> /\ Books /\ \A e \in End : Alive(e) => Stream(e)
                /\ (\A e \in End : Alive(e)) => Paired
    /\ IInv' <=> /\ Books' /\ \A e \in End : Alive(e)' => Stream(e)'
                 /\ (\A e \in End : Alive(e)') => Paired'
BY Zenon DEF IInv, Books

\* Fragments that move along change nothing.
LEMMA MovesKeep ==
    ASSUME ScriptsAssumption, TypeOK, IInv, UNCHANGED <<script, step, state, got>>,
           \A p \in End : Flow(p)' = Flow(p)
    PROVE  IInv'
<1>1. Books'
  BY BooksKept, Parts, Zenon
<1>2. ASSUME NEW p \in End, Alive(p)'
      PROVE  Stream(p)'
  <2>1. Stream(p) /\ step[p] \in Nat
    BY <1>2, Parts, Numbers, Zenon DEF Alive
  <2>2. Received(Other(p), step[p]) => Received(Other(p), step[p])'
    BY BooksKept, Zenon DEF Received
  <2> QED
    BY <2>1, <2>2, StreamKept, Zenon
<1>3. (\A p \in End : Alive(p)') => Paired'
  <2>1. \A p \in End : Alive(p)' = Alive(p)
    BY Zenon DEF Alive
  <2>2. \A p \in End : Quiet(p)' = Quiet(p) /\ Acks(p)' = Acks(p)
    BY Zenon DEF Quiet, Acks
  <2>3. \A p \in End : Done(p)' = Done(p) /\ Sender(p)' = Sender(p)
    BY Zenon DEF Done, Sender
  <2>4. \A p, q \in End : (Same(p, q) => Same(p, q)') /\ (Behind(p, q) => Behind(p, q)')
    BY <2>2, <2>3, Zenon DEF Same, Behind
  <2> QED
    BY <2>1, <2>4, Parts, ZenonT(30) DEF Paired
<1> QED
  BY <1>1, <1>2, <1>3, Parts, ZenonT(30)

\* A process that writes a message, or a part of it, has nothing left to read, and the
\* other one, if it lives, waits for that message or for the ACK of the one before.
LEMMA Written ==
    ASSUME ScriptsAssumption, TypeOK, IInv, NEW e \in End, state[e] = "run", Sender(e),
           NEW w \in {Whole(step[e]), <<Text(step[e])>>}, Flow(Other(e))' = Flow(Other(e)) \o w,
           state'[Other(e)] = state[Other(e)], UNCHANGED <<script, step, got>>
    PROVE  /\ Quiet(e)
           /\ Alive(Other(e)) => /\ Stream(Other(e))'
                                 /\ \/ step[Other(e)] = step[e] /\ state[Other(e)] = "run"
                                    \/ step[e] = step[Other(e)] + 1 /\ state[Other(e)] = "ack"
<1> DEFINE f == Other(e)
           i == step[e]
<1>1. f \in End /\ f # e /\ Other(f) = e
  BY OtherEnd, Zenon
<1>2. i \in Nat \ {0} /\ i \in 1 .. Len(script) /\ script[i] = e /\ step[f] \in Nat
  BY <1>1, Numbers DEF Sender, Done
<1>3. Quiet(e)
  <2>1. Stream(e)
    BY Parts, Zenon DEF Alive
  <2>2. \A k \in 1 .. Len(Flow(e)) : FALSE
    BY <1>2, <2>1, Zenon DEF Stream, Fits, Theirs
  <2> QED
    BY <2>2, QuietLen
<1>4. ASSUME Alive(f)
      PROVE  \/ step[f] = i /\ state[f] = "run" /\ Quiet(f)
             \/ i = step[f] + 1 /\ state[f] = "ack" /\ Acks(f)
  <2>1. Paired
    BY <1>1, <1>4, Parts, Zenon DEF Alive
  <2>2. Same(e, f) \/ Same(f, e) \/ Behind(e, f) \/ Behind(f, e)
    BY <1>1, <2>1, Zenon DEF Paired
  <2>3. CASE Same(e, f)
    BY <2>3, Zenon DEF Same, Sender
  <2>4. CASE Same(f, e)
    BY <1>1, <1>2, <2>4, Zenon DEF Same, Sender, Done
  <2>5. CASE Behind(f, e)
    BY <2>5, Zenon DEF Behind
  <2> QED
    BY <2>2, <2>3, <2>4, <2>5, ZenonT(30) DEF Behind
<1>5. Theirs(f)' = Theirs(f) /\ i \in Theirs(f)
  BY <1>1, <1>2, Zenon DEF Theirs
<1>6. (Sender(f)' <=> Sender(f)) /\ Received(e, step[f])' = Received(e, step[f])
  BY <1>1, BooksKept, Zenon DEF Sender, Done, Received
<1>7. w \in {Whole(i), <<Text(i)>>}
  OBVIOUS
<1> HIDE DEF i, f
<1>8. ASSUME Alive(f), step[f] = i, state[f] = "run", Quiet(f)
      PROVE  Stream(f)'
  <2>1. Flow(f)' = w
    <3>0. i \in Nat
      BY <1>2, Zenon
    <3>1. w \in Stuff
      BY <1>7, <3>0, MessageIs, ZenonT(30)
    <3>2. <<>> \o w = w
      BY <3>1, ConcatEmptySeq, Zenon DEF Stuff
    <3> QED
      BY <1>8, <3>2, Zenon DEF Quiet, f
  <2>2. \A r : Fits(w, "run", i, r, Theirs(f))
    BY <1>2, <1>5, <1>7, FitsMessage, Zenon
  <2>3. state'[f] = "run" /\ step'[f] = i
    BY <1>8, Zenon DEF f
  <2> QED
    BY <1>1, <1>5, <1>6, <2>1, <2>2, <2>3, ZenonT(30) DEF Stream
<1>9. ASSUME Alive(f), i = step[f] + 1, state[f] = "ack", Acks(f)
      PROVE  Stream(f)'
  <2>1. Stream(f)
    BY <1>1, <1>9, Parts, Zenon
  <2>2. Fits(Flow(f), "ack", step[f], Received(e, step[f]), Theirs(f))
    BY <1>1, <1>9, <2>1, ZenonT(30) DEF Stream
  <2>3. Flow(f) \in Stuff /\ \A k \in 1 .. Len(Flow(f)) : Flow(f)[k].msg = 0
    BY <1>1, <1>9, FlowType, ZenonT(30) DEF Acks
  <2>4. Fits(Flow(f) \o w, "ack", step[f], Received(e, step[f]), Theirs(f))
    BY <1>2, <1>5, <1>7, <1>9, <2>2, <2>3, FitsNext, ZenonT(30)
  <2>5. Flow(f)' = Flow(f) \o w /\ state'[f] = "ack" /\ step'[f] = step[f]
    BY <1>9, Zenon DEF f
  <2>6. Fits(Flow(f)', state'[f], step'[f], Received(e, step[f])', Theirs(f)')
    BY <1>5, <1>6, <2>4, <2>5, ZenonT(30)
  <2> QED
    BY <1>1, <1>6, <1>9, <2>1, <2>5, <2>6, ZenonT(30) DEF Stream
<1> QED
  BY <1>3, <1>4, <1>8, <1>9, ZenonT(30) DEF f, i

\* send_msg writes its message.
LEMMA SendWriteKeeps ==
    ASSUME ScriptsAssumption, TypeOK, IInv, NEW e \in End, SendWrite(e)
    PROVE  IInv'
<1> DEFINE f == Other(e)
<1>1. f \in End /\ f # e /\ Other(f) = e /\ \A p \in End : p = e \/ p = f
  BY OtherEnd, Zenon
<1>2. state[e] = "run" /\ Sender(e) /\ UNCHANGED <<script, step, got>>
  BY Zenon DEF SendWrite
<1>3. state'[e] = "ack" /\ state'[f] = state[f]
  BY <1>1, Numbers, Zenon DEF SendWrite
<1>4. Flow(f)' = Flow(f) \o Whole(step[e]) /\ Flow(e)' = Flow(e)
  BY FlowMoves, Zenon
<1>5. /\ Quiet(e)
      /\ Alive(f) => /\ Stream(f)'
                     /\ \/ step[f] = step[e] /\ state[f] = "run"
                        \/ step[e] = step[f] + 1 /\ state[f] = "ack"
  BY <1>2, <1>3, <1>4, Written, ZenonT(30)
<1> HIDE DEF f
<1>6. Books'
  BY <1>2, BooksKept, Parts, ZenonT(30)
<1>7. Sender(e)'
  BY <1>2, Zenon DEF Sender, Done
<1>8. Stream(e)'
  <2>1. Flow(e)' = <<>>
    BY <1>4, <1>5, Zenon DEF Quiet
  <2>2. \A st, i, r, ms : Fits(Flow(e)', st, i, r, ms)
    BY <2>1, FitsNothing, Zenon
  <2> QED
    BY <1>7, <2>2, Zenon DEF Stream
<1>9. Alive(f)' => Stream(f)'
  BY <1>3, <1>5, Zenon DEF Alive
<1>10. ASSUME Alive(f)'
       PROVE  Paired'
  <2>1. Quiet(e)' /\ Alive(f)
    BY <1>3, <1>4, <1>5, <1>10, ZenonT(30) DEF Quiet, Alive
  <2>2. Same(e, f)' \/ Behind(f, e)'
    BY <1>2, <1>3, <1>5, <1>7, <2>1, ZenonT(30) DEF Same, Behind
  <2> QED
    BY <1>1, <2>2, Zenon DEF Paired
<1> QED
  BY <1>1, <1>6, <1>8, <1>9, <1>10, Parts, ZenonT(30)

\* A process that panics reads no more, and nothing changes for the other one.
LEMMA PanicKeeps ==
    ASSUME ScriptsAssumption, TypeOK, IInv, NEW e \in End, state' = [state EXCEPT ![e] = "panic"],
           UNCHANGED <<script, step, got>>, Alive(Other(e)) => Stream(Other(e))'
    PROVE  IInv'
<1>1. Books'
  BY BooksKept, Parts, ZenonT(30)
<1>2. state'[e] = "panic" /\ state'[Other(e)] = state[Other(e)]
  BY OtherEnd, Numbers, Zenon
<1>3. \A p \in End : Alive(p)' => Stream(p)'
  BY <1>2, OtherEnd, Zenon DEF Alive
<1> QED
  BY <1>1, <1>2, <1>3, Parts, ZenonT(30) DEF Alive

\* The process is killed.
LEMMA CrashKeeps ==
    ASSUME ScriptsAssumption, TypeOK, IInv, NEW e \in End, Crash(e)
    PROVE  IInv'
<1> DEFINE f == Other(e)
<1>1. f \in End /\ f # e /\ Other(f) = e
  BY OtherEnd, Zenon
<1>2. state' = [state EXCEPT ![e] = "panic"] /\ UNCHANGED <<script, step, got>>
  BY Zenon DEF Crash
<1>3. state'[f] = state[f] /\ step'[f] = step[f] /\ step[f] \in Nat
  BY <1>1, <1>2, Numbers, Zenon
<1>4. CASE Flow(f)' = Flow(f)
  <2>1. Received(e, step[f])' = Received(e, step[f])
    BY <1>2, BooksKept, Zenon DEF Received
  <2>2. Alive(f) => Stream(f)'
    BY <1>1, <1>2, <1>3, <1>4, <2>1, Parts, StreamKept, ZenonT(30)
  <2> QED
    BY <1>2, <2>2, PanicKeeps, Zenon
<1>5. CASE state[e] = "run" /\ Sender(e) /\ Flow(f)' = Flow(f) \o <<Text(step[e])>>
  <2>1. Alive(f) => Stream(f)'
    BY <1>2, <1>3, <1>5, Written, ZenonT(30)
  <2> QED
    BY <1>2, <2>1, PanicKeeps, ZenonT(30)
<1> QED
  BY <1>4, <1>5, FlowMoves, Zenon

\* send_msg has read a line: it is the ACK, or the process panics.
LEMMA SendAcknowledgedKeeps ==
    ASSUME ScriptsAssumption, TypeOK, IInv, NEW e \in End, SendAcknowledged(e)
    PROVE  IInv'
<1> DEFINE f == Other(e)
           i == step[e]
<1>1. f \in End /\ f # e /\ Other(f) = e /\ \A p \in End : p = e \/ p = f
  BY OtherEnd, ZenonT(30)
<1>2. state[e] = "ack" /\ LineComplete(e) /\ UNCHANGED <<script, got>>
  BY Zenon DEF SendAcknowledged, read_from_stream
<1>3. Flow(f)' = Flow(f) /\ Flow(e)' = wire[e]
  BY FlowMoves, Zenon
<1>4. state'[f] = state[f] /\ step'[f] = step[f] /\ step[f] \in Nat /\ i \in Nat \ {0}
  BY <1>1, Numbers, Zenon DEF SendAcknowledged
<1>5. \A p \in End : \A j : Received(p, j)' = Received(p, j)
  BY <1>2, Zenon DEF Received
<1>6. Alive(f) => Stream(f)'
  <2>1. Received(Other(f), step[f])' = Received(Other(f), step[f])
    BY <1>1, <1>2, <1>4, Zenon DEF Received
  <2> QED
    BY <1>1, <1>2, <1>3, <1>4, <2>1, Parts, StreamKept, ZenonT(30)
<1>7. CASE FirstLine(Chunk(e)) # Whole(0)
  <2>1. state' = [state EXCEPT ![e] = "panic"] /\ UNCHANGED <<script, step, got>>
    BY <1>7, Zenon DEF SendAcknowledged
  <2> QED
    BY <1>6, <2>1, PanicKeeps, Zenon
<1>8. ASSUME FirstLine(Chunk(e)) = Whole(0)
      PROVE  IInv'
  <2>1. /\ state' = [state EXCEPT ![e] = "run"] /\ step' = [step EXCEPT ![e] = @ + 1]
        /\ state'[e] = "run" /\ step'[e] = i + 1
    BY <1>8, Numbers, Zenon DEF SendAcknowledged
  <2>2. Stream(e) /\ Fits(Flow(e), "ack", i, Received(f, i), Theirs(e)) /\ Sender(e)
    BY <1>2, Parts, Zenon DEF Stream, Alive
  <2>3. Chunk(e) \in Stuff /\ wire[e] \in Stuff /\ Flow(e) = Chunk(e) \o wire[e]
        /\ Len(Flow(e)) = Len(Chunk(e)) + Len(wire[e]) /\ \A k \in 1 .. Len(Chunk(e)) : Flow(e)[k] = Chunk(e)[k]
    BY FlowType, Zenon
  <2>4. Len(Chunk(e)) \in Nat /\ Len(wire[e]) \in Nat /\ Len(Chunk(e)) >= 2 /\ Chunk(e)[1] = Text(0)
    <3>1. /\ Len(FirstLine(Chunk(e))) \in 1 .. Len(Chunk(e))
          /\ \A k \in 1 .. Len(FirstLine(Chunk(e))) : FirstLine(Chunk(e))[k] = Chunk(e)[k]
      BY <1>2, <2>3, FirstLineFacts, ZenonT(30) DEF LineComplete, Stuff
    <3>2. Len(FirstLine(Chunk(e))) = 2 /\ FirstLine(Chunk(e))[1] = Text(0)
      BY <1>8, WholeIs, Zenon
    <3> QED
      BY <3>1, <3>2, QuietLen
  <2>5. Received(f, i)
    <3>1. 1 \in 1 .. Len(Chunk(e)) /\ 1 \in 1 .. Len(Flow(e)) /\ Flow(e)[1].msg = 0
      BY <2>3, <2>4, WholeIs
    <3> QED
      BY <2>2, <3>1, Zenon DEF Fits
  <2>6. Books'
    BY <1>2, <2>1, <2>5, BooksAcknowledged, Parts, ZenonT(30)
  <2>7. Stream(e)'
    <3>1. Theirs(e)' = Theirs(e)
      BY <1>2, Zenon DEF Theirs
    <3>2. \A q : Fits(wire[e], "run", i + 1, q, Theirs(e))
      <4> HIDE DEF i, f
      <4> QED
        BY <1>4, <2>2, <2>3, <2>4, FitsRest, ZenonT(30)
    <3> QED
      BY <1>3, <2>1, <3>1, <3>2, ZenonT(30) DEF Stream
  <2>8. ASSUME Alive(f)
        PROVE  Paired'
    <3>1. Behind(e, f)
      <4>1. ~Quiet(e)
        BY <1>2, QuietLen, Zenon
      <4>2. Paired
        BY <1>1, <1>2, <2>8, Parts, ZenonT(30) DEF Alive
      <4>3. Same(e, f) \/ Same(f, e) \/ Behind(e, f) \/ Behind(f, e)
        BY <1>1, <4>2, Zenon DEF Paired
      <4> QED
        BY <1>2, <4>1, <4>3, ZenonT(30) DEF Same, Behind
    <3>2. step[f] = i + 1 /\ Quiet(f)' /\ (Sender(f)' <=> Sender(f))
      BY <1>2, <1>3, <1>4, <3>1, ZenonT(30) DEF Behind, Quiet, Sender, Done
    <3>3. CASE state[f] = "ack" /\ Sender(f)
      <4>1. Same(f, e)'
        BY <1>4, <2>1, <3>2, <3>3, ZenonT(30) DEF Same
      <4> QED
        BY <1>1, <4>1, Zenon DEF Paired
    <3>4. CASE state[f] = "run" /\ Acks(e)
      <4>1. Len(wire[e]) = 0
        <5>1. \A k \in 1 .. Len(Flow(e)) : k <= 2
          BY <2>2, <3>4, Zenon DEF Acks, Fits
        <5>2. Len(Flow(e)) \in Nat /\ (Len(Flow(e)) > 0 => Len(Flow(e)) <= 2)
          BY <5>1, QuietLen
        <5> QED
          BY <2>3, <2>4, <5>2
      <4>2. Quiet(e)'
        BY <1>3, <4>1, QuietLen, ZenonT(30) DEF Quiet
      <4>3. Done(e)' \/ Sender(e)' \/ Sender(f)'
        BY <1>1, <1>2, <1>4, <2>1, <3>2, Numbers, SMTT(30) DEF Sender, Done
      <4>4. Same(e, f)' \/ Same(f, e)'
        BY <1>4, <2>1, <3>2, <3>4, <4>2, <4>3, ZenonT(30) DEF Same
      <4> QED
        BY <1>1, <4>4, Zenon DEF Paired
    <3> QED
      BY <3>1, <3>3, <3>4, ZenonT(30) DEF Behind
  <2>9. Alive(f)' = Alive(f)
    BY <1>4, Zenon DEF Alive
  <2> QED
    BY <1>1, <1>6, <2>6, <2>7, <2>8, <2>9, Parts, ZenonT(30)
<1> QED
  BY <1>7, <1>8, ZenonT(30)

\* receive_msg returns the line of the message it waits for, and acknowledges it.
LEMMA receive_msgKeeps ==
    ASSUME ScriptsAssumption, TypeOK, IInv, NEW e \in End, receive_msg(e)
    PROVE  IInv'
<1> DEFINE f == Other(e)
           i == step[e]
           line == FirstLine(Chunk(e))
<1>1. f \in End /\ f # e /\ Other(f) = e /\ \A p \in End : p = e \/ p = f
  BY OtherEnd, ZenonT(30)
<1>2. /\ state[e] = "run" /\ Receiver(e) /\ LineComplete(e) /\ UNCHANGED <<script, state>>
      /\ got' = [got EXCEPT ![e] = Append(@, line)] /\ step' = [step EXCEPT ![e] = @ + 1]
  BY Zenon DEF receive_msg, read_from_stream
<1>3. Flow(f)' = Flow(f) \o Whole(0) /\ Flow(e)' = wire[e]
  BY FlowMoves, Zenon
<1>4. step'[e] = i + 1 /\ step'[f] = step[f] /\ step[f] \in Nat /\ i \in Nat \ {0}
  BY <1>1, <1>2, Numbers, ZenonT(30)
<1>5. Fits(Flow(e), "run", i, Received(f, i), Theirs(e))
  BY <1>2, Parts, ZenonT(30) DEF Stream, Alive
<1>6. Chunk(e) \in Stuff /\ Len(Flow(e)) = Len(Chunk(e)) + Len(wire[e])
      /\ \A k \in 1 .. Len(Chunk(e)) : Flow(e)[k] = Chunk(e)[k]
  BY FlowType, Zenon
<1>7. /\ line # <<>> /\ Len(line) \in 1 .. Len(Chunk(e)) /\ Last(line) = Chunk(e)[Len(line)]
      /\ Last(line).part = "newline"
  BY <1>2, <1>6, FirstLineFacts, ZenonT(30) DEF LineComplete, Stuff
<1> DEFINE n == Len(line)
<1>8. n \in 1 .. Len(Flow(e)) /\ Flow(e)[n] = Last(line) /\ n <= Len(Chunk(e))
      /\ Len(Chunk(e)) \in Nat /\ Len(wire[e]) \in Nat
  BY <1>6, <1>7, QuietLen
<1>9. Flow(e)[n].msg = i /\ n = Len(Flow(e))
  <2> HIDE DEF n, i
  <2> QED
    BY <1>4, <1>5, <1>7, <1>8, ZenonT(30) DEF Fits
<1>10. wire[e] = <<>>
  BY <1>6, <1>8, <1>9, QuietLen
<1>11. Last(line) = Newline(i)
  <2>1. Last(line) \in Fragments({"text", "newline"})
    BY <1>6, <1>7, ElementOfSeq, ZenonT(30) DEF Stuff
  <2> QED
    BY <1>7, <1>8, <1>9, <2>1, ZenonT(30) DEF Fragments, Newline
<1>12. script[i] # e
  BY <1>2, Zenon DEF Receiver
<1>13. Books' /\ \A j \in Nat : j = i => Received(e, j)'
  <2> HIDE DEF line
  <2>1. /\ Books'
        /\ \A j \in Nat : j = i /\ line # <<>> /\ Last(line) = Newline(j) => Received(e, j)'
    BY <1>2, <1>7, <1>8, <1>9, <1>12, BooksReceived, Parts, ZenonT(30)
  <2>2. \A j \in Nat : j = i => Received(e, j)'
    BY <1>7, <1>11, <2>1, ZenonT(30)
  <2> QED
    BY <2>1, <2>2, Zenon
<1>14. Stream(e)'
  <2>1. Flow(e)' = <<>>
    BY <1>3, <1>10, ZenonT(30)
  <2>2. \A st, j, r, ms : Fits(Flow(e)', st, j, r, ms)
    BY <2>1, FitsNothing, ZenonT(30)
  <2> QED
    BY <1>2, <2>2, Zenon DEF Stream
<1>15. ASSUME Alive(f)
       PROVE  Stream(f)' /\ Paired'
  <2>1. Same(f, e) /\ state[f] = "ack" /\ Sender(f)
    <3>1. ~Quiet(e)
      BY <1>2, QuietLen, Zenon
    <3>2. Paired
      BY <1>1, <1>2, <1>15, Parts, ZenonT(30) DEF Alive
    <3>3. Same(e, f) \/ Same(f, e) \/ Behind(e, f) \/ Behind(f, e)
      BY <1>1, <3>2, ZenonT(30) DEF Paired
    <3> QED
      BY <1>2, <3>1, <3>3, ZenonT(30) DEF Same, Behind
  <2>2. step[f] = i /\ Quiet(f) /\ Sender(f)' /\ state'[f] = "ack"
    BY <1>2, <1>4, <2>1, ZenonT(30) DEF Same, Sender, Done
  <2>3. Flow(f)' = Whole(0)
    <3>1. <<>> \o Whole(0) = Whole(0)
      BY DEF Whole
    <3> QED
      BY <1>3, <2>2, <3>1, ZenonT(30) DEF Quiet
  <2>4. Received(e, step[f])'
    <3>1. \A j \in Nat : j = step'[f] => Received(e, j)'
      BY <1>4, <1>13, <2>2, ZenonT(30)
    <3> QED
      BY <1>4, <3>1, Zenon DEF Received
  <2>5. \A ms : Fits(Whole(0), "ack", step[f], TRUE, ms)
    BY <1>4, FitsAck, Zenon
  <2>6. Stream(f)'
    <3>1. Fits(Flow(f)', state'[f], step'[f], TRUE, Theirs(f)')
      BY <1>4, <2>2, <2>3, <2>5, ZenonT(30)
    <3>2. Fits(Flow(f)', state'[f], step'[f], Received(e, step[f])', Theirs(f)')
      BY <2>4, <3>1, Zenon DEF Fits
    <3> QED
      BY <1>1, <2>2, <3>2, ZenonT(30) DEF Stream
  <2>7. Acks(f)'
    <3>1. Len(Flow(f)') = 2 /\ \A k \in 1 .. 2 : Flow(f)'[k].msg = 0
      BY <2>3, WholeIs
    <3> QED
      BY <3>1, Zenon DEF Acks
  <2>8. Quiet(e)'
    BY <1>3, <1>10, Zenon DEF Quiet
  <2>9. Behind(f, e)'
    BY <1>2, <1>4, <2>2, <2>7, <2>8, ZenonT(30) DEF Behind
  <2> QED
    BY <1>1, <2>6, <2>9, ZenonT(30) DEF Paired
<1>16. Alive(f)' = Alive(f)
  BY <1>2, Zenon DEF Alive
<1> QED
  BY <1>1, <1>13, <1>14, <1>15, <1>16, Parts, ZenonT(30)

\* What is left in the buffer at the end of the stream is a part of the message e waits for.
LEMMA RestIs ==
    ASSUME ScriptsAssumption, TypeOK, IInv, NEW e \in End, state[e] = "run", Rest(e) # <<>>
    PROVE  Last(Rest(e)).msg = step[e]
<1> DEFINE T == Fragments({"text", "newline"})
           B == buf[e]
           L == Rest(e)
<1>1. B \in Seq(T) /\ sock[e] \in Seq(T) /\ Chunk(e) = B \o sock[e]
  BY FlowType, Zenon DEF Stuff, Chunk
<1> HIDE DEF T
<1>2. DOMAIN B = 1 .. Len(B) /\ Len(B) \in Nat /\ \A k \in 1 .. Len(B) : B[k] \in T
  BY <1>1, LenProperties, ElementOfSeq, ZenonT(30)
<1>3. L = [k \in 1 .. Len(B) |-> [B[k] EXCEPT !.part = "cut"]]
  BY <1>2, Zenon DEF Rest
<1>4. Len(L) = Len(B) /\ \A k \in 1 .. Len(B) : L[k].msg = B[k].msg
  <2>1. \A k \in 1 .. Len(B) : L[k].msg = B[k].msg
    BY <1>2, <1>3, ZenonT(30) DEF T, Fragments
  <2>2. Len(L) = Len(B)
    BY <1>2, <1>3
  <2> QED
    BY <2>1, <2>2, ZenonT(30)
<1>5. Len(B) > 0
  <2>1. CASE Len(B) = 0
    <3>1. B = <<>>
      BY <1>1, <2>1, EmptySeq, Zenon
    <3>2. Rest(e) = <<>>
      BY <3>1 DEF Rest
    <3> QED
      BY <3>2, Zenon
  <2> QED
    BY <1>2, <2>1
<1>6. Len(B) \in 1 .. Len(Flow(e)) /\ Flow(e)[Len(B)] = B[Len(B)]
  <2> DEFINE K == sock[e]
  <2>1. B \in Seq(T) /\ K \in Seq(T) /\ Chunk(e) = B \o K
    BY <1>1, Zenon
  <2>2. /\ Len(Flow(e)) = Len(Chunk(e)) + Len(wire[e]) /\ Len(wire[e]) \in Nat
        /\ \A k \in 1 .. Len(Chunk(e)) : Flow(e)[k] = Chunk(e)[k]
    BY FlowType, QuietLen, Zenon
  <2> HIDE DEF B, K
  <2>3. /\ Len(B \o K) = Len(B) + Len(K) /\ Len(K) \in Nat
        /\ \A k \in 1 .. Len(B) : (B \o K)[k] = B[k]
    BY <2>1
  <2>4. Len(Chunk(e)) = Len(B) + Len(K) /\ \A k \in 1 .. Len(B) : Chunk(e)[k] = B[k]
    BY <2>1, <2>3, Zenon
  <2>5. Len(B) \in Nat /\ Len(B) > 0
    BY <1>2, <1>5, Zenon
  <2>6. Len(B) \in 1 .. Len(B) /\ Len(B) \in 1 .. Len(Chunk(e)) /\ Len(B) \in 1 .. Len(Flow(e))
    <3>1. ASSUME NEW n \in Nat, NEW m \in Nat, NEW w \in Nat, NEW c, NEW g, n > 0, c = n + m, g = c + w
          PROVE  n \in 1 .. n /\ n \in 1 .. c /\ n \in 1 .. g
      BY <3>1
    <3> QED
      BY <2>2, <2>3, <2>4, <2>5, <3>1, ZenonT(30)
  <2> QED
    BY <2>2, <2>4, <2>6, ZenonT(30)
<1>7. Fits(Flow(e), "run", step[e], Received(Other(e), step[e]), Theirs(e))
  BY Parts, Zenon DEF Stream, Alive
<1>8. Flow(e)[Len(B)].msg = step[e]
  BY <1>6, <1>7, Zenon DEF Fits
<1> QED
  BY <1>2, <1>4, <1>5, <1>6, <1>8, SMTT(30) DEF Last

\* A call finds the end of the stream: the process panics, or the line is what there is.
LEMMA EndOfStreamKeeps ==
    ASSUME ScriptsAssumption, TypeOK, IInv, NEW e \in End, EndOfStream(e)
    PROVE  IInv'
<1> DEFINE f == Other(e)
<1>1. f \in End /\ f # e /\ Other(f) = e /\ \A p \in End : p = e \/ p = f
  BY OtherEnd, ZenonT(30)
<1>2. Reading(e) /\ Closed(f) /\ UNCHANGED script
  BY Zenon DEF EndOfStream
<1>3. Flow(f)' = Flow(f) /\ Flow(e)' = <<>>
  BY FlowMoves, Zenon
<1>4. CASE state' = [state EXCEPT ![e] = "panic"] /\ UNCHANGED <<step, got>>
  <2>1. state'[f] = state[f] /\ step'[f] = step[f] /\ step[f] \in Nat
    BY <1>1, <1>4, Numbers, Zenon
  <2>2. Received(e, step[f])' = Received(e, step[f])
    BY <1>4, Zenon DEF Received
  <2>3. Alive(f) => Stream(f)'
    BY <1>1, <1>2, <1>3, <2>1, <2>2, Parts, StreamKept, ZenonT(30)
  <2> QED
    BY <1>2, <1>4, <2>3, PanicKeeps, ZenonT(30)
<1>5. ASSUME state[e] = "run", got' = [got EXCEPT ![e] = Append(@, Rest(e))],
             step' = [step EXCEPT ![e] = @ + 1], UNCHANGED state
      PROVE  IInv'
  <2>1. Receiver(e) /\ script[step[e]] # e
    BY <1>2, <1>5, Zenon DEF Reading, Receiver
  <2>2. Books'
    BY <1>2, <1>5, <2>1, RestIs, BooksReceived, Parts, ZenonT(30)
  <2>3. Stream(e)'
    <3>1. \A st, j, r, ms : Fits(Flow(e)', st, j, r, ms)
      BY <1>3, FitsNothing, Zenon
    <3> QED
      BY <1>5, <3>1, Zenon DEF Stream
  <2>4. ~Alive(f)
    <3>1. SUFFICES ASSUME Alive(f)
                   PROVE  FALSE
      OBVIOUS
    <3>2. Paired
      BY <1>1, <1>5, <3>1, Parts, ZenonT(30) DEF Alive
    <3>3. Same(e, f) \/ Same(f, e) \/ Behind(e, f) \/ Behind(f, e)
      BY <1>1, <3>2, ZenonT(30) DEF Paired
    <3>4. Done(f) /\ ~Done(e)
      BY <1>2, <2>1, <3>1, Zenon DEF Closed, Alive, Receiver
    <3>5. step[e] \in Nat /\ step[f] \in Nat /\ Len(script) \in Nat
      BY <1>1, Numbers, Zenon
    <3> QED
      BY <1>5, <3>3, <3>4, <3>5, SMTT(30) DEF Same, Behind, Done
  <2>5. ~Alive(f)'
    BY <1>5, <2>4, Zenon DEF Alive
  <2> QED
    BY <1>1, <2>2, <2>3, <2>5, Parts, ZenonT(30)
<1> QED
  BY <1>4, <1>5, ZenonT(30) DEF EndOfStream

-----------------------------------------------------------------------------
(* The theorem.                                                            *)

\* At the beginning nothing has been written.
LEMMA InitKeeps ==
    ASSUME ScriptsAssumption, Init
    PROVE  TypeOK /\ IInv
<1>1. TypeOK
  BY DEF Init, TypeOK
<1>2. \A e \in End : got[e] = <<>> /\ step[e] = 1 /\ state[e] = "run" /\ Flow(e) = <<>> /\ DOMAIN got[e] = {}
  BY DEF Init, Flow
<1>3. \A e \in End : Handed(e) /\ Alive(e) /\ Stream(e)
  BY <1>2, FitsNothing DEF Handed, Alive, Stream
<1>4. DeliveredInOrder
  BY <1>2 DEF DeliveredInOrder, AckMeansReceived, ReceivedInOrder
<1>5. Paired
  <2>1. script \in Seq(End)
    BY <1>1, Zenon DEF TypeOK, ScriptsAssumption
  <2>2. Len(script) \in Nat /\ \A i \in 1 .. Len(script) : script[i] \in End
    BY <2>1, LenProperties, ElementOfSeq, ZenonT(30)
  <2>3. \E e \in End : Done(e) \/ Sender(e)
    BY <1>2, <2>2 DEF Done, Sender
  <2> QED
    BY <1>2, <2>3, OtherEnd, Zenon DEF Paired, Same, Quiet
<1> QED
  BY <1>1, <1>3, <1>4, <1>5, ZenonT(30) DEF IInv

\* Every step keeps the invariant.
LEMMA NextKeeps ==
    ASSUME ScriptsAssumption, TypeOK, IInv, [Next]_vars
    PROVE  IInv'
<1>1. CASE UNCHANGED vars
  BY <1>1, MovesKeep, Zenon DEF vars, Flow
<1>2. ASSUME NEW e \in End, Arrive(e) \/ FillBuffer(e)
      PROVE  IInv'
  <2>1. UNCHANGED <<script, step, state, got>>
    BY <1>2, Zenon DEF Arrive, FillBuffer
  <2> QED
    BY <1>2, <2>1, FlowMoves, MovesKeep, ZenonT(30)
<1> QED
  BY <1>1, <1>2, SendWriteKeeps, SendAcknowledgedKeeps, receive_msgKeeps, EndOfStreamKeeps, CrashKeeps, ZenonT(30)
     DEF Next, ProcessStep

\* For every set of scripts: send_msg and receive_msg hand every message over once and in
\* order, and no ACK is ahead of its message, however TCP cuts the stream and at whatever
\* point a process is killed.
THEOREM DeliveredInOrderHolds ==
    ASSUME ScriptsAssumption
    PROVE  Spec => []DeliveredInOrder
<1>1. Init => TypeOK /\ IInv
  BY InitKeeps, Zenon
<1>2. TypeOK /\ IInv /\ [Next]_vars => TypeOK' /\ IInv'
  BY NextType, NextKeeps, ZenonT(30)
<1>3. IInv => DeliveredInOrder
  BY Zenon DEF IInv
<1> QED
  BY <1>1, <1>2, <1>3, PTL DEF Spec
=============================================================================
