----------------------------- MODULE TcpChannel -----------------------------
(***************************************************************************)
(* send_msg and receive_msg (src/net/tcp.rs) below the level of lines.     *)
(* Two processes walk through the same script: in step i one of them calls *)
(* send_msg with message i and the other one receive_msg.  writeln! hands  *)
(* the text and the newline to the socket in two writes; TCP delivers what *)
(* was written in order, in chunks of its own.  Every call of              *)
(* read_from_stream makes a new BufReader, fills it from the socket until  *)
(* there is a newline in it, returns the first line and drops the rest.    *)
(*                                                                         *)
(* A definition named after another one with a suffix (receive_msg and     *)
(* receive_msg_NoAck) is a faulty variant that stands for a bug in it and  *)
(* shows which mistake a property would find.                              *)
(***************************************************************************)
EXTENDS Naturals, SequencesExt

CONSTANTS
    Scripts,    \* sets of sequences of senders, one sender per message
    Faults      \* processes may be killed

End == {"a", "b"}
Other(e) == IF e = "a" THEN "b" ELSE "a"

ScriptsAssumption == Scripts \subseteq Seq(End)
FaultsAssumption == Faults \in BOOLEAN

VARIABLES
    script,     \* who sends message 1, 2, ...
    step,       \* the message each process is busy with
    state,      \* "run", "ack" (in send_msg, waiting for the ACK) or "panic"
    wire,       \* written, on the way to each process
    sock,       \* in the receive buffer of each socket
    buf,        \* in the BufReader of the call in progress
    got         \* lines returned by receive_msg

vars == <<script, step, state, wire, sock, buf, got>>

\* Message 0 is the ACK.
Text(m) == [msg |-> m, part |-> "text"]
Newline(m) == [msg |-> m, part |-> "newline"]
Whole(m) == <<Text(m), Newline(m)>>

Init ==
    /\ script \in Scripts
    /\ step = [e \in End |-> 1]
    /\ state = [e \in End |-> "run"]
    /\ wire = [e \in End |-> <<>>]
    /\ sock = [e \in End |-> <<>>]
    /\ buf = [e \in End |-> <<>>]
    /\ got = [e \in End |-> <<>>]

Done(e) == step[e] > Len(script)
Sender(e) == ~Done(e) /\ script[step[e]] = e
Receiver(e) == ~Done(e) /\ script[step[e]] # e
Closed(e) == state[e] = "panic" \/ Done(e)
write_to_stream(e, m) == wire' = [wire EXCEPT ![Other(e)] = @ \o Whole(m)]

Arrive(e) ==
    /\ wire[e] # <<>>
    /\ sock' = [sock EXCEPT ![e] = Append(@, Head(wire[e]))]
    /\ wire' = [wire EXCEPT ![e] = Tail(@)]
    /\ UNCHANGED <<script, step, state, buf, got>>

\* One read of the socket by the BufReader: all that is there.
Chunk(e) == buf[e] \o sock[e]
Newlines(s) == {i \in DOMAIN s : s[i].part = "newline"}
LineComplete(e) == sock[e] # <<>> /\ Newlines(Chunk(e)) # {}
FirstLine(s) == SubSeq(s, 1, CHOOSE i \in Newlines(s) : \A j \in Newlines(s) : i <= j)
Reading(e) == state[e] = "ack" \/ (state[e] = "run" /\ Receiver(e))
FillBuffer_Always(e) ==
    /\ Reading(e)
    /\ sock[e] # <<>>
    /\ buf' = [buf EXCEPT ![e] = Chunk(e)]
    /\ sock' = [sock EXCEPT ![e] = <<>>]
    /\ UNCHANGED <<script, step, state, wire, got>>
FillBuffer(e) ==
    /\ Reading(e)
    /\ sock[e] # <<>>
    /\ Newlines(Chunk(e)) = {}
    /\ buf' = [buf EXCEPT ![e] = Chunk(e)]
    /\ sock' = [sock EXCEPT ![e] = <<>>]
    /\ UNCHANGED <<script, step, state, wire, got>>
read_from_stream_Again(e) ==
    /\ LineComplete(e)
    /\ UNCHANGED <<buf, sock>>
\* read_line returns; the BufReader is dropped with what it has read ahead.
read_from_stream(e) ==
    /\ LineComplete(e)
    /\ buf' = [buf EXCEPT ![e] = <<>>]
    /\ sock' = [sock EXCEPT ![e] = <<>>]

SendWrite(e) ==
    /\ state[e] = "run" /\ Sender(e)
    /\ write_to_stream(e, step[e])
    /\ state' = [state EXCEPT ![e] = "ack"]
    /\ UNCHANGED <<script, step, sock, buf, got>>
\* assert_eq!(r, "ACK")
SendAcknowledged(e) ==
    /\ state[e] = "ack"
    /\ read_from_stream(e)
    /\ IF FirstLine(Chunk(e)) = Whole(0)
       THEN /\ state' = [state EXCEPT ![e] = "run"]
            /\ step' = [step EXCEPT ![e] = @ + 1]
       ELSE state' = [state EXCEPT ![e] = "panic"] /\ UNCHANGED step
    /\ UNCHANGED <<script, wire, got>>
receive_msg_NoAck(e) ==
    /\ state[e] = "run" /\ Receiver(e)
    /\ read_from_stream(e)
    /\ got' = [got EXCEPT ![e] = Append(@, FirstLine(Chunk(e)))]
    /\ step' = [step EXCEPT ![e] = @ + 1]
    /\ UNCHANGED <<script, state, wire>>
receive_msg(e) ==
    /\ state[e] = "run" /\ Receiver(e)
    /\ read_from_stream(e)
    /\ got' = [got EXCEPT ![e] = Append(@, FirstLine(Chunk(e)))]
    /\ write_to_stream(e, 0)
    /\ step' = [step EXCEPT ![e] = @ + 1]
    /\ UNCHANGED <<script, state>>
\* At the end of the stream read_line returns what there is, and truncate takes
\* its last character, newline or not.  If there is nothing, len - 1 panics or,
\* in a build without overflow checks, the line is empty.
Rest(e) == [i \in DOMAIN buf[e] |-> [buf[e][i] EXCEPT !.part = "cut"]]
EndOfStream(e) ==
    /\ Reading(e)
    /\ Closed(Other(e)) /\ wire[e] \o sock[e] = <<>>
    /\ \/ /\ state[e] = "ack" \/ buf[e] = <<>>
          /\ state' = [state EXCEPT ![e] = "panic"]
          /\ UNCHANGED <<step, got>>
       \/ /\ state[e] = "run"
          /\ got' = [got EXCEPT ![e] = Append(@, Rest(e))]
          /\ step' = [step EXCEPT ![e] = @ + 1]
          /\ UNCHANGED state
    /\ buf' = [buf EXCEPT ![e] = <<>>]
    /\ UNCHANGED <<script, wire, sock>>

\* The process is killed, possibly between the two writes of writeln!.
Crash(e) ==
    /\ Faults /\ ~Closed(e)
    /\ state' = [state EXCEPT ![e] = "panic"]
    /\ \/ UNCHANGED wire
       \/ /\ state[e] = "run" /\ Sender(e)
          /\ wire' = [wire EXCEPT ![Other(e)] = Append(@, Text(step[e]))]
    /\ UNCHANGED <<script, step, sock, buf, got>>

ProcessStep(e) ==
    \/ FillBuffer(e) \/ SendWrite(e) \/ SendAcknowledged(e)
    \/ receive_msg(e) \/ EndOfStream(e)
Next == \E e \in End : Arrive(e) \/ ProcessStep(e) \/ Crash(e)
Spec == Init /\ [][Next]_vars
\* TCP delivers what was written and nobody is suspended for ever.
FairSpec == Spec /\ \A e \in End : WF_vars(Arrive(e)) /\ WF_vars(ProcessStep(e))

-----------------------------------------------------------------------------
Fragments(parts) == [msg : Nat, part : parts]
\* Between two steps a BufReader never holds a newline: a read that finds one
\* returns at once.
TypeOK ==
    /\ script \in Scripts
    /\ step \in [End -> Nat]
    /\ state \in [End -> {"run", "ack", "panic"}]
    /\ wire \in [End -> Seq(Fragments({"text", "newline"}))]
    /\ sock \in [End -> Seq(Fragments({"text", "newline"}))]
    /\ buf \in [End -> Seq(Fragments({"text"}))]
    /\ got \in [End -> Seq(Seq(Fragments({"text", "newline", "cut"})))]

\* When send_msg returns, the receive_msg that ends with that message's newline
\* has returned at the other end: an ACK never runs ahead of its message.
AckMeansReceived ==
    \A e \in End : \A i \in 1 .. step[e] - 1 :
        script[i] = e => \E k \in DOMAIN got[Other(e)] :
            got[Other(e)][k] # <<>> /\ Last(got[Other(e)][k]) = Newline(i)

\* A message is never handed over twice, nor after a later one.
ReceivedInOrder ==
    \A e \in End : \A j, k \in DOMAIN got[e] :
        j < k /\ got[e][j] # <<>> /\ got[e][k] # <<>>
            => Last(got[e][j]).msg < Last(got[e][k]).msg

\* Messages are handed over once and in order, and an ACK is never ahead of its
\* message, however the stream is cut and whenever a process is killed.
DeliveredInOrder == AckMeansReceived /\ ReceivedInOrder

\* With reliable delivery every script is played to its end.
ScriptEnds == <>(\A e \in End : Done(e))
=============================================================================
