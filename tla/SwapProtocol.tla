---------------------------- MODULE SwapProtocol ----------------------------
(***************************************************************************)
(* The swap of two honest parties: Alice, who owns the Grin ("mw"), and    *)
(* Bob, who owns the Bitcoin and knows the witness x ("btc").  Each runs   *)
(* one command of the program at a time.  The party that made the offer    *)
(* runs `listen'; the other one runs `lock', `execute' or `cancel', each   *)
(* of which connects to the listener.  A command reads the slate files,    *)
(* works on the slate in memory and, only if it ends with Ok, main()       *)
(* writes the slate back; a command that ends with Err or a panic leaves   *)
(* the files as they were.                                                 *)
(*                                                                         *)
(* Data is abstracted to what tells sessions apart.  The keys, nonces,     *)
(* coins and transactions made in one locking session are all named by     *)
(* the number of that session (0: None).  Lines sent one after the other   *)
(* in the same direction with nothing in between are one line.             *)
(*                                                                         *)
(* A definition named after another one with a suffix (send_msg and        *)
(* send_msg_NoWait) is a faulty variant that stands for a bug in it and    *)
(* shows which mistake a property would find.                              *)
(***************************************************************************)
EXTENDS Chains, Sequences

CONSTANTS
    Offered,        \* "BTC" or "GRIN": the currency of the party that offers
    Timelock,       \* slate.{btc,mw}.timelock, in blocks, per party
    Hour,           \* 60 / BTC_BLOCK_TIME and 60 / GRIN_BLOCK_TIME
    Amount,         \* slate.{btc,mw}.amount
    Fee,            \* BTC_FEE and the Grin fee of the funding transaction
    Values,         \* what the imported inputs of the two parties may add up to
    Exactness,      \* whether listunspent's f32 amount converts back to Amount
    MAX_ATTEMPTS_VERF_FUNDS,
    Faults,         \* processes may be killed, RPC and TCP calls may fail
    MaxSessions     \* bound: number of locking sessions

Party == {"mw", "btc"}
Peer(p) == IF p = "mw" THEN "btc" ELSE "mw"

ASSUME OfferedAssumption == Offered \in {"BTC", "GRIN"}
ASSUME NumbersAssumption ==
    /\ Timelock \in [Party -> Nat]
    /\ Hour \in [Party -> Nat]
    /\ Amount \in [Party -> Nat]
    /\ Values \subseteq [Party -> Nat]
    /\ Fee \in [Party -> Nat]
    /\ MAX_ATTEMPTS_VERF_FUNDS \in Nat
    /\ MaxSessions \in Nat
ASSUME HourAssumption == \A p \in Party : Hour[p] > 0
ASSUME FlagsAssumption == Exactness \subseteq BOOLEAN /\ Faults \in BOOLEAN

\* The listener is on the side of the offered currency.
Listener == IF Offered = "BTC" THEN "btc" ELSE "mw"
Client == Peer(Listener)

VARIABLES
    pc,         \* next step of each party's process, "idle": no process
    ack,        \* the process is inside send_msg, waiting for the ACK
    net,        \* lines on their way to each party
    link,       \* both ends of the current connection are alive
    pub, prv,   \* slate.pub_slate and slate.prv_slate in memory
    pubFile, prvFile,   \* <id>.pub.json and <id>.prv.json
    attempts,   \* failed attempts of Alice to verify the locked funds
    x,          \* the witness Alice extracted last (local to exec_phase_swap_mw)
    session,    \* number of locking sessions started
    value,      \* sum of the inputs each party has imported
    exact       \* the amount survives its way through listunspent

commVars == <<net, link, ack>>
slateVars == <<pub, prv>>
fileVars == <<pubFile, prvFile>>
givenVars == <<value, exact>>
auxVars == <<attempts, x, session, givenVars>>
vars == <<chainVars, pc, commVars, slateVars, fileVars, auxVars>>

Status == {"INITIALIZED", "SETUP", "EXECUTING", "FINISHED", "FAILED"}
\* Spendable coins the private slate can hold besides the imported inputs.
Coin == {"change_coin", "refund_coin", "swapped", "change", "refunded", "swapped_coin"}

PubSlate == [status : Status, pub_a : Nat, pub_b : Nat, pub_x : Nat,
             btc_lock_time : Nat, mw_lock_time : Nat]
PrvSlate == [sk : Nat, x : Nat, lock : Nat, shared_coin : Nat,
             refund_tx : Nat, refund_height : Nat, coins : SUBSET Coin]

NewPub == [status |-> "INITIALIZED", pub_a |-> 0, pub_b |-> 0, pub_x |-> 0,
           btc_lock_time |-> 0, mw_lock_time |-> 0]
NewPrv == [sk |-> 0, x |-> 0, lock |-> 0, shared_coin |-> 0,
           refund_tx |-> 0, refund_height |-> 0, coins |-> {}]

\* Both parties have prepared the swap: init, accept and import are done.
Init ==
    /\ ChainsInit
    /\ pc = [p \in Party |-> "idle"]
    /\ ack = [p \in Party |-> FALSE]
    /\ net = [p \in Party |-> <<>>]
    /\ link = FALSE
    /\ pub = [p \in Party |-> NewPub] /\ prv = [p \in Party |-> NewPrv]
    /\ pubFile = [p \in Party |-> NewPub] /\ prvFile = [p \in Party |-> NewPrv]
    /\ attempts = 0 /\ x = 0 /\ session = 0
    /\ value \in Values /\ exact \in Exactness

-----------------------------------------------------------------------------
(* The steps of a process.  `At' is its next statement; a process inside   *)
(* send_msg does nothing else.                                             *)

At(p, l) == pc[p] = l /\ ~ack[p]
Goto(p, l) == pc' = [pc EXCEPT ![p] = l]
AddCoin(p, c) == prv[p].coins \cup {c}
Line(t, v) == [type |-> t, val |-> v]
ACK == Line("ACK", 0)

\* send_msg: write the line, then block until the ACK is there.
send_msg_NoWait(p, t, v) ==
    /\ link
    /\ net' = [net EXCEPT ![Peer(p)] = Append(@, Line(t, v))]
    /\ UNCHANGED <<ack, link>>
send_msg(p, t, v) ==
    /\ link
    /\ net' = [net EXCEPT ![Peer(p)] = Append(@, Line(t, v))]
    /\ ack' = [ack EXCEPT ![p] = TRUE]
    /\ UNCHANGED link

ReadAck(p) ==
    /\ ack[p]
    /\ net[p] # <<>>
    /\ Head(net[p]).type = "ACK"
    /\ net' = [net EXCEPT ![p] = Tail(@)]
    /\ ack' = [ack EXCEPT ![p] = FALSE]
    /\ UNCHANGED <<chainVars, pc, link, slateVars, fileVars, auxVars>>

\* receive_msg: read a line and write the ACK.
Incoming(p, t) == net[p] # <<>> /\ Head(net[p]).type = t
receive_msg_NoAck(p, t) ==
    /\ Incoming(p, t)
    /\ net' = [net EXCEPT ![p] = Tail(@)]
    /\ UNCHANGED <<ack, link>>
receive_msg(p, t) ==
    /\ Incoming(p, t)
    /\ net' = IF link THEN [net EXCEPT ![p] = Tail(@), ![Peer(p)] = Append(@, ACK)]
                      ELSE [net EXCEPT ![p] = Tail(@)]
    /\ UNCHANGED <<ack, link>>
Msg(p) == Head(net[p]).val

\* The process ends without writing the slate: Err or a panic reaches main().
Die_Writes(p) ==
    /\ Goto(p, "idle")
    /\ ack' = [ack EXCEPT ![p] = FALSE]
    /\ link' = FALSE
    /\ net' = [net EXCEPT ![p] = <<>>]
    /\ pubFile' = [pubFile EXCEPT ![p] = pub[p]]
    /\ prvFile' = [prvFile EXCEPT ![p] = prv[p]]
    /\ UNCHANGED <<chainVars, slateVars, auxVars>>
Die(p) ==
    /\ Goto(p, "idle")
    /\ ack' = [ack EXCEPT ![p] = FALSE]
    /\ link' = FALSE
    /\ net' = [net EXCEPT ![p] = <<>>]
    /\ pub' = [pub EXCEPT ![p] = pubFile[p]]
    /\ prv' = [prv EXCEPT ![p] = prvFile[p]]
    /\ UNCHANGED <<chainVars, fileVars, auxVars>>

\* Steps that only pass a line on.
SendStep(p, at, t, v, next) ==
    /\ At(p, at)
    /\ send_msg(p, t, v)
    /\ Goto(p, next)
    /\ UNCHANGED <<chainVars, slateVars, fileVars, auxVars>>
ReceiveStep(p, at, t, next) ==
    /\ At(p, at)
    /\ receive_msg(p, t)
    /\ Goto(p, next)
    /\ UNCHANGED <<chainVars, slateVars, fileVars, auxVars>>

Err(p) == At(p, "err") /\ Die(p)

-----------------------------------------------------------------------------
(* The commands.                                                           *)

\* slate := read_slate_from_disk(..)
ReadSlate(p) ==
    /\ pub' = [pub EXCEPT ![p] = pubFile[p]]
    /\ prv' = [prv EXCEPT ![p] = prvFile[p]]

\* listen: the slate is read once, the funds are checked unless locked already.
Listen ==
    /\ pc[Listener] = "idle"
    /\ pubFile[Listener].status = "SETUP" \/ value[Listener] >= Amount[Listener]
    /\ ReadSlate(Listener)
    /\ Goto(Listener, "accept")
    /\ UNCHANGED <<chainVars, commVars, fileVars, auxVars>>

\* lock, execute, cancel: connect and send the checksum of the public slate,
\* which stands for the public slate itself.  A connection made while the
\* listener is busy is served when it is back in accept.
Command(c) ==
    /\ pc[Client] = "idle"
    /\ pc[Listener] = "accept"
    /\ session < MaxSessions \/ pub[Listener].status # "INITIALIZED"
    /\ ReadSlate(Client)
    /\ pc' = [pc EXCEPT ![Client] = c, ![Listener] = "checksum"]
    /\ net' = [net EXCEPT ![Client] = <<>>,
                          ![Listener] = <<[type |-> "checksum", slate |-> pubFile[Client]]>>]
    /\ ack' = [ack EXCEPT ![Client] = TRUE]
    /\ link' = TRUE
    /\ UNCHANGED <<chainVars, fileVars, auxVars>>
Lock == Command("lock")
Execute == Command("execute")
Cancel == Command("cancel")

FirstLockStep(p) == IF p = "mw" THEN "mw_keys" ELSE "btc_keys"
FirstExecStep(p) == IF p = "mw" THEN "mw_exec" ELSE "btc_exec"
FirstRefundStep(p) == IF p = "mw" THEN "mw_refund" ELSE "btc_refund"

\* The client's side of the handshake: "OK" or Err, then the status it needs.
ClientAnswered ==
    \/ /\ At(Client, "lock")
       /\ receive_msg(Client, "OK")
       /\ Goto(Client, IF pub[Client].status = "INITIALIZED"
                       THEN FirstLockStep(Client) ELSE "err")
       /\ UNCHANGED <<chainVars, slateVars, fileVars, auxVars>>
    \/ \E c \in {"execute", "cancel"} :
       /\ At(Client, c)
       /\ receive_msg(Client, "OK")
       /\ Goto(Client, IF pub[Client].status # "SETUP" THEN "err"
                       ELSE IF c = "execute" THEN "send_execute" ELSE "send_cancel")
       /\ UNCHANGED <<chainVars, slateVars, fileVars, auxVars>>
    \/ \E c \in {"lock", "execute", "cancel"} : ReceiveStep(Client, c, "FAULT", "err")
ClientSendsCommand ==
    \/ SendStep(Client, "send_execute", "EXECUTE", 0, FirstExecStep(Client))
    \/ SendStep(Client, "send_cancel", "CANCEL", 0, FirstRefundStep(Client))

\* The listener's side: compare with the file as it is now, answer, and go on
\* with what the status in memory asks for.
ListenChecksum ==
    /\ At(Listener, "checksum")
    /\ receive_msg(Listener, "checksum")
    /\ Goto(Listener, IF Head(net[Listener]).slate = pubFile[Listener]
                      THEN "ok" ELSE "fault")
    /\ UNCHANGED <<chainVars, slateVars, fileVars, auxVars>>
ListenAnswer ==
    \/ /\ At(Listener, "ok")
       /\ send_msg(Listener, "OK", 0)
       /\ LET st == pub[Listener].status IN
          /\ Goto(Listener, IF st = "INITIALIZED" THEN FirstLockStep(Listener)
                            ELSE IF st = "SETUP" THEN "command" ELSE "next_client")
          /\ session' = IF st = "INITIALIZED" THEN session + 1 ELSE session
       /\ UNCHANGED <<chainVars, slateVars, fileVars, attempts, x, givenVars>>
    \/ SendStep(Listener, "fault", "FAULT", 0, "next_client")
ListenCommand_CancelsAll ==
    \E c \in {"EXECUTE", "CANCEL"} :
        ReceiveStep(Listener, "command", c, FirstRefundStep(Listener))
ListenCommand ==
    \/ ReceiveStep(Listener, "command", "EXECUTE", FirstExecStep(Listener))
    \/ ReceiveStep(Listener, "command", "CANCEL", FirstRefundStep(Listener))
\* The client is gone: at end of file read_from_stream returns "" (in a build
\* without overflow checks), which is not "EXECUTE" and so means cancel.
ListenCommandEof ==
    /\ At(Listener, "command")
    /\ ~link /\ net[Listener] = <<>>
    /\ Goto(Listener, FirstRefundStep(Listener))
    /\ UNCHANGED <<chainVars, commVars, slateVars, fileVars, auxVars>>
\* The stream is dropped at the end of the loop body.
ListenNextClient ==
    /\ At(Listener, "next_client")
    /\ Goto(Listener, "accept")
    /\ link' = FALSE
    /\ net' = [net EXCEPT ![Listener] = <<>>]
    /\ UNCHANGED <<chainVars, ack, slateVars, fileVars, auxVars>>

\* main() writes the slate of a command that returned Ok, private file first.
WritePrv_Forgotten(p) ==
    /\ At(p, "write_prv")
    /\ Goto(p, "write_pub")
    /\ link' = FALSE
    /\ net' = [net EXCEPT ![p] = <<>>]
    /\ UNCHANGED <<chainVars, ack, slateVars, fileVars, auxVars>>
WritePrv(p) ==
    /\ At(p, "write_prv")
    /\ prvFile' = [prvFile EXCEPT ![p] = prv[p]]
    /\ Goto(p, "write_pub")
    /\ link' = FALSE
    /\ net' = [net EXCEPT ![p] = <<>>]
    /\ UNCHANGED <<chainVars, ack, slateVars, pubFile, auxVars>>
WritePub(p) ==
    /\ At(p, "write_pub")
    /\ pubFile' = [pubFile EXCEPT ![p] = pub[p]]
    /\ Goto(p, "idle")
    /\ UNCHANGED <<chainVars, commVars, slateVars, prvFile, auxVars>>

-----------------------------------------------------------------------------
(* locking_phase_swap_mw: Alice.                                           *)

\* The lock time a party picks: its chain's height now plus the timelock.
LockHeight_Minus(p) == (IF p = "mw" THEN grinHeight ELSE btcHeight) - Timelock[p]
LockHeight(p) == (IF p = "mw" THEN grinHeight ELSE btcHeight) + Timelock[p]

mw_send_pub_a ==
    /\ At("mw", "mw_keys")
    /\ send_msg("mw", "pub_a", session)
    /\ pub' = [pub EXCEPT !["mw"] = [@ EXCEPT !.status = "SETUP", !.pub_a = session]]
    /\ prv' = [prv EXCEPT !["mw"] = [@ EXCEPT !.sk = session]]
    /\ Goto("mw", "mw_pub_b")
    /\ UNCHANGED <<chainVars, fileVars, auxVars>>
mw_receive_pub_b ==
    /\ At("mw", "mw_pub_b")
    /\ receive_msg("mw", "pub_b")
    /\ pub' = [pub EXCEPT !["mw"] = [@ EXCEPT !.pub_b = Msg("mw"), !.pub_x = Msg("mw")]]
    /\ Goto("mw", "mw_lock_time")
    /\ UNCHANGED <<chainVars, prv, fileVars, auxVars>>
mw_receive_lock_time ==
    /\ At("mw", "mw_lock_time")
    /\ receive_msg("mw", "lock_time")
    /\ pub' = [pub EXCEPT !["mw"] = [@ EXCEPT !.btc_lock_time = Msg("mw")]]
    /\ Goto("mw", "mw_import")
    /\ UNCHANGED <<chainVars, prv, fileVars, auxVars>>
\* The address follows from the keys and the lock time of this session.
mw_import_address ==
    /\ At("mw", "mw_import")
    /\ import_btc_address(pub["mw"].pub_a)
    /\ Goto("mw", "mw_address")
    /\ attempts' = 0
    /\ UNCHANGED <<commVars, slateVars, fileVars, x, session, givenVars>>
mw_receive_address ==
    /\ At("mw", "mw_address")
    /\ receive_msg("mw", "address")
    /\ IF Msg("mw") = pub["mw"].pub_a
       THEN Goto("mw", "mw_verify") /\ UNCHANGED pub
       ELSE Goto("mw", "err") /\ pub' = [pub EXCEPT !["mw"] = [@ EXCEPT !.status = "FAILED"]]
    /\ UNCHANGED <<chainVars, prv, fileVars, auxVars>>

\* One round of the verification loop, one action per way out of it.
mw_balance_assumed ==
    /\ At("mw", "mw_verify")
    /\ prv' = [prv EXCEPT !["mw"] = [@ EXCEPT !.lock = pub["mw"].pub_a]]
    /\ Goto("mw", "mw_height")
    /\ UNCHANGED <<chainVars, commVars, pub, fileVars, auxVars>>
mw_balance_found ==
    /\ At("mw", "mw_verify")
    /\ attempts < MAX_ATTEMPTS_VERF_FUNDS
    /\ BalanceVisible(pub["mw"].pub_a) /\ exact
    /\ prv' = [prv EXCEPT !["mw"] = [@ EXCEPT !.lock = pub["mw"].pub_a]]
    /\ Goto("mw", "mw_height")
    /\ UNCHANGED <<chainVars, commVars, pub, fileVars, auxVars>>
mw_balance_differs ==
    /\ At("mw", "mw_verify")
    /\ attempts < MAX_ATTEMPTS_VERF_FUNDS
    /\ BalanceVisible(pub["mw"].pub_a) /\ ~exact
    /\ attempts' = MAX_ATTEMPTS_VERF_FUNDS
    /\ UNCHANGED <<chainVars, pc, commVars, slateVars, fileVars, x, session, givenVars>>
mw_balance_zero ==
    /\ At("mw", "mw_verify")
    /\ attempts < MAX_ATTEMPTS_VERF_FUNDS
    /\ ~BalanceVisible(pub["mw"].pub_a) \/ Faults
    /\ attempts' = attempts + 1
    /\ UNCHANGED <<chainVars, pc, commVars, slateVars, fileVars, x, session, givenVars>>
mw_not_verified ==
    /\ At("mw", "mw_verify")
    /\ attempts >= MAX_ATTEMPTS_VERF_FUNDS
    /\ pub' = [pub EXCEPT !["mw"] = [@ EXCEPT !.status = "FAILED"]]
    /\ Goto("mw", "err")
    /\ UNCHANGED <<chainVars, commVars, prv, fileVars, auxVars>>

mw_send_lock_height ==
    /\ At("mw", "mw_height")
    /\ LET h == LockHeight("mw") IN
       /\ pub' = [pub EXCEPT !["mw"] = [@ EXCEPT !.mw_lock_time = h]]
       /\ send_msg("mw", "mw_lock_time", h)
    /\ Goto("mw", "mw_spend")
    /\ UNCHANGED <<chainVars, prv, fileVars, auxVars>>

\* spend_coins succeeds; it makes a change coin if something is left.
spend_coins == value["mw"] >= Amount["mw"] + Fee["mw"]
\* dshared_out_mw_tx_alice: build the output shared with Bob.
mw_shared_out ==
    \/ /\ spend_coins
       /\ SendStep("mw", "mw_spend", "ptx", 0, "mw_ptx2")
    \/ ReceiveStep("mw", "mw_ptx2", "ptx2", "mw_final")
    \/ /\ At("mw", "mw_final")
       /\ send_msg("mw", "final", 0)
       /\ prv' = [prv EXCEPT !["mw"] = [@ EXCEPT !.shared_coin = pub["mw"].pub_a,
                     !.coins = IF value["mw"] > Amount["mw"] + Fee["mw"]
                               THEN AddCoin("mw", "change_coin")
                               ELSE prv["mw"].coins \ {"change_coin"}]]
       /\ Goto("mw", "mw_ref_ptx")
       /\ UNCHANGED <<chainVars, pub, fileVars, auxVars>>
\* The result of spend_coins is unwrapped, and so is the change coin.
mw_funds_panic ==
    /\ \/ At("mw", "mw_spend") /\ ~spend_coins
       \/ At("mw", "mw_ref_ptx") /\ "change_coin" \notin prv["mw"].coins
    /\ Die("mw")

\* dshared_inp_mw_tx_bob: the time-locked refund, checked by d_spend_coins.
mw_refund_tx ==
    \/ /\ At("mw", "mw_ref_ptx")
       /\ "change_coin" \in prv["mw"].coins
       /\ receive_msg("mw", "ref_ptx")
       /\ Goto("mw", IF Msg("mw") = pub["mw"].mw_lock_time THEN "mw_ref_ptx2" ELSE "err")
       /\ UNCHANGED <<chainVars, slateVars, fileVars, auxVars>>
    \/ SendStep("mw", "mw_ref_ptx2", "ref_ptx2", 0, "mw_ref_final")
    \/ /\ At("mw", "mw_ref_final")
       /\ receive_msg("mw", "ref_final")
       /\ prv' = [prv EXCEPT !["mw"] = [@ EXCEPT !.refund_tx = prv["mw"].shared_coin,
                     !.refund_height = pub["mw"].mw_lock_time,
                     !.coins = AddCoin("mw", "refund_coin")]]
       /\ Goto("mw", "mw_fund")
       /\ UNCHANGED <<chainVars, pub, fileVars, auxVars>>
mw_push_funding_Early ==
    /\ At("mw", "mw_ref_final")
    /\ PushFunding(prv["mw"].shared_coin)
    /\ Goto("mw", "write_prv")
    /\ UNCHANGED <<commVars, slateVars, fileVars, auxVars>>
mw_push_funding_Forgotten ==
    /\ At("mw", "mw_fund")
    /\ Goto("mw", "write_prv")
    /\ UNCHANGED <<chainVars, commVars, slateVars, fileVars, auxVars>>
mw_push_funding ==
    /\ At("mw", "mw_fund")
    /\ PushFunding(prv["mw"].shared_coin)
    /\ Goto("mw", "write_prv")
    /\ UNCHANGED <<commVars, slateVars, fileVars, auxVars>>

locking_phase_swap_mw ==
    \/ mw_send_pub_a \/ mw_receive_pub_b \/ mw_receive_lock_time
    \/ mw_import_address \/ mw_receive_address
    \/ mw_balance_found \/ mw_balance_differs \/ mw_balance_zero \/ mw_not_verified
    \/ mw_send_lock_height \/ mw_shared_out \/ mw_funds_panic \/ mw_refund_tx
    \/ mw_push_funding

-----------------------------------------------------------------------------
(* locking_phase_swap_btc: Bob.                                            *)

btc_receive_pub_a ==
    /\ At("btc", "btc_keys")
    /\ receive_msg("btc", "pub_a")
    /\ pub' = [pub EXCEPT !["btc"] = [@ EXCEPT !.status = "SETUP", !.pub_a = Msg("btc"),
                                              !.pub_b = session, !.pub_x = session]]
    /\ prv' = [prv EXCEPT !["btc"] = [@ EXCEPT !.sk = session, !.x = session]]
    /\ Goto("btc", "btc_pub_b")
    /\ UNCHANGED <<chainVars, fileVars, auxVars>>
btc_send_pub_b == SendStep("btc", "btc_pub_b", "pub_b", pub["btc"].pub_b, "btc_height")
btc_send_lock_time ==
    /\ At("btc", "btc_height")
    /\ LET h == LockHeight("btc") IN
       /\ pub' = [pub EXCEPT !["btc"] = [@ EXCEPT !.btc_lock_time = h]]
       /\ send_msg("btc", "lock_time", h)
    /\ Goto("btc", "btc_lock")
    /\ UNCHANGED <<chainVars, prv, fileVars, auxVars>>
create_lock_transaction == value["btc"] >= Amount["btc"] + Fee["btc"]
btc_lock_fails == At("btc", "btc_lock") /\ ~create_lock_transaction /\ Die("btc")
btc_send_lock ==
    /\ At("btc", "btc_lock")
    /\ create_lock_transaction
    /\ SendLock(prv["btc"].sk, pub["btc"].btc_lock_time)
    /\ prv' = [prv EXCEPT !["btc"] = [@ EXCEPT !.coins = AddCoin("btc", "change")]]
    /\ Goto("btc", "btc_address")
    /\ UNCHANGED <<commVars, pub, fileVars, auxVars>>
btc_send_address ==
    /\ At("btc", "btc_address")
    /\ send_msg("btc", "address", prv["btc"].sk)
    /\ prv' = [prv EXCEPT !["btc"] = [@ EXCEPT !.lock = prv["btc"].sk]]
    /\ Goto("btc", "btc_mw_lock_time")
    /\ UNCHANGED <<chainVars, pub, fileVars, auxVars>>
btc_receive_lock_height ==
    /\ At("btc", "btc_mw_lock_time")
    /\ receive_msg("btc", "mw_lock_time")
    /\ pub' = [pub EXCEPT !["btc"] = [@ EXCEPT !.mw_lock_time = Msg("btc")]]
    /\ Goto("btc", "btc_ptx")
    /\ UNCHANGED <<chainVars, prv, fileVars, auxVars>>
\* dshared_out_mw_tx_bob
btc_shared_out ==
    \/ ReceiveStep("btc", "btc_ptx", "ptx", "btc_ptx2")
    \/ SendStep("btc", "btc_ptx2", "ptx2", 0, "btc_final")
    \/ /\ At("btc", "btc_final")
       /\ receive_msg("btc", "final")
       /\ prv' = [prv EXCEPT !["btc"] = [@ EXCEPT !.shared_coin = prv["btc"].sk]]
       /\ Goto("btc", "btc_ref_ptx")
       /\ UNCHANGED <<chainVars, pub, fileVars, auxVars>>
\* dshared_inp_mw_tx_alice, with which the phase ends.
btc_refund_tx ==
    \/ SendStep("btc", "btc_ref_ptx", "ref_ptx", pub["btc"].mw_lock_time, "btc_ref_ptx2")
    \/ ReceiveStep("btc", "btc_ref_ptx2", "ref_ptx2", "btc_ref_final")
    \/ SendStep("btc", "btc_ref_final", "ref_final", 0, "write_prv")

locking_phase_swap_btc ==
    \/ btc_receive_pub_a \/ btc_send_pub_b \/ btc_send_lock_time
    \/ btc_lock_fails \/ btc_send_lock \/ btc_send_address
    \/ btc_receive_lock_height \/ btc_shared_out \/ btc_refund_tx

-----------------------------------------------------------------------------
(* The execution phase.  Both sides first look at both chains.             *)

check_if_enough_time(p) ==
    /\ grinHeight + Hour["mw"] <= pub[p].mw_lock_time
    /\ btcHeight + Hour["btc"] <= pub[p].btc_lock_time
StartExecution(p, at, next) ==
    /\ At(p, at)
    /\ check_if_enough_time(p)
    /\ pub' = [pub EXCEPT ![p] = [@ EXCEPT !.status = "EXECUTING"]]
    /\ Goto(p, next)
    /\ UNCHANGED <<chainVars, commVars, prv, fileVars, auxVars>>

\* dcontract_mw_tx_alice: fin_tx verifies Bob's adapted signature with pub_x;
\* the last line lets her extract x.
mw_contract_tx ==
    \/ SendStep("mw", "mw_ctr_ptx", "ctr_ptx", 0, "mw_ctr_ptx2")
    \/ /\ At("mw", "mw_ctr_ptx2")
       /\ receive_msg("mw", "ctr_ptx2")
       /\ Goto("mw", IF Msg("mw") = pub["mw"].pub_x THEN "mw_ctr_ptx3" ELSE "err")
       /\ UNCHANGED <<chainVars, slateVars, fileVars, auxVars>>
    \/ SendStep("mw", "mw_ctr_ptx3", "ctr_ptx3", prv["mw"].shared_coin, "mw_ctr_final")
    \/ /\ At("mw", "mw_ctr_final")
       /\ receive_msg("mw", "ctr_final")
       /\ x' = Msg("mw")
       /\ Goto("mw", "mw_redeem")
       /\ UNCHANGED <<chainVars, slateVars, fileVars, attempts, session, givenVars>>
mw_redeem ==
    /\ At("mw", "mw_redeem")
    /\ SendRedeem(prv["mw"].sk, x)
    /\ prv' = [prv EXCEPT !["mw"] = [@ EXCEPT !.coins = AddCoin("mw", "swapped")]]
    /\ pub' = [pub EXCEPT !["mw"] = [@ EXCEPT !.status = "FINISHED"]]
    /\ Goto("mw", "write_prv")
    /\ UNCHANGED <<commVars, fileVars, auxVars>>
exec_phase_swap_mw ==
    StartExecution("mw", "mw_exec", "mw_ctr_ptx") \/ mw_contract_tx \/ mw_redeem

\* dcontract_mw_tx_bob: fin_tx finalizes only if the two shares add up, and the
\* final transaction, which gives x away, is sent before it is pushed.
btc_contract_tx ==
    \/ ReceiveStep("btc", "btc_ctr_ptx", "ctr_ptx", "btc_ctr_ptx2")
    \/ SendStep("btc", "btc_ctr_ptx2", "ctr_ptx2", prv["btc"].x, "btc_ctr_ptx3")
    \/ /\ At("btc", "btc_ctr_ptx3")
       /\ receive_msg("btc", "ctr_ptx3")
       /\ Goto("btc", IF Msg("btc") = prv["btc"].shared_coin THEN "btc_ctr_final" ELSE "err")
       /\ UNCHANGED <<chainVars, slateVars, fileVars, auxVars>>
    \/ SendStep("btc", "btc_ctr_final", "ctr_final", prv["btc"].x, "btc_contract")
btc_push_contract_Early ==
    /\ At("btc", "btc_ctr_final")
    /\ PushContract(prv["btc"].shared_coin)
    /\ Goto("btc", "write_prv")
    /\ UNCHANGED <<commVars, slateVars, fileVars, auxVars>>
btc_push_contract_Forgotten ==
    /\ At("btc", "btc_contract")
    /\ pub' = [pub EXCEPT !["btc"] = [@ EXCEPT !.status = "FINISHED"]]
    /\ Goto("btc", "write_prv")
    /\ UNCHANGED <<chainVars, commVars, prv, fileVars, auxVars>>
btc_push_contract ==
    /\ At("btc", "btc_contract")
    /\ PushContract(prv["btc"].shared_coin)
    /\ prv' = [prv EXCEPT !["btc"] = [@ EXCEPT !.coins = AddCoin("btc", "swapped_coin")]]
    /\ pub' = [pub EXCEPT !["btc"] = [@ EXCEPT !.status = "FINISHED"]]
    /\ Goto("btc", "write_prv")
    /\ UNCHANGED <<commVars, fileVars, auxVars>>
exec_phase_swap_btc ==
    StartExecution("btc", "btc_exec", "btc_ctr_ptx") \/ btc_contract_tx \/ btc_push_contract

-----------------------------------------------------------------------------
(* The refund phase: each side looks at both chains on its own.            *)

can_refund_Either(p) == grinHeight > pub[p].mw_lock_time \/ btcHeight > pub[p].btc_lock_time
can_refund(p) == grinHeight > pub[p].mw_lock_time /\ btcHeight > pub[p].btc_lock_time
StartRefund(p, at, next) ==
    /\ At(p, at)
    /\ can_refund(p)
    /\ Goto(p, next)
    /\ UNCHANGED <<chainVars, commVars, slateVars, fileVars, auxVars>>

mw_push_refund ==
    /\ At("mw", "mw_refund_push")
    /\ PushMwRefund(prv["mw"].refund_tx, prv["mw"].refund_height)
    /\ pub' = [pub EXCEPT !["mw"] = [@ EXCEPT !.status = "FAILED"]]
    /\ Goto("mw", "write_prv")
    /\ UNCHANGED <<commVars, prv, fileVars, auxVars>>
refund_phase_swap_mw == StartRefund("mw", "mw_refund", "mw_refund_push") \/ mw_push_refund

btc_send_refund_NoLockTime ==
    /\ At("btc", "btc_refund_push")
    /\ SendBtcRefund(prv["btc"].sk, 0)
    /\ Goto("btc", "write_prv")
    /\ UNCHANGED <<commVars, slateVars, fileVars, auxVars>>
btc_send_refund ==
    /\ At("btc", "btc_refund_push")
    /\ SendBtcRefund(prv["btc"].sk, pub["btc"].btc_lock_time)
    /\ prv' = [prv EXCEPT !["btc"] = [@ EXCEPT !.coins = AddCoin("btc", "refunded")]]
    /\ pub' = [pub EXCEPT !["btc"] = [@ EXCEPT !.status = "FAILED"]]
    /\ Goto("btc", "write_prv")
    /\ UNCHANGED <<commVars, fileVars, auxVars>>
refund_phase_swap_btc == StartRefund("btc", "btc_refund", "btc_refund_push") \/ btc_send_refund

-----------------------------------------------------------------------------
(* Ways for a process to end early.                                        *)

\* The checks at the head of the execution and of the refund phase.
BadTime(p) ==
    /\ \/ pc[p] \in {"mw_exec", "btc_exec"} /\ ~check_if_enough_time(p)
       \/ pc[p] \in {"mw_refund", "btc_refund"} /\ ~can_refund(p)
    /\ ~ack[p]
    /\ Die(p)

\* The node refuses a transaction and the call returns Err or panics.
NodeAccepts(l) ==
    CASE l = "btc_lock" -> LockAccepted
      [] l = "mw_fund" -> FundingAccepted
      [] l = "mw_redeem" -> RedeemAccepted(prv["mw"].sk, x)
      [] l = "btc_contract" -> ContractAccepted(prv["btc"].shared_coin)
      [] l = "mw_refund_push" -> MwRefundAccepted(prv["mw"].refund_tx, prv["mw"].refund_height)
      [] l = "btc_refund_push" -> BtcRefundAccepted(prv["btc"].sk, pub["btc"].btc_lock_time)
      [] OTHER -> TRUE
NodeRefuses(p) == ~ack[p] /\ ~NodeAccepts(pc[p]) /\ Die(p)

\* The line each step reads next.
Expected ==
    [lock |-> {"OK", "FAULT"}, execute |-> {"OK", "FAULT"}, cancel |-> {"OK", "FAULT"},
     checksum |-> {"checksum"}, command |-> {"EXECUTE", "CANCEL"},
     mw_pub_b |-> {"pub_b"}, mw_lock_time |-> {"lock_time"}, mw_address |-> {"address"},
     mw_ptx2 |-> {"ptx2"}, mw_ref_ptx |-> {"ref_ptx"}, mw_ref_final |-> {"ref_final"},
     mw_ctr_ptx2 |-> {"ctr_ptx2"}, mw_ctr_final |-> {"ctr_final"},
     btc_keys |-> {"pub_a"}, btc_mw_lock_time |-> {"mw_lock_time"}, btc_ptx |-> {"ptx"},
     btc_final |-> {"final"}, btc_ref_ptx2 |-> {"ref_ptx2"},
     btc_ctr_ptx |-> {"ctr_ptx"}, btc_ctr_ptx3 |-> {"ctr_ptx3"}]
Sending ==
    {"ok", "fault", "send_execute", "send_cancel", "mw_keys", "mw_height", "mw_spend",
     "mw_final", "mw_ref_ptx2", "mw_ctr_ptx", "mw_ctr_ptx3", "btc_pub_b", "btc_height",
     "btc_address", "btc_ptx2", "btc_ref_ptx", "btc_ref_final", "btc_ctr_ptx2", "btc_ctr_final"}

\* A read meets the end of the stream, or a write a closed one: the assertion
\* on the ACK fails, or the empty line does not parse.
PeerGone(p) ==
    /\ ~link
    /\ net[p] = <<>>
    /\ ack[p] \/ pc[p] \in Sending \cup DOMAIN Expected
    /\ Die(p)

\* Killed, or a call to a node or on the socket failed or timed out.
Crash(p) == Faults /\ pc[p] # "idle" /\ Die(p)

-----------------------------------------------------------------------------
ListenStep ==
    \/ ListenChecksum \/ ListenAnswer \/ ListenCommand \/ ListenCommandEof
    \/ ListenNextClient
ClientStep == ClientAnswered \/ ClientSendsCommand
CommonStep(p) ==
    \/ ReadAck(p) \/ Err(p) \/ WritePrv(p) \/ WritePub(p)
    \/ BadTime(p) \/ NodeRefuses(p) \/ PeerGone(p)
MwStep == locking_phase_swap_mw \/ exec_phase_swap_mw \/ refund_phase_swap_mw
BtcStep == locking_phase_swap_btc \/ exec_phase_swap_btc \/ refund_phase_swap_btc

\* What the process of a party does once it is started.
ProcessStep(p) ==
    \/ p = "mw" /\ MwStep
    \/ p = "btc" /\ BtcStep
    \/ p = Listener /\ ListenStep
    \/ p = Client /\ ClientStep
    \/ CommonStep(p)
\* What the users do.
UserStep == Listen \/ Lock \/ Execute \/ Cancel
Mine ==
    /\ MineBtc \/ MineGrin
    /\ UNCHANGED <<pc, commVars, slateVars, fileVars, auxVars>>

Next ==
    \/ \E p \in Party : ProcessStep(p) \/ Crash(p)
    \/ UserStep
    \/ Mine
Spec == Init /\ [][Next]_vars

\* A process that can take a step is not stopped for ever.
FairSpec == Spec /\ \A p \in Party : WF_vars(ProcessStep(p))

-----------------------------------------------------------------------------
(* Properties.                                                             *)

LineType ==
    {"ACK", "OK", "FAULT", "EXECUTE", "CANCEL", "pub_a", "pub_b", "lock_time", "address",
     "mw_lock_time", "ptx", "ptx2", "final", "ref_ptx", "ref_ptx2", "ref_final",
     "ctr_ptx", "ctr_ptx2", "ctr_ptx3", "ctr_final"}
Lines == [type : LineType, val : Nat] \cup [type : {"checksum"}, slate : PubSlate]
Pc ==
    Sending \cup DOMAIN Expected \cup
    {"idle", "accept", "next_client", "err", "write_prv", "write_pub", "mw_import",
     "mw_verify", "mw_fund", "mw_exec", "mw_redeem", "mw_refund", "mw_refund_push",
     "btc_lock", "btc_exec", "btc_contract", "btc_refund", "btc_refund_push"}

TypeOK ==
    /\ btcHeight \in Nat /\ grinHeight \in Nat
    /\ btcOut \in [state : {"none", "mempool", "mined", "redeemed", "refunded"},
                   keys : Nat, lock_time : Nat]
    /\ mwOut \in [state : {"none", "shared", "contract", "refunded"}, keys : Nat]
    /\ watched \in SUBSET Nat /\ seen \in BOOLEAN
    /\ pc \in [Party -> Pc]
    /\ ack \in [Party -> BOOLEAN]
    /\ net \in [Party -> Seq(Lines)]
    /\ link \in BOOLEAN
    /\ pub \in [Party -> PubSlate] /\ prv \in [Party -> PrvSlate]
    /\ pubFile \in [Party -> PubSlate] /\ prvFile \in [Party -> PrvSlate]
    /\ attempts \in Nat /\ x \in Nat /\ session \in Nat
    /\ value \in [Party -> Nat] /\ exact \in BOOLEAN

\* The two sides of every phase are in step: the line a process reads is
\* always of the kind the code at that place parses (a wrong one panics).
LinesInStep ==
    \A p \in Party : net[p] # <<>> =>
        IF ack[p] THEN Head(net[p]).type = "ACK"
        ELSE pc[p] \in DOMAIN Expected => Head(net[p]).type \in Expected[pc[p]]

\* Once both parties have a slate in SETUP the public files are the same, so
\* the checksums exchanged by execute and cancel match.
SlatesAgree ==
    pubFile["mw"].status = "SETUP" /\ pubFile["btc"].status = "SETUP"
        => pubFile["mw"] = pubFile["btc"]

\* Alice's coins are only ever on the shared output when Bob's bitcoins are, or
\* were, on the lock output of the same session and her own node has seen them
\* there.
FundedAfterLock ==
    mwOut.state # "none" => btcOut.state # "none" /\ btcOut.keys = mwOut.keys /\ seen

\* Alice publishes the funding transaction only when she holds a refund
\* transaction for that output, locked to the height both slates name.
RefundTxFirst ==
    [][mwOut.state = "none" /\ mwOut'.state # "none" =>
         /\ prv["mw"].refund_tx = mwOut'.keys
         /\ prv["mw"].refund_height = pub["mw"].mw_lock_time
         /\ "refund_coin" \in prv["mw"].coins]_vars

\* What the files of Alice claim is true of the chains, and the secrets the
\* next command needs are in them, whatever happened to her processes.
MwFilesBacked ==
    LET f == pubFile["mw"]  s == prvFile["mw"] IN
    /\ f.status # "EXECUTING"
    /\ f.status = "SETUP" =>
        /\ mwOut.state # "none" /\ mwOut.keys = s.shared_coin /\ s.refund_tx = s.shared_coin
        /\ s.refund_height = f.mw_lock_time
        /\ btcOut.keys = s.sk /\ s.lock = s.sk /\ f.pub_a = s.sk
        /\ btcOut.lock_time = f.btc_lock_time
    /\ f.status = "FINISHED" => btcOut.state = "redeemed" /\ "swapped" \in s.coins
    /\ f.status = "FAILED" => mwOut.state = "refunded" /\ "refund_coin" \in s.coins

\* The same for Bob.
BtcFilesBacked ==
    LET f == pubFile["btc"]  s == prvFile["btc"] IN
    /\ f.status # "EXECUTING"
    /\ f.status = "SETUP" =>
        /\ btcOut.state # "none" /\ btcOut.keys = s.sk /\ btcOut.lock_time = f.btc_lock_time
        /\ s.x = s.sk /\ s.lock = s.sk /\ s.shared_coin = s.sk
    /\ f.status = "FINISHED" => mwOut.state = "contract" /\ "swapped_coin" \in s.coins
    /\ f.status = "FAILED" => btcOut.state = "refunded" /\ "refunded" \in s.coins

\* What the slate files of both parties say happened on the chains, at every point a
\* process can be killed at.
FilesBacked == MwFilesBacked /\ BtcFilesBacked

\* Bob can take the shared output only after Alice has received the line
\* from which she extracts x.
ContractRevealsX == mwOut.state = "contract" => x = btcOut.keys

\* When one party has been refunded, the refund of the other is mature.
RefundsMatureTogether ==
    /\ btcOut.state = "refunded" /\ pubFile["mw"].status = "SETUP"
         => grinHeight > prvFile["mw"].refund_height
    /\ mwOut.state = "refunded" /\ pubFile["btc"].status = "SETUP"
         => btcHeight > pubFile["btc"].btc_lock_time

\* No coin is refunded while the other party is executing the swap.
NoRefundDuringExecution ==
    [][/\ btcOut.state # "refunded" /\ btcOut'.state = "refunded"
            => pub["mw"].status # "EXECUTING"
       /\ mwOut.state # "refunded" /\ mwOut'.state = "refunded"
            => pub["btc"].status # "EXECUTING"]_vars

\* Every session ends: neither party waits for the other for ever.
SessionsEnd ==
    \A p \in Party : pc[p] \notin {"idle", "accept"} ~> pc[p] \in {"idle", "accept"}

\* Nobody ends up with both coins: once the execution has paid one party,
\* cancel refunds nothing to it.
SwapIsAtomic ==
    /\ ~(btcOut.state = "redeemed" /\ mwOut.state = "refunded")
    /\ ~(btcOut.state = "refunded" /\ mwOut.state = "contract")

\* When the execution has paid one party, it pays the other one.
BothGetPaid ==
    (btcOut.state = "redeemed" \/ mwOut.state = "contract")
        ~> (btcOut.state = "redeemed" /\ mwOut.state = "contract")

\* Whenever Bob has no process running and his bitcoins are on the lock
\* output, his slate holds the key that refunds them.
LockedBtcRefundable ==
    BtcUnspent /\ pc["btc"] = "idle" => prvFile["btc"].sk = btcOut.keys

-----------------------------------------------------------------------------
(* Cancelling.  Blocks keep coming and the users who want their coins back *)
(* keep trying; once the swap is set up, they run no other command.        *)

Cancelling ==
    pc[Client] = "idle" /\ pc'[Client] \in {"lock", "execute"}
        => pubFile[Client].status = "INITIALIZED"
CancelNext == Next /\ Cancelling
CancelFairness ==
    /\ \A p \in Party : WF_vars(ProcessStep(p))
    /\ WF_vars(MineBtc /\ Mine) /\ WF_vars(MineGrin /\ Mine)
CancelSpec ==
    /\ Init /\ [][CancelNext]_vars /\ CancelFairness
    /\ WF_vars(Listen) /\ SF_vars(Cancel)

\* The lock times are reached within the modelled heights.
Reachable(s) == s.btc_lock_time < MaxBtcHeight /\ s.mw_lock_time < MaxGrinHeight

\* After the setup, parties that keep cancelling get their coins back (or the
\* swap is executed): nothing stays locked.
CancelUnlocks ==
    (pubFile["mw"].status = "SETUP" /\ pubFile["btc"].status = "SETUP" /\ Reachable(pubFile["mw"]))
        ~> (~BtcUnspent /\ mwOut.state # "shared")

\* The same for parties that wait until both lock times have passed before
\* they begin to cancel.
MatureCancelUnlocks ==
    ( /\ pubFile["mw"].status = "SETUP" /\ pubFile["btc"].status = "SETUP"
      /\ grinHeight > pubFile["mw"].mw_lock_time /\ btcHeight > pubFile["mw"].btc_lock_time
      /\ pc[Client] = "idle" /\ pc[Listener] \in {"idle", "accept"} )
        ~> (btcOut.state = "refunded" /\ mwOut.state = "refunded")

=============================================================================
