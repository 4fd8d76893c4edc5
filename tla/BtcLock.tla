------------------------------ MODULE BtcLock ------------------------------
(***************************************************************************)
(* The Bitcoin half of the swap below the level of SwapProtocol: how the   *)
(* lock transaction, its script and the transactions that spend it are     *)
(* made and signed (src/bitcoin/btcroutines.rs and its callers in          *)
(* src/swap/protocol.rs), and what a Bitcoin node makes of them.  Amounts  *)
(* are unsigned words.  A key pair is a name, and a signature names its    *)
(* key and the transaction it signs.                                       *)
(*                                                                         *)
(* A definition named after another one with a suffix is a faulty variant  *)
(* that stands for a bug in it.                                            *)
(***************************************************************************)
EXTENDS Integers, SequencesExt

CONSTANTS
    Amounts,        \* amounts of Bitcoin to swap
    Imports,        \* sequences of values of imported inputs
    BtcFee,         \* BTC_FEE
    WordSize,       \* 2^64
    Timelock,       \* blocks
    MaxHeight

BtcLockAssumption ==
    /\ Amounts \subseteq Nat /\ BtcFee \in Nat \ {0}
    /\ WordSize \in Nat /\ Timelock \in Nat /\ MaxHeight \in Nat

VARIABLES
    amount, imports,
    height,         \* of the Bitcoin chain
    lock_time,      \* of the swap slate, as both parties know it
    mem,            \* what each party has in memory or in its slate
    utxo,           \* unspent outputs on the chain
    state           \* of each party: "start", "locked", "done", "err" or "panic"

vars == <<amount, imports, height, lock_time, mem, utxo, state>>

\* The sequence number that switches a lock time off.
FFFFFFFF == -1
Parties == {"alice", "bob"}

\* What a Bitcoin script pushes: a number, a signature or the key itself.
Num(n) == [kind |-> "num", key |-> "", n |-> n]
Sig(key) == [kind |-> "sig", key |-> key, n |-> 0]
Key(key) == [kind |-> "key", key |-> key, n |-> 0]
Op(code) == [op |-> code, arg |-> Num(0)]
Push(item) == [op |-> "PUSH", arg |-> item]

get_lock_pub_script(recv_pk, pub_x, refund_pk, refund_time) ==
    <<Op("IF"), Push(Num(refund_time)), Op("CLTV"), Op("DROP"), Push(Key(refund_pk)), Op("CHECKSIG"),
      Op("ELSE"), Push(Num(2)), Push(Key(recv_pk)), Push(Key(pub_x)), Push(Num(2)), Op("CHECKMULTISIG"),
      Op("ENDIF")>>
get_p2pkh_pub_script(key) == <<Push(Key(key)), Op("CHECKSIG")>>

-----------------------------------------------------------------------------
\* A Bitcoin node.  The machine's branch is "run", or says which branch of the IF
\* is skipped.
Top(m) == m.stack[Len(m.stack)]
Pop(m, n) == SubSeq(m.stack, 1, Len(m.stack) - n)
Truth(b) == Num(IF b THEN 1 ELSE 0)
IsTrue(item) == ~(item.kind = "num" /\ item.n = 0)
Stuck(m) == [m EXCEPT !.ok = FALSE]
Enter(m) ==
    IF m.stack = <<>> THEN Stuck(m)
    ELSE [m EXCEPT !.stack = Pop(m, 1), !.run = IsTrue(Top(m))]
CheckSig(m) ==
    IF Len(m.stack) < 2 THEN Stuck(m)
    ELSE [m EXCEPT !.stack = Append(Pop(m, 2), Truth(m.stack[Len(m.stack) - 1] = Sig(Top(m).key)))]
\* <dummy> <sig> <sig> 2 <key> <key> 2: the signatures in the order of the keys.
CheckMultisig(m) ==
    LET n == Len(m.stack)
    IN  IF n < 7 THEN Stuck(m)
        ELSE [m EXCEPT !.stack = Append(Pop(m, 7),
                 Truth(/\ m.stack[n - 5] = Sig(m.stack[n - 2].key)
                       /\ m.stack[n - 4] = Sig(m.stack[n - 1].key)))]
LockTimeReached(m, tx) ==
    /\ m.stack # <<>> /\ Top(m).kind = "num"
    /\ Top(m).n <= tx.lock_time
    /\ tx.sequence # FFFFFFFF
StepOf(m, o, tx) ==
    IF ~m.ok THEN m
    ELSE IF o.op = "ELSE" THEN [m EXCEPT !.run = ~@]
    ELSE IF o.op = "ENDIF" THEN [m EXCEPT !.run = TRUE]
    ELSE IF ~m.run THEN m
    ELSE CASE o.op = "PUSH" -> [m EXCEPT !.stack = Append(@, o.arg)]
           [] o.op = "IF" -> Enter(m)
           [] o.op = "DROP" -> [m EXCEPT !.stack = Pop(m, 1)]
           [] o.op = "CLTV" -> IF LockTimeReached(m, tx) THEN m ELSE Stuck(m)
           [] o.op = "CHECKSIG" -> CheckSig(m)
           [] o.op = "CHECKMULTISIG" -> CheckMultisig(m)
\* The redeem script that comes with the input must be the one that was locked.
Unlocks(script_sig, script, tx) ==
    LET end == FoldLeft(LAMBDA m, o : StepOf(m, o, tx),
                        [stack |-> script_sig, run |-> TRUE, ok |-> TRUE], script)
    IN  end.ok /\ end.stack # <<>> /\ IsTrue(Top(end))
Sum(values) == FoldLeft(LAMBDA t, v : t + v, 0, values)
Value(outs) == FoldSet(LAMBDA u, t : t + u.value, 0, outs)
\* A transaction is final in the next block if its lock time is below that height.
Accepts(tx) ==
    /\ ToSet(tx.input) \subseteq utxo
    /\ tx.lock_time < height + 1
    /\ \A i \in DOMAIN tx.input : Unlocks(tx.script_sig[i], tx.input[i].script, tx)
    /\ Sum([i \in DOMAIN tx.output |-> tx.output[i].value]) <= Sum([i \in DOMAIN tx.input |-> tx.input[i].value])
send_raw_transaction(tx) == utxo' = (utxo \ ToSet(tx.input)) \cup ToSet(tx.output)

-----------------------------------------------------------------------------
\* The transactions of btcroutines.rs.  An output is its value and its script.
Out(value, script) == [value |-> value, script |-> script]
Imported(i) == Out(imports[i], get_p2pkh_pub_script(<<"import", "import2">>[i]))

Init ==
    /\ amount \in Amounts /\ imports \in Imports
    /\ height = 0 /\ lock_time = 0
    /\ state = [p \in Parties |-> "start"]
    /\ utxo = {Imported(i) : i \in DOMAIN imports}
    /\ mem = [p \in Parties |-> IF p = "bob" THEN [keys |-> {"b", "r", "x"}, lock |-> <<>>]
                                ELSE [keys |-> {"a"}, lock |-> <<>>]]

create_lock_transaction(recv_pk, pub_x, refund_pk, change_pk, fee, refund_time) ==
    LET inp_amount == Sum(imports) % WordSize
    IN  IF inp_amount < (amount + fee) % WordSize THEN <<>>
        ELSE <<[input |-> [i \in DOMAIN imports |-> Imported(i)],
                output |-> <<Out(amount, get_lock_pub_script(recv_pk, pub_x, refund_pk, refund_time)),
                             Out(inp_amount - amount - fee, get_p2pkh_pub_script(change_pk))>>,
                script_sig |-> [i \in DOMAIN imports |-> <<>>],
                sequence |-> FFFFFFFF, lock_time |-> 0]>>
create_spend_lock_transaction(recv_pk, input, amt, fee, time) ==
    IF input.value # amt THEN <<>>
    ELSE <<[input |-> <<input>>,
            output |-> <<Out((amt - fee + WordSize) % WordSize, get_p2pkh_pub_script(recv_pk))>>,
            script_sig |-> <<<<>>>>, sequence |-> IF time = 0 THEN FFFFFFFF ELSE 0, lock_time |-> time]>>
\* One key per input is needed; skeys.get(i).unwrap() panics.
sign_p2pkh_transaction(tx, skeys) ==
    IF Len(skeys) < Len(tx.input) THEN <<>>
    ELSE <<[tx EXCEPT !.script_sig = [i \in DOMAIN tx.input |-> <<Sig(skeys[i])>>]]>>
sign_lock_transaction_redeemer_Swapped(tx, sk, x) ==
    [tx EXCEPT !.script_sig[1] = <<Num(0), Sig(x), Sig(sk), Num(0)>>]
sign_lock_transaction_redeemer(tx, sk, x) ==
    [tx EXCEPT !.script_sig[1] = <<Num(0), Sig(sk), Sig(x), Num(0)>>]
sign_lock_transaction_refund(tx, sk) == [tx EXCEPT !.script_sig[1] = <<Sig(sk), Num(1)>>]

-----------------------------------------------------------------------------
Ends(p, how) == state' = [state EXCEPT ![p] = how]
\* locking_phase_swap_btc: the lock transaction is signed for the first input.
LockBtc ==
    /\ state["bob"] = "start"
    /\ height + Timelock < MaxHeight           \* bound: the lock time is reached
    /\ LET time == height + Timelock
           tx == create_lock_transaction("a", "x", "b", "r", BtcFee, time)
           signed == IF tx = <<>> THEN <<>> ELSE sign_p2pkh_transaction(tx[1], <<"import">>)
       IN  /\ lock_time' = time
           /\ \/ /\ signed = <<>>
                 /\ Ends("bob", IF tx = <<>> THEN "err" ELSE "panic")
                 /\ UNCHANGED <<utxo, mem>>
              \/ /\ signed # <<>>
                 /\ Accepts(signed[1]) /\ send_raw_transaction(signed[1])
                 /\ mem' = [mem EXCEPT !["bob"].lock = <<signed[1].output[1]>>]
                 /\ Ends("bob", "locked")
    /\ UNCHANGED <<amount, imports, height>>

\* locking_phase_swap_mw: the balance of the address Alice has computed herself.
VerifyLock ==
    /\ state["alice"] = "start" /\ state["bob"] # "start"
    /\ LET script == get_lock_pub_script("a", "x", "b", lock_time)
           balance == Value({u \in utxo : u.script = script})
       IN  IF balance # 0 /\ balance = amount
           THEN mem' = [mem EXCEPT !["alice"].lock = <<Out(amount, script)>>] /\ Ends("alice", "locked")
           ELSE UNCHANGED mem /\ Ends("alice", "err")
    /\ UNCHANGED <<amount, imports, height, lock_time, utxo>>

\* dcontract_mw_tx_alice yields x.
ExtractWitness ==
    /\ state["alice"] = "locked" /\ state["bob"] = "locked"
    /\ "x" \notin mem["alice"].keys
    /\ mem' = [mem EXCEPT !["alice"].keys = @ \cup {"x"}]
    /\ UNCHANGED <<amount, imports, height, lock_time, utxo, state>>

RedeemTx ==
    sign_lock_transaction_redeemer(
        create_spend_lock_transaction("a2", mem["alice"].lock[1], amount, BtcFee, 0)[1], "a", "x")
RefundTx ==
    sign_lock_transaction_refund(
        create_spend_lock_transaction("b2", mem["bob"].lock[1], amount, BtcFee, lock_time)[1], "b")
\* amount - fee may wrap (or panic, with overflow checks): nothing is published.
Publish(p, tx) ==
    /\ \/ Accepts(tx) /\ send_raw_transaction(tx) /\ Ends(p, "done")
       \/ ~Accepts(tx) /\ UNCHANGED utxo /\ Ends(p, "err")
    /\ UNCHANGED <<amount, imports, height, lock_time, mem>>
\* exec_phase_swap_mw and refund_phase_swap_btc (can_refund).
RedeemBtc ==
    /\ state["alice"] = "locked" /\ "x" \in mem["alice"].keys
    /\ Publish("alice", RedeemTx)
can_refund == height > lock_time
RefundBtc ==
    /\ state["bob"] = "locked" /\ can_refund
    /\ Publish("bob", RefundTx)

NewBlock ==
    /\ height < MaxHeight
    /\ height' = height + 1
    /\ UNCHANGED <<amount, imports, lock_time, mem, utxo, state>>

Next == LockBtc \/ VerifyLock \/ ExtractWitness \/ RedeemBtc \/ RefundBtc \/ NewBlock
Spec == Init /\ [][Next]_vars
\* Blocks keep coming, and Bob runs cancel when he may (weak fairness, written out).
FairSpec ==
    /\ Spec
    /\ WF_vars(NewBlock)
    /\ []<>~(state["bob"] = "locked" /\ can_refund) \/ []<><<RefundBtc>>_vars

-----------------------------------------------------------------------------
LockScript == get_lock_pub_script("a", "x", "b", lock_time)
LockOut == Out(amount, LockScript)

\* Types.
TypeOK ==
    /\ height \in 0 .. MaxHeight /\ lock_time \in Nat
    /\ \A u \in utxo : u.value \in 0 .. WordSize - 1
    /\ state \in [Parties -> {"start", "locked", "done", "err", "panic"}]
    /\ \A p \in Parties : mem[p].lock \in {<<>>, <<LockOut>>}

\* What a witness can be made of.
Items == {Sig("a"), Sig("b"), Sig("x"), Num(0), Num(1)}

\* The script of an output that is locked (get_lock_pub_script) opens for the
\* signatures of Alice's key and of x, in that order, and from the lock time on for
\* the refund key; for nothing else: every stack of up to four items is tried, with
\* lock times around the one agreed on and the sequence numbers that are used.
ScriptOpensRight ==
    LockOut \in utxo /\ height = lock_time =>
        \A n \in 1 .. 4 : \A stack \in [1 .. n -> Items], time \in {lock_time - 1, lock_time}, seq \in {0, FFFFFFFF} :
            Unlocks(stack, LockScript, [lock_time |-> time, sequence |-> seq])
                <=> \/ n = 4 /\ SubSeq(stack, 2, 4) = <<Sig("a"), Sig("x"), Num(0)>>
                    \/ /\ n >= 2 /\ stack[n - 1] = Sig("b") /\ IsTrue(stack[n])
                       /\ lock_time <= time /\ seq # FFFFFFFF

\* What both parties compute on their own fits together: as long as the lock output
\* is unspent, Alice's redeem transaction is accepted from the moment she has x, and
\* Bob's refund as soon as can_refund says so, provided that the amount covers the fee.
LockedIsMovable ==
    LockOut \in utxo /\ state["bob"] = "locked" /\ amount >= BtcFee =>
        /\ state["alice"] = "locked" => Accepts(RedeemTx)
        /\ can_refund => Accepts(RefundTx)

\* The lock output can be moved by the party entitled to it, and by nobody else.
LockOpensRight == ScriptOpensRight /\ LockedIsMovable

\* A coin that is locked does not stay locked.
BobLocked == LockOut \in utxo /\ state["bob"] = "locked"
Moved == LockOut \notin utxo
=============================================================================
