-------------------------------- MODULE MwTx --------------------------------
(***************************************************************************)
(* The Mimblewimble side of a swap with its cryptography: the protocols of *)
(* src/grin/grin_tx.rs as the two parties of src/swap/protocol.rs run them *)
(* one after the other.  "mw" owns Grin coins: it funds the shared output  *)
(* with "btc", gets the time-locked refund before it publishes the funding *)
(* transaction, and later signs the contract transaction, from which it    *)
(* learns x.  A step is what a party does between two messages; the lines  *)
(* a party sends in a row (slate and proof context) are one message.       *)
(*                                                                         *)
(* protocol = "build" is the plain payment (dbuildmw_tx), of which the     *)
(* swap itself makes no use.                                               *)
(***************************************************************************)
EXTENDS GrinCore

CONSTANTS
    Protocols,      \* of {"swap", "build"}
    Amounts,        \* agreed Grin amounts, in units of the base fee
    InputValues,    \* sequences of values of the imported coins
    WordSize,       \* the range of a u64
    Timelock,       \* blocks until the refund is possible
    Margin,         \* blocks that must be left for the execution
    MaxHeight,
    Faults          \* processes may be killed

MwAssumption ==
    /\ Protocols \subseteq {"swap", "build"}
    /\ Amounts \subseteq Nat
    /\ Faults \in BOOLEAN

VARIABLES
    protocol, amount, inputs,
    pc,         \* what each party does next, or "dead"
    chan,       \* messages under way to each party
    mem,        \* what each party remembers between its steps
    ledger,     \* transactions accepted by the Grin node
    height,
    sigs        \* signatures of btc that mw has seen

vars == <<protocol, amount, inputs, pc, chan, mem, ledger, height, sigs>>

Party == {"mw", "btc"}
Other(p) == IF p = "mw" THEN "btc" ELSE "mw"
InputKeys == <<"in1", "in2">>
InputCoins == [i \in DOMAIN inputs |-> MWCoin(Commitment(Secret(InputKeys[i]), inputs[i]),
                                              Secret(InputKeys[i]), inputs[i])]
Nothing == [shared |-> <<>>, change |-> <<>>, coin |-> <<>>, fund |-> <<>>, refund |-> <<>>,
            contract |-> <<>>, slate |-> <<>>, sig |-> <<>>, x |-> <<>>]

\* listen refuses to start with less than the amount; it does not count the fee.
Imported == FoldLeft(LAMBDA t, v : t + v, 0, inputs)
Init ==
    /\ protocol \in Protocols
    /\ amount \in Amounts
    /\ inputs \in InputValues
    /\ Imported >= amount
    /\ pc = [p \in Party |-> IF protocol = "build" THEN "build" ELSE "out"]
    /\ chan = [p \in Party |-> <<>>]
    /\ mem = [p \in Party |-> Nothing]
    /\ ledger = {}
    /\ height = 0
    /\ sigs = {}

lock_height == Timelock
\* value - fee in u64: a build with overflow checks panics, another one wraps.
MinusFee(value) == (value - estimate_fees(1, 1, 1)) % WordSize

-----------------------------------------------------------------------------
\* The message a party waits for; serde_json fails on nothing the other side sends.
Msg(p) == Head(chan[p])
Received(p) == Sent(Msg(p).slate, "json")[1]
Message(slate, ctx) == [slate |-> slate, ctx |-> ctx]
Seen(s) == UNION {ToSet(s.parts[i].sig) : i \in DOMAIN s.parts}

\* p has come to now, and receives there.
At(p, now) == pc[p] = now
Receives(p, now) == At(p, now) /\ chan[p] # <<>>
\* A step of p: it takes the message it waits for (if any), computes, and goes on
\* to next with memory m and the messages out, or dies if result is <<>>.
Step(p, takes, result, next, m, out) ==
    /\ pc' = [pc EXCEPT ![p] = IF result = <<>> THEN "dead" ELSE next]
    /\ mem' = [mem EXCEPT ![p] = IF result = <<>> THEN @ ELSE m]
    /\ chan' = [chan EXCEPT ![p] = IF takes THEN Tail(@) ELSE @,
                            ![Other(p)] = IF result = <<>> THEN @ ELSE @ \o out]
    /\ sigs' = IF p = "mw" /\ takes THEN sigs \cup Seen(Msg(p).slate) ELSE sigs
    /\ UNCHANGED <<protocol, amount, inputs, height>>

SpendNames == [change |-> "change", nonce |-> "n1", offset |-> "off1"]
out_spend == spend_coins(InputCoins, amount, 0, 2, 3, SpendNames)

\* dshared_out_mw_tx_alice up to the first receive_msg.
shared_out_alice_1 ==
    /\ At("mw", "out")
    /\ \E r \in {IF out_spend = <<>> THEN <<>>
                ELSE drecv_coins_r1(out_spend[1].slate, amount, Secret("kA"), Secret("pA"), Secret("n2"))} :
           /\ Step("mw", FALSE, r, "out3", [mem["mw"] EXCEPT !.change = out_spend[1].change_coin],
                   <<Message(r[1].slate, <<r[1].prf_ctx>>)>>)
           /\ UNCHANGED ledger
shared_out_bob ==
    /\ Receives("btc", "out")
    /\ \E r \in {drecv_coins_r2(Received("btc"), amount, Msg("btc").ctx[1],
                               Secret("kB"), Secret("pB"), Secret("n3"))} :
           /\ Step("btc", TRUE, r, "refund1", [mem["btc"] EXCEPT !.shared = <<r[1].output_coin>>],
                   <<Message(r[1].slate, <<r[1].prf_ctx>>)>>)
           /\ UNCHANGED ledger
\* The final transaction goes to btc.  Back in locking_phase_swap_mw, printing
\* the change coin panics if there is none.
shared_out_alice_3 ==
    /\ Receives("mw", "out3")
    /\ \E r3 \in {drecv_coins_r3(Received("mw"), Msg("mw").ctx[1], Secret("kA"), Secret("pA"), Secret("n2"))} :
       \E fin \in {IF r3 = <<>> THEN <<>>
                  ELSE fin_tx(r3[1].slate, out_spend[1].sig_key, out_spend[1].sig_nonce, TRUE, <<>>, <<>>)} :
           /\ Step("mw", TRUE, fin, IF mem["mw"].change = <<>> THEN "dead" ELSE "refund2",
                   [mem["mw"] EXCEPT !.shared = <<r3[1].output_coin>>, !.fund = fin[1].tx],
                   <<Message(fin[1], <<>>)>>)
           /\ UNCHANGED ledger

\* dshared_inp_mw_tx with btc as Alice and mw as Bob.
RefundNames == [change |-> "unused", nonce |-> "n4", offset |-> "off2"]
refund_spend(coin) == spend_coins(<<coin>>, MinusFee(amount), lock_height, 1, 3, RefundNames)
shared_inp_alice_1 ==
    /\ Receives("btc", "refund1")
    /\ \E r \in {refund_spend(mem["btc"].shared[1])} :
           /\ Step("btc", TRUE, r, "refund3",
                   [mem["btc"] EXCEPT !.fund = Received("btc").tx], <<Message(r[1].slate, <<>>)>>)
           /\ UNCHANGED ledger
shared_inp_bob ==
    /\ Receives("mw", "refund2")
    /\ \E d \in {d_spend_coins(mem["mw"].shared[1], Received("mw"), MinusFee(amount), lock_height,
                              Secret("n5"))} :
       \E r \in {IF d = <<>> THEN <<>>
                ELSE recv_coins(d[1].slate, MinusFee(amount), Secret("refund"), Secret("n6"))} :
       \E f \in {IF r = <<>> THEN <<>>
                ELSE fin_tx(r[1].slate, d[1].sig_key, d[1].sig_nonce, FALSE, <<>>, <<>>)} :
           /\ Step("mw", TRUE, f, "refund4", [mem["mw"] EXCEPT !.coin = <<r[1].output_coin>>],
                   <<Message(f[1], <<>>)>>)
           /\ UNCHANGED ledger
\* update_kernel restores the lock height that the message does not carry over.
shared_inp_alice_3 ==
    /\ Receives("btc", "refund3")
    /\ \E u \in {update_kernel(Received("btc"))} :
       \E f \in {fin_tx(u[1], refund_spend(mem["btc"].shared[1])[1].sig_key,
                       refund_spend(mem["btc"].shared[1])[1].sig_nonce, TRUE, <<>>, <<>>)} :
           /\ Step("btc", TRUE, f, "exec2", [mem["btc"] EXCEPT !.refund = f[1].tx],
                   <<Message(f[1], <<>>)>>)
           /\ UNCHANGED ledger
Accepted(tx) ==
    /\ Valid(tx)
    /\ tx.kernel[1].features.kind = 2 => tx.kernel[1].features.lock <= height
    /\ \A t \in ledger : t.ins \cap tx.ins = {}
\* The refund transaction is complete before the funding transaction is pushed.
shared_inp_bob_final ==
    /\ Receives("mw", "refund4")
    /\ \E u \in {update_kernel(Received("mw"))} :
       \E f \in {finalize(u[1])} :
           /\ Step("mw", TRUE, f, "exec1", [mem["mw"] EXCEPT !.refund = f[1].tx], <<>>)
           /\ ledger' = IF f # <<>> /\ Accepted(mem["mw"].fund[1])
                        THEN ledger \cup ToSet(mem["mw"].fund) ELSE ledger

\* dcontract_mw_tx, after both sides have found enough time left.
EnoughTime == height + Margin <= lock_height
NotEnoughTime(p) ==
    /\ pc[p] = IF p = "mw" THEN "exec1" ELSE "exec2"
    /\ ~EnoughTime
    /\ pc' = [pc EXCEPT ![p] = "dead"]
    /\ UNCHANGED <<protocol, amount, inputs, chan, mem, ledger, height, sigs>>
ContractNames == [change |-> "unused", nonce |-> "n7", offset |-> "off3"]
contract_spend(coin) == spend_coins(<<coin>>, MinusFee(amount), 0, 1, 3, ContractNames)
contract_alice_1 ==
    /\ EnoughTime /\ At("mw", "exec1")
    /\ \E r \in {contract_spend(mem["mw"].shared[1])} :
           /\ Step("mw", FALSE, r, "exec3", mem["mw"], <<Message(r[1].slate, <<>>)>>)
           /\ UNCHANGED ledger
contract_bob_1 ==
    /\ EnoughTime /\ Receives("btc", "exec2")
    /\ \E d \in {d_spend_coins(mem["btc"].shared[1], Received("btc"), MinusFee(amount), 0, Secret("n8"))} :
       \E r \in {IF d = <<>> THEN <<>>
                ELSE apt_recv_coins(d[1].slate, MinusFee(amount), Secret("x"), Secret("swapped"), Secret("n9"))} :
           /\ Step("btc", TRUE, r, "exec4",
                   [mem["btc"] EXCEPT !.sig = r[1].prt_sig, !.coin = <<r[1].output_coin>>],
                   <<Message(r[1].slate, <<>>)>>)
           /\ UNCHANGED ledger
contract_alice_3 ==
    /\ Receives("mw", "exec3")
    /\ \E s \in {Received("mw")} :
       \E spend \in {contract_spend(mem["mw"].shared[1])[1]} :
       \E f \in {fin_tx(s, spend.sig_key, spend.sig_nonce, FALSE, <<Secret("x")>>, <<>>)} :
           /\ Step("mw", TRUE, f, "exec5", [mem["mw"] EXCEPT !.sig = s.parts[3].sig],
                   <<Message(f[1], <<>>)>>)
           /\ UNCHANGED ledger
\* btc's own share of the key is the negative of its share of the shared coin.
contract_final(fin) ==
    fin_tx(Received("btc"), Minus(Zero, mem["btc"].shared[1].key), Secret("n8"), fin, <<>>, mem["btc"].sig)
contract_bob_2_Silent ==
    /\ Receives("btc", "exec4")
    /\ \E f \in {contract_final(TRUE)} :
           /\ Step("btc", TRUE, f, "push", [mem["btc"] EXCEPT !.contract = f[1].tx], <<>>)
           /\ UNCHANGED ledger
contract_bob_2 ==
    /\ Receives("btc", "exec4")
    /\ \E f \in {contract_final(TRUE)} :
           /\ Step("btc", TRUE, f, "push", [mem["btc"] EXCEPT !.contract = f[1].tx],
                   <<Message(f[1], <<>>)>>)
           /\ UNCHANGED ledger
contract_push ==
    /\ pc["btc"] = "push"
    /\ pc' = [pc EXCEPT !["btc"] = "done"]
    /\ ledger' = IF Accepted(mem["btc"].contract[1]) THEN ledger \cup ToSet(mem["btc"].contract) ELSE ledger
    /\ UNCHANGED <<protocol, amount, inputs, chan, mem, height, sigs>>
contract_alice_5 ==
    /\ Receives("mw", "exec5")
    /\ LET s == Received("mw")
       IN  /\ Step("mw", TRUE, <<s>>, "done",
                   [mem["mw"] EXCEPT !.contract = s.tx,
                        !.x = <<ext_witness(s.parts[3].sig[1], mem["mw"].sig[1])>>], <<>>)
           /\ UNCHANGED ledger

-----------------------------------------------------------------------------
\* dbuildmw_tx_alice and dbuild_mw_tx_bob.
build_spend == spend_coins(InputCoins, amount, 0, 2, 2, SpendNames)
dbuildmw_alice_1 ==
    /\ At("mw", "build")
    /\ Step("mw", FALSE, build_spend, "build3", mem["mw"], <<Message(build_spend[1].slate, <<>>)>>)
    /\ UNCHANGED ledger
dbuild_mw_tx_bob ==
    /\ Receives("btc", "build")
    /\ \E r \in {recv_coins(Received("btc"), amount, Secret("kB"), Secret("n3"))} :
           /\ Step("btc", TRUE, r, "build4", [mem["btc"] EXCEPT !.coin = <<r[1].output_coin>>],
                   <<Message(r[1].slate, <<>>)>>)
           /\ UNCHANGED ledger
dbuildmw_alice_3 ==
    /\ Receives("mw", "build3")
    /\ \E f \in {fin_tx(Received("mw"), build_spend[1].sig_key, build_spend[1].sig_nonce, TRUE, <<>>, <<>>)} :
           /\ Step("mw", TRUE, f, "done", [mem["mw"] EXCEPT !.fund = f[1].tx],
                   <<Message(f[1], <<>>)>>)
           /\ UNCHANGED ledger
dbuild_mw_tx_bob_final ==
    /\ Receives("btc", "build4")
    /\ Step("btc", TRUE, chan["btc"], "done", [mem["btc"] EXCEPT !.fund = Received("btc").tx], <<>>)
    /\ UNCHANGED ledger

-----------------------------------------------------------------------------
\* refund_phase_swap_mw: can_refund, then the stored transaction.
refund_phase_swap_mw ==
    /\ height > lock_height
    /\ mem["mw"].refund # <<>>
    /\ Accepted(mem["mw"].refund[1])
    /\ ledger' = ledger \cup ToSet(mem["mw"].refund)
    /\ UNCHANGED <<protocol, amount, inputs, pc, chan, mem, height, sigs>>
NewBlock ==
    /\ height < MaxHeight /\ protocol = "swap"
    /\ height' = height + 1
    /\ UNCHANGED <<protocol, amount, inputs, pc, chan, mem, ledger, sigs>>
Waits == [mw |-> {"out3", "refund2", "refund4", "exec3", "exec5", "build3"},
          btc |-> {"out", "refund1", "refund3", "exec2", "exec4", "build", "build4"}]
EndOfStream(p) ==
    /\ pc[Other(p)] = "dead" /\ pc[p] \in Waits[p] /\ chan[p] = <<>>
    /\ pc' = [pc EXCEPT ![p] = "dead"]
    /\ UNCHANGED <<protocol, amount, inputs, chan, mem, ledger, height, sigs>>
Crash(p) ==
    /\ Faults /\ pc[p] \notin {"dead", "done"}
    /\ pc' = [pc EXCEPT ![p] = "dead"]
    /\ UNCHANGED <<protocol, amount, inputs, chan, mem, ledger, height, sigs>>

MwStep ==
    \/ shared_out_alice_1 \/ shared_out_alice_3 \/ shared_inp_bob \/ shared_inp_bob_final
    \/ contract_alice_1 \/ contract_alice_3 \/ contract_alice_5
    \/ dbuildmw_alice_1 \/ dbuildmw_alice_3
BtcStep ==
    \/ shared_out_bob \/ shared_inp_alice_1 \/ shared_inp_alice_3
    \/ contract_bob_1 \/ contract_bob_2 \/ contract_push
    \/ dbuild_mw_tx_bob \/ dbuild_mw_tx_bob_final
Next ==
    \/ MwStep \/ BtcStep \/ refund_phase_swap_mw \/ NewBlock
    \/ \E p \in Party : NotEnoughTime(p) \/ EndOfStream(p) \/ Crash(p)
Spec == Init /\ [][Next]_vars
\* Both parties keep going while they can: weak fairness of a party's steps, with
\* the condition under which it has one written out.
PartyStep(p) == (IF p = "mw" THEN MwStep ELSE BtcStep) \/ NotEnoughTime(p) \/ EndOfStream(p)
Due(p) ==
    /\ pc[p] \notin {"done", "dead"}
    /\ \/ pc[p] \notin Waits[p] \/ chan[p] # <<>> \/ pc[Other(p)] = "dead"
       \/ pc[p] = "exec2" /\ ~EnoughTime
FairSpec == Spec /\ \A p \in Party : []<>~Due(p) \/ []<><<PartyStep(p)>>_vars

-----------------------------------------------------------------------------
Options(S) == {<<>>} \cup {<<e>> : e \in S}
\* The messages and what the parties remember have the shapes the code gives them.
TypeOK ==
    /\ pc \in [Party -> {"out", "out3", "refund1", "refund2", "refund3", "refund4", "exec1", "exec2",
                         "exec3", "exec4", "exec5", "push", "build", "build3", "build4", "done", "dead"}]
    /\ \A p \in Party : Len(chan[p]) <= 1 /\ \A i \in DOMAIN chan[p] : Len(chan[p][i].ctx) <= 1
    /\ \A p \in Party : mem[p].x \in Options({Secret("x")})
    /\ height \in 0 .. MaxHeight

\* The funding transaction is published only by a party that holds a refund
\* which is valid, spends the shared output, pays the amount less the fee to a
\* key of its own, and becomes valid at the agreed height.
FundingBacked ==
    \A t \in ledger : ToSet(mem["mw"].fund) = {t} =>
        /\ mem["mw"].refund # <<>>
        /\ LET r == mem["mw"].refund[1]
           IN  /\ Valid(r)
               /\ r.ins = {mem["mw"].shared[1].com}
               /\ r.ins \subseteq {o.com : o \in t.outs}
               /\ r.outs = {Output(Secret("refund"), amount - tx_fee(1, 1, 1))}
               /\ r.kernel[1].features = [kind |-> 2, fee |-> tx_fee(1, 1, 1), lock |-> lock_height]

\* What the imported coins and the amount are too small for.
Short ==
    \/ Imported < amount + tx_fee(Len(inputs), 2, 1)
    \/ protocol = "swap" /\ Imported = amount + tx_fee(Len(inputs), 2, 1)
    \/ protocol = "swap" /\ amount <= tx_fee(1, 1, 1)
    \/ amount = 0

\* The parties of a swap fail only for a lack of funds: the inputs do not leave
\* any change after the funding fee, or the amount does not exceed the fee of
\* the transaction that spends the shared output; or for a lack of time.
FailsOnlyIfShort == (\E p \in Party : pc[p] = "dead") => Short \/ ~EnoughTime

\* x follows from two signatures under the same nonce and challenge.
Exposed == \E a, b \in sigs : /\ a.key = b.key /\ a.nonce = b.nonce /\ a.challenge = b.challenge
                              /\ Minus(a.lin, b.lin) = Secret("x")

\* mw can compute x from the signatures btc has given away (contract_bob_2)
\* only once btc has a complete contract transaction it can publish.
WitnessForContract ==
    Exposed => /\ mem["btc"].contract # <<>>
               /\ Valid(mem["btc"].contract[1])
               /\ mem["btc"].contract[1].outs = {Output(Secret("swapped"), amount - tx_fee(1, 1, 1))}

\* When mw has signed the contract, publishing it costs btc its secret: the final
\* slate is on its way to mw, or mw has x.
ContractPays ==
    \A t \in ledger : t \in ToSet(mem["btc"].contract) =>
        \/ pc["mw"] = "dead"
        \/ chan["mw"] # <<>> /\ \E a \in Seen(chan["mw"][1].slate) :
               ext_witness(a, mem["mw"].sig[1]) = Secret("x")
        \/ mem["mw"].x = <<Secret("x")>>

\* Neither party can lose by the three transactions, at whatever message they stop.
ExchangeIsFair == FundingBacked /\ WitnessForContract /\ ContractPays

\* The transaction the other side rebuilds from a final slate is the transaction
\* that was sent.
FinalArrives ==
    /\ mem["mw"].fund # <<>> /\ mem["btc"].fund # <<>> => mem["mw"].fund = mem["btc"].fund
    /\ mem["mw"].contract # <<>> => mem["mw"].contract = mem["btc"].contract

=============================================================================
