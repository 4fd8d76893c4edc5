------------------------------ MODULE SlateFlow ------------------------------
(***************************************************************************)
(* The wallet's transaction flows with their cryptography: what            *)
(* init_send_tx, receive_tx, finalize_tx, issue_invoice_tx and             *)
(* process_invoice_tx do to the slate, its keys, signatures and offset,    *)
(* with inputs locked early or late, with a payment proof or without, and  *)
(* between two wallets or from a wallet to itself.  Which coins are spent  *)
(* is the subject of CoinSelection, and what the wallet stores that of     *)
(* WalletTx; here a wallet has just the coins of one selection.            *)
(***************************************************************************)
EXTENDS SlateVersions

CONSTANTS
    Flows,          \* of {"send", "late", "invoice"}
    SelfSends,      \* subset of BOOLEAN: sender and receiver are the same wallet
    Proofs,         \* subset of BOOLEAN: the sender asks for a payment proof
    CoinValues,     \* sequences of values of the sender's coins
    Amount,
    Encodings       \* of {"json", "bin"}

FlowAssumption ==
    /\ Flows \subseteq {"send", "late", "invoice"}
    /\ SelfSends \subseteq BOOLEAN /\ Proofs \subseteq BOOLEAN
    /\ Amount \in Nat \ {0}

VARIABLES
    flow, self, proving, coins,
    net,        \* slates sent; any of them may arrive again
    ctx,        \* the private context each wallet has stored
    known,      \* keys of the outputs in each wallet's store
    log,        \* each wallet's log entries of this slate
    final,      \* the finalized slate
    chain,      \* transactions on the chain
    failed      \* operations that returned an Err

vars == <<flow, self, proving, coins, net, ctx, known, log, final, chain, failed>>

Wallets == {"A", "B"}
Sender == "A"
Receiver == IF self THEN "A" ELSE "B"
CoinKeys == <<"c1", "c2">>
ChangeKeys == <<"d1", "d2">>

Init ==
    /\ flow \in Flows
    /\ self \in SelfSends
    /\ proving \in (IF flow = "invoice" THEN {FALSE} ELSE Proofs)
    /\ coins \in CoinValues
    /\ net = {} /\ final = <<>> /\ chain = {} /\ failed = {}
    /\ ctx = [w \in Wallets |-> <<>>]
    /\ known = [w \in Wallets |-> {}]
    /\ log = [w \in Wallets |-> <<>>]

\* Selections of all coins with n change outputs (inputs_and_change).
Selection(n) ==
    LET fee == tx_fee(Len(coins), n + 1, 1)
        change == FoldLeft(+, 0, coins) - Amount - fee
        part == change \div n
    IN  [fee |-> fee, change |-> change,
         ins |-> {<<CoinKeys[i], coins[i]>> : i \in DOMAIN coins},
         outs |-> {<<ChangeKeys[i], IF i < n THEN part ELSE change - (n - 1) * part>> : i \in 1 .. n}]
Selections ==
    {sel \in {Selection(n) : n \in 0 .. 2} :
        IF sel.outs = {} THEN sel.change = 0 ELSE sel.change >= Cardinality(sel.outs)}
InputsOf(ids) == {Commitment(Secret(e[1]), e[2]) : e \in ids}
OutputsOf(ids) == {Output(Secret(e[1]), e[2]) : e \in ids}

NewContext(key, nonce, amount, fee, ins, outs) ==
    [key |-> Secret(key), nonce |-> Secret(nonce), ikey |-> Secret(key), inonce |-> Secret(nonce),
     ins |-> ins, outs |-> outs, amount |-> amount, fee |-> fee, late |-> FALSE, excess |-> <<>>]
new_tx_slate(is_invoice) ==
    [blank_with_kernel_features(2, is_invoice, 0, <<>>) EXCEPT !.amount = Amount]

\* ed25519 signatures of an address, here the wallet's name.
payment_proof_message(amount, excess, sender_address) == <<amount, excess, sender_address>>
create_payment_proof_signature(amount, excess, sender_address, w) ==
    [by |-> w, msg |-> payment_proof_message(amount, excess, sender_address)]
VerifiedBy(address, msg, sig) == sig = [by |-> address, msg |-> msg]

\* Whatever arrives of the slates in a state, and what is handed out.
Arrived(state) == {Sent(s, as)[1] : s \in {t \in net : t.state = state}, as \in Encodings}
Hand(s) == net' = net \cup {s}
EntriesOf(lg, type) == {i \in DOMAIN lg : lg[i].type = type}
NewEntry(type, fee, debited, credited, excess, proof) ==
    [type |-> type, fee |-> fee, debited |-> debited, credited |-> credited, excess |-> excess,
     proof |-> proof]
SumOf(ids) == AddUp(ids, LAMBDA e : e[2])

repopulate_tx(s, c, keys, update_fee) ==
    IF update_fee /\ c.fee = <<>> THEN <<>>
    ELSE LET mine == add_participant_info([s EXCEPT !.amount = c.amount,
                                              !.fee = IF update_fee THEN c.fee[1] ELSE @],
                                          c.key, c.nonce)
             added == add_transaction_elements(mine, InputsOf(c.ins),
                          OutputsOf({e \in c.outs : e[1] \in keys}))
         IN  IF added = <<>> THEN <<>> ELSE <<[added[1] EXCEPT !.tx[1].off = s.off]>>

\* The stored context of a wallet that pays its own invoice holds the keys of
\* both roles; the initiator's sign.
complete_tx(s, c) ==
    LET merged == c.ikey # c.key /\ c.inonce # c.nonce
        signed == fill_round_2(s, IF merged THEN c.ikey ELSE c.key, IF merged THEN c.inonce ELSE c.nonce)
    IN  IF signed = <<>> THEN <<>> ELSE finalize(signed[1])

-----------------------------------------------------------------------------
\* add_inputs_to_slate makes a transaction that compact drops again.
init_send_tx ==
    /\ flow \in {"send", "late"} /\ net = {}
    /\ \E sel \in Selections :
         LET late == flow = "late"
             own == NewContext("sk", "sn", Amount, <<sel.fee>>, IF late THEN {} ELSE sel.ins,
                               IF late THEN {} ELSE sel.outs)
             slate == [new_tx_slate(FALSE) EXCEPT !.fee = sel.fee,
                          !.proof = IF proving THEN <<[saddr |-> Sender, raddr |-> Receiver, rsig |-> <<>>]>>
                                    ELSE <<>>]
         IN  /\ ctx' = [ctx EXCEPT ![Sender] = <<[own EXCEPT !.late = late]>>]
             /\ Hand(compact(fill_round_1(slate, own.key, own.nonce)))
    /\ UNCHANGED <<flow, self, proving, coins, known, log, final, chain, failed>>

StoredProofInfo(p, ssig) == [raddr |-> p.raddr, rsig |-> p.rsig, saddr |-> Sender, ssig |-> ssig]
lock_tx_context(s, c, excess_override) ==
    NewEntry("TxSent", c.fee, SumOf(c.ins), SumOf(c.outs),
             IF excess_override # <<>> THEN excess_override[1] ELSE calc_excess(s),
             IF s.proof = <<>> THEN <<>> ELSE <<StoredProofInfo(s.proof[1], <<>>)>>)
\* The entry that tx_lock_outputs writes, if it does not fail.
LockEntry(s, c, keys) ==
    LET sl == IF s.tx # <<>> THEN <<s>>
              ELSE repopulate_tx([s EXCEPT !.tx = <<empty_transaction>>], c, keys, TRUE)
    IN  IF sl = <<>> THEN <<>>
        ELSE <<lock_tx_context(sl[1], c, IF Len(s.parts) = 1 THEN c.excess ELSE <<>>)>>
KeysOf(ids) == {e[1] : e \in ids}
\* The sender calls it once, with the slate it made or with the one it got back.
tx_lock_outputs ==
    /\ ctx[Sender] # <<>> /\ EntriesOf(log[Sender], "TxSent") = {}
    /\ ~ctx[Sender][1].late
    /\ \E s \in {t \in net : t.state \in {"Standard1", "Standard2", "Invoice2"}} :
         LET c == ctx[Sender][1]
             entry == LockEntry(s, c, known[Sender])
         IN  IF entry = <<>> THEN failed' = failed \cup {"tx_lock_outputs"} /\ UNCHANGED <<log, known>>
             ELSE /\ log' = [log EXCEPT ![Sender] = Append(@, entry[1])]
                  /\ known' = [known EXCEPT ![Sender] = @ \cup KeysOf(c.outs)]
                  /\ UNCHANGED failed
    /\ UNCHANGED <<flow, self, proving, coins, net, ctx, final, chain>>

\* build_recipient_output followed by fill_round_1.
WithOutput(s, c) ==
    LET added == add_transaction_elements(s, {}, OutputsOf(c.outs))
    IN  IF added = <<>> THEN <<>> ELSE <<fill_round_1(added[1], c.key, c.nonce)>>
ReceiverContext(s) ==
    NewContext("rk", "rn", s.amount, IF s.fee = 0 THEN <<>> ELSE <<s.fee>>, {}, {<<"o", s.amount>>})
Proved(s) ==
    IF s.proof = <<>> THEN s
    ELSE [s EXCEPT !.proof[1].rsig =
             <<create_payment_proof_signature(s.amount, calc_excess(s), s.proof[1].saddr, Receiver)>>]
\* The receiver does not store its context: after this step it is not needed.
receive_tx ==
    /\ EntriesOf(log[Receiver], "TxReceived") = {}
    /\ \E s \in Arrived("Standard1") :
         LET c == ReceiverContext(s)
             made == WithOutput([s EXCEPT !.tx = <<empty_transaction>>], c)
             signed == IF made = <<>> THEN <<>> ELSE fill_round_2(made[1], c.key, c.nonce)
             r == Proved(adjust_offset(signed[1], c))
         IN  IF signed = <<>> THEN failed' = failed \cup {"receive_tx"} /\ UNCHANGED <<net, log, known>>
             ELSE /\ Hand([remove_other_sigdata(r, c.nonce, c.key) EXCEPT
                              !.amount = 0, !.fee = 0, !.state = "Standard2"])
                  /\ log' = [log EXCEPT ![Receiver] = Append(@,
                                NewEntry("TxReceived", <<>>, 0, s.amount, calc_excess(r), <<>>))]
                  /\ known' = [known EXCEPT ![Receiver] = @ \cup {"o"}]
                  /\ UNCHANGED failed
    /\ UNCHANGED <<flow, self, proving, coins, ctx, final, chain>>

\* The first entry of the slate in the log must hold what was asked for.
verify_slate_payment_proof(w, lg, s) ==
    /\ lg # <<>>
    /\ lg[1].proof # <<>> => s.proof # <<>>
    /\ s.proof # <<>> =>
         /\ lg[1].proof # <<>>
         /\ s.proof[1].saddr = w
         /\ s.proof[1].raddr = lg[1].proof[1].raddr
         /\ s.proof[1].rsig # <<>>
         /\ VerifiedBy(s.proof[1].raddr, payment_proof_message(s.amount, calc_excess(s), w),
                       s.proof[1].rsig[1])
update_stored_tx_SameExcess(lg, s, is_invoiced) ==
    LET i == Min(EntriesOf(lg, IF is_invoiced THEN "TxReceived" ELSE "TxSent"))
    IN  [lg EXCEPT ![i].proof = IF s.proof = <<>> THEN @
                                ELSE <<StoredProofInfo(s.proof[1], <<create_payment_proof_signature(
                                           s.amount, calc_excess(s), s.proof[1].saddr, Sender)>>)>>]
update_stored_tx(lg, s, is_invoiced) ==
    LET i == Min(EntriesOf(lg, IF is_invoiced THEN "TxReceived" ELSE "TxSent"))
    IN  [lg EXCEPT ![i].excess = calc_excess(s),
                   ![i].proof = IF s.proof = <<>> THEN @
                                ELSE <<StoredProofInfo(s.proof[1], <<create_payment_proof_signature(
                                           s.amount, calc_excess(s), s.proof[1].saddr, Sender)>>)>>]
Finish(w, s, state, is_invoiced, lg) ==
    LET sl == [s EXCEPT !.state = state, !.amount = 0]
    IN  /\ log' = [log EXCEPT ![w] = update_stored_tx(lg, s, is_invoiced)]
        /\ ctx' = [ctx EXCEPT ![w] = <<>>]
        /\ final' = <<sl>>
        /\ Hand(sl)
        /\ UNCHANGED failed

\* A late-locked transaction gets its inputs and its log entry only now, and its
\* fee must be the one that was announced.
finalize_tx ==
    /\ ctx[Sender] # <<>> /\ flow # "invoice"
    /\ ctx[Sender][1].late \/ EntriesOf(log[Sender], "TxSent") # {}
    /\ \E s \in Arrived("Standard2"), sel \in Selections :
         LET old == ctx[Sender][1]
             c == IF old.late THEN [old EXCEPT !.ins = sel.ins, !.outs = sel.outs, !.late = FALSE] ELSE old
             keys == known[Sender] \cup KeysOf(IF old.late THEN c.outs ELSE {})
             lg == IF old.late THEN log[Sender] \o LockEntry(s, c, known[Sender]) ELSE log[Sender]
             filled == repopulate_tx(adjust_offset(s, c), c, keys, TRUE)
             done == IF filled = <<>> THEN <<>> ELSE complete_tx(filled[1], c)
         IN  /\ old.late => old.fee = <<sel.fee>>
             /\ known' = [known EXCEPT ![Sender] = keys]
             /\ IF done # <<>> /\ verify_slate_payment_proof(Sender, lg, done[1])
                THEN Finish(Sender, done[1], "Standard3", FALSE, lg)
                ELSE /\ failed' = failed \cup {"finalize_tx"}
                     /\ log' = [log EXCEPT ![Sender] = lg]
                     /\ ctx' = [ctx EXCEPT ![Sender] = <<c>>]
                     /\ UNCHANGED <<final, net>>
    /\ UNCHANGED <<flow, self, proving, coins, chain>>

-----------------------------------------------------------------------------
issue_invoice_tx ==
    /\ flow = "invoice" /\ net = {}
    /\ LET c == ReceiverContext(new_tx_slate(TRUE))
           made == WithOutput(new_tx_slate(TRUE), c)
       IN  /\ ctx' = [ctx EXCEPT ![Receiver] = <<c>>]
           /\ log' = [log EXCEPT ![Receiver] = <<NewEntry("TxReceived", <<>>, 0, Amount, Zero, <<>>)>>]
           /\ known' = [known EXCEPT ![Receiver] = {"o"}]
           /\ Hand(compact(made[1]))
    /\ UNCHANGED <<flow, self, proving, coins, final, chain, failed>>

\* A wallet that pays its own invoice finds the issuer's context and merges it.
Merged(c, old) ==
    IF old = <<>> THEN c
    ELSE [c EXCEPT !.ikey = old[1].ikey, !.inonce = old[1].inonce, !.fee = old[1].fee,
                   !.amount = old[1].amount, !.outs = @ \cup old[1].outs, !.ins = @ \cup old[1].ins]
process_invoice_tx ==
    /\ EntriesOf(log[Sender], "TxSent") = {}
    /\ self \/ ctx[Sender] = <<>>
    /\ ~(self /\ \E s \in net : s.state = "Invoice2")
    /\ \E s \in Arrived("Invoice1"), sel \in Selections :
         LET c == NewContext("sk", "sn", s.amount, <<sel.fee>>, sel.ins, sel.outs)
             added == add_transaction_elements([s EXCEPT !.tx = <<empty_transaction>>, !.fee = sel.fee],
                                               InputsOf(sel.ins), OutputsOf(sel.outs))
             signed == fill_round_2(fill_round_1(added[1], c.key, c.nonce), c.key, c.nonce)
             old == ctx[Sender]
             r == adjust_offset(signed[1], IF old = <<>> THEN c ELSE [c EXCEPT !.ins = {}, !.outs = {}])
             own == Merged([c EXCEPT !.excess = <<calc_excess(r)>>], old)
             filled == repopulate_tx(r, own, known[Sender], FALSE)
         IN  IF signed = <<>> \/ filled = <<>>
             THEN failed' = failed \cup {"process_invoice_tx"} /\ UNCHANGED <<ctx, net>>
             ELSE /\ ctx' = [ctx EXCEPT ![Sender] = <<own>>]
                  /\ Hand([remove_other_sigdata(filled[1], c.nonce, c.key) EXCEPT
                              !.amount = 0, !.state = "Invoice2"])
                  /\ UNCHANGED failed
    /\ UNCHANGED <<flow, self, proving, coins, known, log, final, chain>>

\* foreign::finalize_tx in the invoice's issuer.
foreign_finalize_tx ==
    /\ ctx[Receiver] # <<>>
    /\ \E s \in Arrived("Invoice2") :
         LET c == ctx[Receiver][1]
             filled == repopulate_tx(adjust_offset(s, c), [c EXCEPT !.key = c.ikey, !.nonce = c.inonce],
                                     known[Receiver], FALSE)
             done == IF filled = <<>> THEN <<>> ELSE complete_tx(filled[1], c)
         IN  IF done # <<>> THEN Finish(Receiver, done[1], "Invoice3", TRUE, log[Receiver])
             ELSE failed' = failed \cup {"foreign_finalize_tx"} /\ UNCHANGED <<log, ctx, final, net>>
    /\ UNCHANGED <<flow, self, proving, coins, known, chain>>

\* Anyone who has the final slate may post it.
post_tx ==
    /\ \E s \in Arrived("Standard3") \cup Arrived("Invoice3") :
         /\ s.tx # <<>> /\ Valid(s.tx[1])
         /\ chain' = chain \cup {s.tx[1]}
    /\ UNCHANGED <<flow, self, proving, coins, net, ctx, known, log, final, failed>>

Next ==
    \/ init_send_tx \/ tx_lock_outputs \/ receive_tx \/ finalize_tx
    \/ issue_invoice_tx \/ process_invoice_tx \/ foreign_finalize_tx \/ post_tx
Spec == Init /\ [][Next]_vars

-----------------------------------------------------------------------------
retrieve_payment_proof(e) ==
    IF e.proof = <<>> \/ e.proof[1].rsig = <<>> \/ e.proof[1].ssig = <<>> THEN <<>>
    ELSE <<[amount |-> IF e.credited >= e.debited THEN e.credited - e.debited
                       ELSE e.debited - e.credited - (IF e.fee = <<>> THEN 0 ELSE e.fee[1]),
            excess |-> e.excess, raddr |-> e.proof[1].raddr, rsig |-> e.proof[1].rsig[1],
            saddr |-> e.proof[1].saddr, ssig |-> e.proof[1].ssig[1]]>>
verify_payment_proof(p) ==
    LET msg == payment_proof_message(p.amount, p.excess, p.saddr)
    IN  /\ \E tx \in chain : tx.kernel[1].excess = p.excess
        /\ VerifiedBy(p.raddr, msg, p.rsig)
        /\ VerifiedBy(p.saddr, msg, p.ssig)

\* Types.  A slate on its way to the other party holds the data of its sender only,
\* a final one that of both, and neither shows an amount once the first reply is made.
TypeOK ==
    /\ \A s \in net :
         /\ s.state \in {"Standard1", "Standard2", "Standard3", "Invoice1", "Invoice2", "Invoice3"}
         /\ Len(s.parts) = (IF s.state \in {"Standard3", "Invoice3"} THEN 2 ELSE 1)
         /\ s.amount = (IF s.state \in {"Standard1", "Invoice1"} THEN Amount ELSE 0)
         /\ s.off \in [Secrets -> Int] /\ s.fee \in Nat
    /\ \A w \in Wallets : Len(ctx[w]) <= 1 /\ known[w] \subseteq {"o"} \cup ToSet(ChangeKeys)
    /\ \A w \in Wallets, type \in {"TxSent", "TxReceived"} : Cardinality(EntriesOf(log[w], type)) <= 1

\* Once two wallets that follow the protocol have started, no operation of
\* either fails, whether the slate travels as JSON or in binary, arrives twice,
\* and whenever the inputs are locked.  The one exception is a payment proof that
\* a wallet asks of itself, where verify_slate_payment_proof may look into the
\* entry of the receipt.
NothingFails == failed # {} => self /\ proving

\* The offset, the excess and the keys of all steps add up: the final slate holds a
\* transaction that a node accepts, and it pays the receiver the amount and the
\* sender the rest.
FinalIsValid ==
    final # <<>> =>
        LET tx == final[1].tx[1]
            change == tx.outs \ {Output(Secret("o"), Amount)}
        IN  /\ Valid(tx)
            /\ Output(Secret("o"), Amount) \in tx.outs
            /\ AddUp(change, LAMBDA o : o.com.value)
                   = FoldLeft(+, 0, coins) - Amount - tx.kernel[1].features.fee
            /\ tx.kernel[1].features.fee >= tx_fee(Cardinality(tx.ins), Cardinality(tx.outs), 1)

\* The final transaction can be rebuilt from the slate in either encoding.
FinalArrives == final # <<>> => \A as \in Encodings : Sent(final[1], as)[1].tx = final[1].tx

\* When the transaction is on the chain, the sender's log yields a payment proof of
\* exactly the amount, and it verifies.
ProofOfPayment ==
    \A i \in EntriesOf(log[Sender], "TxSent") :
        proving /\ chain # {} =>
            LET p == retrieve_payment_proof(log[Sender][i])
            IN  p # <<>> /\ p[1].amount = Amount /\ verify_payment_proof(p[1])

\* When the transaction is on the chain, every log entry of it, the payer's and the
\* receiver's, holds the excess of the kernel by which it will be looked up, though
\* the slates they were written from held the keys of one party only.
EntriesFindKernel ==
    \A tx \in chain, w \in Wallets : \A i \in DOMAIN log[w] :
        log[w][i].excess = tx.kernel[1].excess
=============================================================================
