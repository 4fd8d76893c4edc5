-------------------------------- MODULE Slate --------------------------------
(***************************************************************************)
(* The interactive transaction (libwallet/src/slate.rs): what the methods  *)
(* of Slate do to it, as operators on records.  The elliptic curve is      *)
(* replaced by its algebra.  A secret key is a linear form over the        *)
(* independent scalars that were drawn (Secrets); its public key is        *)
(* represented by the same form, and a commitment by its blinding factor   *)
(* and its value.  An equation of points holds for the forms exactly if it *)
(* holds whatever scalars are drawn.                                       *)
(*                                                                         *)
(* An Option is a sequence of length 0 or 1.  An operation that can fail   *)
(* returns such an Option: <<>> stands for its Err and for its panics.     *)
(*                                                                         *)
(* A definition named after another one with a suffix is a faulty variant  *)
(* that stands for a bug in it.                                            *)
(***************************************************************************)
EXTENDS Integers, SequencesExt

CONSTANT Secrets        \* names of the scalars drawn at random

SecretsAssumption == Secrets # {}

Zero == [a \in Secrets |-> 0]
Secret(a) == [Zero EXCEPT ![a] = 1]
Plus(f, g) == [a \in Secrets |-> f[a] + g[a]]
Minus(f, g) == [a \in Secrets |-> f[a] - g[a]]
Total(forms) == FoldLeft(Plus, Zero, forms)
SumOver(S, form(_)) == FoldLeft(LAMBDA t, e : Plus(t, form(e)), Zero, SetToSeq(S))
AddUp(S, num(_)) == FoldLeft(LAMBDA t, e : t + num(e), 0, SetToSeq(S))

\* secp: Pedersen commitments and range proofs.
Commitment(blind, value) == [blind |-> blind, value |-> value]
bullet_proof(blind, value) == Commitment(blind, value)
verify_bullet_proof(out) == out.proof = out.com /\ out.com.value >= 0
Output(blind, value) == [com |-> Commitment(blind, value), proof |-> bullet_proof(blind, value)]

\* libtx::tx_fee in units of the base fee per unit of weight.
tx_fee(inputs, outputs, kernels) == inputs + 21 * outputs + 3 * kernels

-----------------------------------------------------------------------------
\* aggsig: s = nonce + extra + e * key, where e is the hash of the sum of all
\* nonces, the sum of all keys and the message.  lin and key are the two parts
\* of s, challenge stands for e, and nonce for the point sent along.
sign_single(key, nonce, extra, nonces, keys, msg) ==
    [nonce |-> nonce, lin |-> Plus(nonce, extra), key |-> key, challenge |-> <<nonces, keys, msg>>]
verify_single(sig, nonces, key, keys, extra, msg) ==
    /\ sig.challenge = <<nonces, keys, msg>>
    /\ sig.key = key
    /\ sig.lin = Plus(sig.nonce, extra)
add_signatures(sigs, nonces) ==
    [nonce |-> nonces,
     lin |-> Total([i \in DOMAIN sigs |-> sigs[i].lin]),
     key |-> Total([i \in DOMAIN sigs |-> sigs[i].key]),
     challenge |-> sigs[1].challenge]

-----------------------------------------------------------------------------
empty_transaction == [ins |-> {}, outs |-> {}, kernel |-> <<>>, off |-> Zero]

blank_with_kernel_features(num_participants, is_invoice, kernel_feat_param, lock_height_param) ==
    LET feat == IF kernel_feat_param > 3 THEN 0 ELSE kernel_feat_param
    IN  [np |-> IF num_participants = 0 THEN 2 ELSE num_participants,
         state |-> IF is_invoice THEN "Invoice1" ELSE "Standard1",
         tx |-> <<empty_transaction>>,
         amount |-> 0, fee |-> 0, ttl |-> 0,
         feat |-> feat,
         args |-> IF feat \in {2, 3} THEN lock_height_param ELSE <<>>,
         off |-> Zero, parts |-> <<>>, proof |-> <<>>]

\* NRDRelativeHeight::new accepts 1 .. WEEK_HEIGHT.
WeekHeight == 10080
kernel_features(s) ==
    IF s.feat = 0 THEN <<[kind |-> 0, fee |-> s.fee, lock |-> 0]>>
    ELSE IF \/ s.feat = 2 /\ s.args # <<>>
            \/ s.feat = 3 /\ s.args # <<>> /\ s.args[1] \in 1 .. WeekHeight
         THEN <<[kind |-> s.feat, fee |-> s.fee, lock |-> s.args[1]]>>
         ELSE <<>>

\* The kernel that replaces the old one has no excess and no signature.
update_kernel(s) ==
    IF s.tx = <<>> \/ kernel_features(s) = <<>> THEN <<>>
    ELSE <<[s EXCEPT !.tx[1].kernel =
               <<[features |-> kernel_features(s)[1], excess |-> Zero, sig |-> <<>>]>>]>>

add_transaction_elements(s, ins, outs) ==
    LET u == update_kernel(s)
    IN  IF u = <<>> THEN <<>>
        ELSE <<[u[1] EXCEPT !.tx[1].ins = @ \cup ins, !.tx[1].outs = @ \cup outs]>>

Nonces(s) == [i \in DOMAIN s.parts |-> s.parts[i].nonce]
Blinds(s) == [i \in DOMAIN s.parts |-> s.parts[i].blind]
pub_nonce_sum(s) == Total(Nonces(s))
pub_blind_sum(s) == Total(Blinds(s))
calc_excess(s) == pub_blind_sum(s)
part_sigs(s) == FlattenSeq([i \in DOMAIN s.parts |-> s.parts[i].sig])

Mine(part, key, nonce) == part.blind = key /\ part.nonce = nonce
\* An entry of mine that is already there is replaced, and its signature kept.
add_participant_info(s, key, nonce) ==
    LET old == SelectSeq(s.parts, LAMBDA p : Mine(p, key, nonce))
        sig == FlattenSeq([i \in DOMAIN old |-> old[i].sig])
    IN  [s EXCEPT !.parts = Append(SelectSeq(s.parts, LAMBDA p : ~Mine(p, key, nonce)),
             [blind |-> key, nonce |-> nonce, sig |-> SubSeq(sig, 1, IF sig = <<>> THEN 0 ELSE 1)])]
fill_round_1(s, key, nonce) == add_participant_info(s, key, nonce)

remove_other_sigdata(s, nonce, key) ==
    [s EXCEPT !.parts = SelectSeq(s.parts, LAMBDA p : Mine(p, key, nonce))]

verify_part_sigs(s) ==
    \A i \in DOMAIN s.parts : s.parts[i].sig # <<>> =>
        /\ kernel_features(s) # <<>>
        /\ verify_single(s.parts[i].sig[1], pub_nonce_sum(s), s.parts[i].blind, pub_blind_sum(s),
                         Zero, kernel_features(s)[1])

\* participant_data[i] for the first i < num_participants with my keys; the
\* index is out of bounds if there are fewer entries and none is mine.
Entry(s, key, nonce) == {i \in 1 .. s.np : i <= Len(s.parts) /\ Mine(s.parts[i], key, nonce)}
PutSignature(s, key, nonce, sig) ==
    IF Entry(s, key, nonce) # {}
    THEN <<[s EXCEPT !.parts[Min(Entry(s, key, nonce))].sig = <<sig>>]>>
    ELSE IF Len(s.parts) < s.np THEN <<>> ELSE <<s>>

fill_round_2(s, key, nonce) ==
    IF ~verify_part_sigs(s) \/ kernel_features(s) = <<>> \/ s.parts = <<>> THEN <<>>
    ELSE PutSignature(s, key, nonce,
             sign_single(key, nonce, Zero, pub_nonce_sum(s), pub_blind_sum(s), kernel_features(s)[1]))

finalize_signature(s) ==
    LET sig == add_signatures(part_sigs(s), pub_nonce_sum(s))
    IN  IF /\ part_sigs(s) # <<>> /\ verify_part_sigs(s)
           /\ verify_single(sig, pub_nonce_sum(s), pub_blind_sum(s), pub_blind_sum(s),
                            Zero, kernel_features(s)[1])
        THEN <<sig>> ELSE <<>>

check_fees(s) ==
    LET tx == s.tx[1]
        fee == tx_fee(Cardinality(tx.ins), Cardinality(tx.outs), Len(tx.kernel))
    IN  /\ tx.kernel # <<>>
        /\ fee <= tx.kernel[1].features.fee
        /\ fee <= s.amount + s.fee

\* core::Transaction::validate: the signature covers the kernel's features, the
\* range proofs hold, blinding factors and values balance.
KernelVerifies(k) ==
    /\ k.sig # <<>>
    /\ verify_single(k.sig[1], k.sig[1].nonce, k.excess, k.excess, Zero, k.features)
Balanced(tx) ==
    LET coms(S) == {o.com : o \in S}
        blind(c) == c.blind
        value(c) == c.value
    IN  /\ Minus(SumOver(coms(tx.outs), blind), SumOver(tx.ins, blind))
               = Plus(tx.kernel[1].excess, tx.off)
        /\ AddUp(coms(tx.outs), value) + tx.kernel[1].features.fee = AddUp(tx.ins, value)
Valid(tx) ==
    /\ tx.kernel # <<>> /\ KernelVerifies(tx.kernel[1])
    /\ \A o \in tx.outs : verify_bullet_proof(o)
    /\ Balanced(tx)

finalize_transaction_Dropped(s, sig) ==
    LET final == [s.tx[1] EXCEPT !.kernel =
                     <<[s.tx[1].kernel[1] EXCEPT !.excess = calc_excess(s), !.sig = <<sig>>]>>]
    IN  IF s.tx # <<>> /\ check_fees(s) /\ Valid(final) THEN <<s>> ELSE <<>>
finalize_transaction(s, sig) ==
    LET final == [s.tx[1] EXCEPT !.kernel =
                     <<[s.tx[1].kernel[1] EXCEPT !.excess = calc_excess(s), !.sig = <<sig>>]>>]
    IN  IF s.tx # <<>> /\ check_fees(s) /\ Valid(final) THEN <<[s EXCEPT !.tx = <<final>>]>> ELSE <<>>

finalize(s) ==
    LET sig == finalize_signature(s)
    IN  IF sig = <<>> THEN <<>> ELSE finalize_transaction(s, sig[1])

\* A context holds the keys of a participant and the outputs it spends and makes:
\* pairs of the name of a derived key and a value.
adjust_offset(s, ctx) ==
    LET key(e) == Secret(e[1])
    IN  [s EXCEPT !.off = Minus(Plus(@, SumOver(ctx.outs, key)),
                                Plus(ctx.ikey, SumOver(ctx.ins, key)))]
compact(s) == [s EXCEPT !.tx = <<>>]
=============================================================================
