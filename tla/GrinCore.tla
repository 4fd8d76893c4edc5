------------------------------ MODULE GrinCore ------------------------------
(***************************************************************************)
(* The steps of Grin's transaction protocols (src/grin/grin_core.rs) and   *)
(* the two-party range proof (src/grin/grin_routines.rs) as operators on   *)
(* slates.  Each returns an Option: <<>> stands for an Err and for a       *)
(* panic, which all end the calling command.  Where the code draws a       *)
(* random key or nonce the operator takes the name of the scalar.          *)
(***************************************************************************)
EXTENDS SlateVersions

\* A coin as a party knows it: the commitment, its (share of the) key, the value.
MWCoin(com, key, value) == [com |-> com, key |-> key, value |-> value]

ProofsVerify(s) == s.tx # <<>> => \A o \in s.tx[1].outs : verify_bullet_proof(o)

-----------------------------------------------------------------------------
\* The multi-party range proof.  t is the sum of the nonces that went into T1
\* and T2; a share of tau_x depends on t and on the commitment at its time.
MPBPContext(amount, com) == [amount |-> amount, commit |-> com, t |-> Zero, tau |-> {}]
add_commit(ctx, com) ==
    [ctx EXCEPT !.commit = Commitment(Plus(ctx.commit.blind, com.blind), ctx.commit.value + com.value)]
mp_bullet_proof_r1(ctx, blind, nonce) == [ctx EXCEPT !.t = Plus(@, nonce)]
mp_bullet_proof_r2(ctx, blind, nonce) ==
    [ctx EXCEPT !.tau = @ \cup {[blind |-> blind, nonce |-> nonce, t |-> ctx.t, commit |-> ctx.commit]}]
\* The proof verifies if all shares were computed for the same t and commitment
\* and add up to them.
BadProof == Commitment(Zero, 0 - 1)
mp_bullet_proof_fin(ctx) ==
    LET blind(e) == e.blind
        nonce(e) == e.nonce
    IN  IF /\ \A e \in ctx.tau : e.t = ctx.t /\ e.commit = ctx.commit
           /\ SumOver(ctx.tau, blind) = ctx.commit.blind
           /\ SumOver(ctx.tau, nonce) = ctx.t
           /\ ctx.amount = ctx.commit.value
        THEN bullet_proof(ctx.commit.blind, ctx.amount) ELSE BadProof

-----------------------------------------------------------------------------
estimate_fees(inputs, outputs, kernels) == tx_fee(inputs, outputs, kernels)

SpendRefused(coins, fund_value, num_of_outputs) ==
    LET inpval == FoldLeft(LAMBDA t, c : t + c.value, 0, coins)
    IN  \/ coins = <<>>
        \/ fund_value <= 0
        \/ num_of_outputs > 1 /\ inpval < fund_value + tx_fee(Len(coins), num_of_outputs, 1)
        \/ inpval < fund_value
        \/ \E i, j \in DOMAIN coins : i # j /\ coins[i].com = coins[j].com

\* names: the change key, the signing nonce and the offset.
spend_coins(coins, fund_value, timelock, num_of_outputs, np, names) ==
    LET inpval == FoldLeft(LAMBDA t, c : t + c.value, 0, coins)
        fee == tx_fee(Len(coins), num_of_outputs, 1)
        change == inpval - fund_value - fee
        change_key == Secret(names.change)
        slate == blank_with_kernel_features(np, FALSE, IF timelock # 0 THEN 2 ELSE 0,
                                            IF timelock # 0 THEN <<timelock>> ELSE <<>>)
        sum == Minus(IF change > 0 THEN change_key ELSE Zero,
                     Total([i \in DOMAIN coins |-> coins[i].key]))
        final_key == Minus(sum, Secret(names.offset))
        tx == [empty_transaction EXCEPT
                  !.ins = {coins[i].com : i \in DOMAIN coins},
                  !.outs = IF change > 0 THEN {Output(change_key, change)} ELSE {},
                  !.off = Secret(names.offset)]
    IN  IF SpendRefused(coins, fund_value, num_of_outputs) THEN <<>>
        ELSE <<[slate |-> fill_round_1([slate EXCEPT !.fee = fee, !.amount = fund_value,
                                           !.off = Secret(names.offset), !.tx = <<tx>>],
                                       final_key, Secret(names.nonce)),
                sig_key |-> final_key, sig_nonce |-> Secret(names.nonce),
                change_coin |-> IF change > 0
                                THEN <<MWCoin(Commitment(change_key, change), change_key, change)>>
                                ELSE <<>>]>>

d_spend_coins(coin, s, fund_value, timelock, nonce) ==
    LET key == Minus(Zero, coin.key)
    IN  IF \/ ~ProofsVerify(s)
           \/ s.amount # fund_value
           \/ s.tx = <<>> \/ Cardinality(s.tx[1].ins) # 1
           \/ IF timelock # 0 THEN s.feat # 2 \/ s.args # <<timelock>> ELSE s.feat # 0
        THEN <<>>
        ELSE <<[slate |-> fill_round_1(s, key, nonce), sig_key |-> key, sig_nonce |-> nonce]>>

\* A new output, the kernel, round 1: common to recv_coins and apt_recv_coins.
NewOutput(s, fund_value, key, nonce) ==
    LET tx == IF s.tx = <<>> THEN empty_transaction ELSE s.tx[1]
        u == update_kernel([s EXCEPT !.tx = <<[tx EXCEPT !.outs = @ \cup {Output(key, fund_value)}]>>])
    IN  IF ~ProofsVerify(s) \/ u = <<>> THEN <<>> ELSE <<fill_round_1(u[1], key, nonce)>>
recv_coins(s, fund_value, key, nonce) ==
    LET n == NewOutput(s, fund_value, key, nonce)
        r == IF n = <<>> THEN <<>> ELSE fill_round_2(n[1], key, nonce)
    IN  IF r = <<>> THEN <<>>
        ELSE <<[slate |-> r[1], output_coin |-> MWCoin(Commitment(key, fund_value), key, fund_value)]>>
\* The signature with x added in goes into the slate, the other one is kept.
apt_recv_coins(s, fund_value, x, key, nonce) ==
    LET n == NewOutput(s, fund_value, key, nonce)
        Sign(extra) == sign_single(key, nonce, extra, pub_nonce_sum(n[1]), pub_blind_sum(n[1]),
                                   kernel_features(n[1])[1])
        r == IF n = <<>> THEN <<>> ELSE PutSignature(n[1], key, nonce, Sign(x))
    IN  IF r = <<>> THEN <<>>
        ELSE <<[slate |-> r[1], output_coin |-> MWCoin(Commitment(key, fund_value), key, fund_value),
                prt_sig |-> <<Sign(x), Sign(Zero)>>]>>

drecv_coins_r1(s, fund_value, key, prf_nonce, nonce) ==
    IF ~ProofsVerify(s) THEN <<>>
    ELSE <<[slate |-> fill_round_1(s, key, nonce),
            prf_ctx |-> mp_bullet_proof_r1(MPBPContext(fund_value, Commitment(key, fund_value)),
                                           key, prf_nonce)]>>
\* T1, T2 and the commitment are complete before the first share of tau_x.
drecv_coins_r2_Early(s, fund_value, ctx, key, prf_nonce, nonce) ==
    LET early == mp_bullet_proof_r2(mp_bullet_proof_r1(ctx, key, prf_nonce), key, prf_nonce)
        all == add_commit(early, Commitment(key, 0))
        r == fill_round_2(fill_round_1(s, key, nonce), key, nonce)
    IN  IF ~ProofsVerify(s) \/ r = <<>> THEN <<>>
        ELSE <<[slate |-> r[1], output_coin |-> MWCoin(all.commit, key, fund_value), prf_ctx |-> all]>>
drecv_coins_r2(s, fund_value, ctx, key, prf_nonce, nonce) ==
    LET all == mp_bullet_proof_r1(add_commit(ctx, Commitment(key, 0)), key, prf_nonce)
        r == fill_round_2(fill_round_1(s, key, nonce), key, nonce)
    IN  IF ~ProofsVerify(s) \/ r = <<>> THEN <<>>
        ELSE <<[slate |-> r[1], output_coin |-> MWCoin(all.commit, key, fund_value),
                prf_ctx |-> mp_bullet_proof_r2(all, key, prf_nonce)]>>
drecv_coins_r3(s, ctx, key, prf_nonce, nonce) ==
    LET out == [com |-> ctx.commit,
                proof |-> mp_bullet_proof_fin(mp_bullet_proof_r2(ctx, key, prf_nonce))]
        r == IF s.tx = <<>> THEN <<>>
             ELSE fill_round_2([s EXCEPT !.tx[1].outs = @ \cup {out}], key, nonce)
        u == IF r = <<>> THEN <<>> ELSE update_kernel(r[1])
    IN  IF u = <<>> THEN <<>>
        ELSE <<[slate |-> u[1], output_coin |-> MWCoin(ctx.commit, key, ctx.amount)]>>

\* With pub_x the signatures so far are checked with x added in, and mine is put
\* beside them; otherwise the adapted signature is replaced first.
Adapted(s, pub_x) ==
    \A i \in DOMAIN s.parts : s.parts[i].sig # <<>> =>
        verify_single(s.parts[i].sig[1], pub_nonce_sum(s), s.parts[i].blind, pub_blind_sum(s),
                      pub_x, kernel_features(s)[1])
ReplaceSig(s, sigs) ==
    LET at == {i \in 1 .. s.np : i <= Len(s.parts) /\ s.parts[i].sig = <<sigs[1]>>}
    IN  IF at = {} THEN s ELSE [s EXCEPT !.parts[Min(at)].sig = <<sigs[2]>>]
fin_tx(s, key, nonce, fin, pub_x, replace) ==
    LET t == IF replace = <<>> THEN s ELSE ReplaceSig(s, replace)
        signed == IF pub_x # <<>>
                  THEN IF Adapted(s, pub_x[1])
                       THEN PutSignature(s, key, nonce, sign_single(key, nonce, Zero, pub_nonce_sum(s),
                                                 pub_blind_sum(s), kernel_features(s)[1]))
                       ELSE <<>>
                  ELSE fill_round_2(t, key, nonce)
    IN  IF s.tx = <<>> \/ ~ProofsVerify(s) \/ signed = <<>> THEN <<>>
        ELSE IF fin THEN finalize(signed[1]) ELSE signed

\* The difference of the two s, apart from the challenge that both have.
ext_witness(prt_sig, apt_sig) == Minus(apt_sig.lin, prt_sig.lin)
=============================================================================
