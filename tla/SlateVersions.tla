---------------------------- MODULE SlateVersions ----------------------------
(***************************************************************************)
(* How a slate travels (libwallet/src/slate.rs, slate_versions/).  A Slate *)
(* is converted to version 4 of the slate, which has no transaction but    *)
(* the commitments it is made of; that is written as JSON, where a field   *)
(* with its default value is left out, or in binary, where status bytes    *)
(* say what follows.  The reader fills in the defaults and rebuilds the    *)
(* transaction.                                                            *)
(***************************************************************************)
EXTENDS Slate

\* Inputs come first; an output is told from an input by its proof.
coms_of(s) ==
    IF s.tx = <<>> THEN <<>>
    ELSE <<[i \in DOMAIN SetToSeq(s.tx[1].ins) |-> [c |-> SetToSeq(s.tx[1].ins)[i], p |-> <<>>]]
           \o [i \in DOMAIN SetToSeq(s.tx[1].outs) |->
                 [c |-> SetToSeq(s.tx[1].outs)[i].com, p |-> <<SetToSeq(s.tx[1].outs)[i].proof>>]]>>

to_v4(s) ==
    [num_parts |-> s.np, sta |-> s.state, coms |-> coms_of(s), amt |-> s.amount, fee |-> s.fee,
     feat |-> s.feat, ttl |-> s.ttl, off |-> s.off,
     sigs |-> [i \in DOMAIN s.parts |-> [xs |-> s.parts[i].blind, nonce |-> s.parts[i].nonce,
                                         part |-> s.parts[i].sig]],
     proof |-> s.proof, feat_args |-> s.args]

Participants(v) ==
    [i \in DOMAIN v.sigs |-> [blind |-> v.sigs[i].xs, nonce |-> v.sigs[i].nonce, sig |-> v.sigs[i].part]]

\* The kernel is rebuilt as if it were plain: kind 1 is matched for a lock height
\* where kernel_features uses 2, and the signature is checked against a slate
\* with a plain kernel.  A signature that does not check is replaced by zeros.
tx_from_slate_v4(v) ==
    IF v.coms = <<>> THEN <<>>
    ELSE LET calc == [blank_with_kernel_features(2, FALSE, 0, <<>>)
                         EXCEPT !.fee = v.fee, !.parts = Participants(v)]
             lock == IF v.feat_args = <<>> THEN 0 ELSE v.feat_args[1]
             Proved(p) == SelectSeq(v.coms[1], LAMBDA c : (c.p # <<>>) = p)
         IN  <<[ins |-> {c.c : c \in ToSet(Proved(FALSE))},
                outs |-> {[com |-> c.c, proof |-> c.p[1]] : c \in ToSet(Proved(TRUE))},
                kernel |-> <<[features |-> [kind |-> IF v.feat = 1 THEN 2 ELSE 0, fee |-> v.fee,
                                            lock |-> IF v.feat = 1 THEN lock ELSE 0],
                              excess |-> calc_excess(calc),
                              sig |-> finalize_signature(calc)]>>,
                off |-> v.off]>>

from_v4(v) ==
    [np |-> v.num_parts, state |-> v.sta, tx |-> tx_from_slate_v4(v), amount |-> v.amt, fee |-> v.fee,
     ttl |-> v.ttl, feat |-> v.feat, args |-> v.feat_args, off |-> v.off, parts |-> Participants(v),
     proof |-> v.proof]

-----------------------------------------------------------------------------
\* JSON: the fields that are written.
Default == [num_parts |-> 2, off |-> Zero, amt |-> 0, fee |-> 0, feat |-> 0, ttl |-> 0,
            coms |-> <<>>, proof |-> <<>>, feat_args |-> <<>>]
to_json(v) == Restrict(v, {f \in DOMAIN v : f \in DOMAIN Default => v[f] # Default[f]})
from_json(j) == j @@ Default

-----------------------------------------------------------------------------
\* Binary: a sequence of words, each with its width; a reader that expects
\* another width reads garbage, here an Err.
Word(width, value) == <<[w |-> width, v |-> value]>>
Bit(cond, weight) == IF cond THEN weight ELSE 0
HasBit(status, weight) == (status \div weight) % 2 = 1

States == <<"Unknown", "Standard1", "Standard2", "Standard3", "Invoice1", "Invoice2", "Invoice3">>
WriteState(state) == Word("u8", (CHOOSE i \in DOMAIN States : States[i] = state) - 1)
ReadState(b) == IF b + 1 \in DOMAIN States THEN States[b + 1] ELSE "Unknown"

If(status, weight, words) == IF HasBit(status, weight) THEN words ELSE <<>>
WriteOptFields(v) ==
    LET status == Bit(v.num_parts # 2, 1) + Bit(v.amt > 0, 2) + Bit(v.fee > 0, 4)
                  + Bit(v.feat > 0, 8) + Bit(v.ttl > 0, 16)
    IN  Word("u8", status)
        \o If(status, 1, Word("u8", v.num_parts)) \o If(status, 2, Word("u64", v.amt))
        \o If(status, 4, Word("fee", v.fee)) \o If(status, 8, Word("u8", v.feat))
        \o If(status, 16, Word("u64", v.ttl))
WriteSigs(sigs) ==
    Word("u8", Len(sigs)) \o FlattenSeq([i \in DOMAIN sigs |->
        Word("u8", Len(sigs[i].part)) \o Word("key", sigs[i].xs) \o Word("key", sigs[i].nonce)
        \o (IF sigs[i].part = <<>> THEN <<>> ELSE Word("sig", sigs[i].part[1]))])
WriteComs(coms) ==
    Word("u16", Len(coms)) \o FlattenSeq([i \in DOMAIN coms |->
        Word("u8", Len(coms[i].p)) \o Word("commit", coms[i].c)
        \o (IF coms[i].p = <<>> THEN <<>> ELSE Word("proof", coms[i].p[1]))])
WriteProof(p) ==
    Word("addr", p.saddr) \o Word("addr", p.raddr) \o Word("u8", Len(p.rsig))
    \o (IF p.rsig = <<>> THEN <<>> ELSE Word("rsig", p.rsig[1]))
WriteOptStructs(v) ==
    Word("u8", Bit(v.coms # <<>>, 1) + Bit(v.proof # <<>>, 2))
    \o (IF v.coms = <<>> THEN <<>> ELSE WriteComs(v.coms[1]))
    \o (IF v.proof = <<>> THEN <<>> ELSE WriteProof(v.proof[1]))
WriteSlate(v) ==
    WriteState(v.sta) \o Word("blind", v.off) \o WriteOptFields(v) \o WriteSigs(v.sigs)
    \o WriteOptStructs(v)
    \o (IF v.feat = 2 THEN Word("u64", IF v.feat_args = <<>> THEN 0 ELSE v.feat_args[1]) ELSE <<>>)

\* A reader: the words still to be read, the values read so far, and no Err yet.
Start(words) == [in |-> words, got |-> <<>>, ok |-> TRUE]
Nested(r) == [r EXCEPT !.got = <<>>]
Push(r, value) == [r EXCEPT !.got = Append(@, value)]
Read(r, width) ==
    IF r.ok /\ r.in # <<>> /\ Head(r.in).w = width
    THEN [in |-> Tail(r.in), got |-> Append(r.got, Head(r.in).v), ok |-> TRUE]
    ELSE [in |-> <<>>, got |-> Append(r.got, 0), ok |-> FALSE]
ReadIf(r, cond, width, default) == IF cond THEN Read(r, width) ELSE Push(r, default)
\* The last value read becomes an option.
AsOption(r) == [r EXCEPT !.got = Append(Front(@), <<Last(@)>>)]
ReadOption(r, cond, width) == IF cond THEN AsOption(Read(r, width)) ELSE Push(r, <<>>)
\* What was read in a nested reader becomes one value of the outer one.
Joined(r, nested, value) == [nested EXCEPT !.got = Append(r.got, value)]
\* The count that was read last is replaced by the list of so many items.
ReadList(r, Item(_, _)) ==
    LET list == FoldLeft(Item, Nested(r), [i \in 1 .. Last(r.got) |-> i])
    IN  Joined([r EXCEPT !.got = Front(@)], list, list.got)

ReadOptFields(r) ==
    LET Has(weight) == HasBit(Last(r.got), weight)
    IN  ReadIf(ReadIf(ReadIf(ReadIf(ReadIf(r, Has(1), "u8", 2), Has(2), "u64", 0),
                             Has(4), "fee", 0), Has(8), "u8", 0), Has(16), "u64", 0)
ReadPart(r) == ReadOption(r, r.got[1] = 1, "sig")
SigRead(q, r) == Joined(q, r, [xs |-> r.got[2], nonce |-> r.got[3], part |-> r.got[4]])
ReadSig(q, i) == SigRead(q, ReadPart(Read(Read(Read(Nested(q), "u8"), "key"), "key")))
ReadSigs(r) == ReadList(Read(r, "u8"), ReadSig)
ReadRangeProof(r) == ReadOption(r, r.got[1] = 1, "proof")
ComRead(q, r) == Joined(q, r, [c |-> r.got[2], p |-> r.got[3]])
ReadCom(q, i) == ComRead(q, ReadRangeProof(Read(Read(Nested(q), "u8"), "commit")))
ReadComs(r, cond) == IF cond THEN AsOption(ReadList(Read(r, "u16"), ReadCom)) ELSE Push(r, <<>>)
ReadReceiverSig(r) == ReadOption(r, r.got[3] # 0, "rsig")
ProofRead(q, r) == Joined(q, r, <<[saddr |-> r.got[1], raddr |-> r.got[2], rsig |-> r.got[4]]>>)
ReadProof(r, cond) ==
    IF cond THEN ProofRead(r, ReadReceiverSig(Read(Read(Read(Nested(r), "addr"), "addr"), "u8")))
    ELSE Push(r, <<>>)
ReadOptStructs(r) == ReadProof(ReadComs(r, HasBit(Last(r.got), 1)), HasBit(Last(r.got), 2))
\* The arguments of the kernel are read for kind 2 only.
ReadArgs(r) == ReadOption(r, r.got[7] = 2, "u64")
SlateRead(r) ==
    IF ~r.ok THEN <<>>
    ELSE <<[sta |-> ReadState(r.got[1]), off |-> r.got[2], num_parts |-> r.got[4], amt |-> r.got[5],
            fee |-> r.got[6], feat |-> r.got[7], ttl |-> r.got[8], sigs |-> r.got[9],
            coms |-> r.got[11], proof |-> r.got[12], feat_args |-> r.got[13]]>>
ReadSlate(words) ==
    SlateRead(ReadArgs(ReadOptStructs(Read(ReadSigs(ReadOptFields(
        Read(Read(Read(Start(words), "u8"), "blind"), "u8"))), "u8"))))

-----------------------------------------------------------------------------
\* What the other side gets of a slate that is sent as JSON or in binary.
Arriving(v) == IF v = <<>> THEN <<>> ELSE <<from_v4(v[1])>>
Sent(s, as) ==
    IF as = "json" THEN <<from_v4(from_json(to_json(to_v4(s))))>>
    ELSE Arriving(ReadSlate(WriteSlate(to_v4(s))))
=============================================================================
