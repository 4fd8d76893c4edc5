------------------------------ MODULE Slatepack ------------------------------
(***************************************************************************)
(* Slatepacks: a slate in an envelope with the sender's address, encrypted *)
(* for the addresses it is meant for, written as armored text, in binary   *)
(* or as JSON (libwallet/src/slatepack, impls/src/adapters/slatepack.rs,   *)
(* the slatepack part of libwallet/src/api_impl/owner.rs and of            *)
(* controller/src/command.rs).  Two wallets write messages, people copy    *)
(* them with or without damage, and every wallet tries to read them with   *)
(* the account that is active.                                             *)
(*                                                                         *)
(* Bytes are tokens with a type t, a length n and a sequence v.  What age, *)
(* base58 and SHA-256 do is external: only a listed key opens an encrypted *)
(* body, decoding undoes encoding, and a check matches one content only.   *)
(* Options are sequences of length at most one.  A definition named after  *)
(* another one with a suffix is a faulty variant that stands for a bug.    *)
(***************************************************************************)
EXTENDS Integers, SequencesExt

CONSTANTS
    Wallets,
    Slates,         \* the slates that are sent
    Accounts,       \* the parent paths of a wallet, 0 for the default one
    Indices,        \* indices on the address derivation path, 0 among them
    MaxMessages,
    Newer,          \* versions of the writer: TRUE for one with unknown fields
    Forms,          \* how put_tx writes files, and "message"
    Damages         \* what happens to copied text

SlatepackAssumption ==
    /\ 0 \in Indices /\ 0 \in Accounts /\ MaxMessages \in Nat /\ Newer \subseteq BOOLEAN
    /\ Forms \subseteq {"message", "armored", "bin", "json"}
    /\ Damages \subseteq {"space", "front", "cut", "alter"}

VARIABLES
    active,     \* the account of each wallet that is active
    msgs        \* the messages and files that were written

vars == <<active, msgs>>

Ok(x) == [is |-> "ok", val |-> <<x>>]
Err == [is |-> "err", val |-> <<>>]
Panic == [is |-> "panic", val |-> <<>>]

\* address_from_derivation_path and SlatepackAddress::new
SlatepackAddress(w, a, i) == <<"grin", w, a, i>>
SecretKey(w, i) == SlatepackAddress(w, active[w], i)

-----------------------------------------------------------------------------
\* Bytes
Token(t, n, v) == <<[t |-> t, n |-> n, v |-> v]>>
UInt(n, x) == Token("int", n, <<x>>)
Size(s) == FoldLeft(LAMBDA len, e : len + e.n, 0, s)
Extra(newer) == IF newer THEN Token("new", 1, <<>>) \o Token("new", 1, <<>>) ELSE <<>>

\* A reader: what is left, the values read so far, and whether there was no error.
Reader(s) == [in |-> s, got |-> <<>>, ok |-> TRUE]
Failed(r) == [in |-> <<>>, got |-> Append(r.got, <<0>>), ok |-> FALSE]
Take(r, n) ==
    IF r.ok /\ r.in # <<>> /\ Head(r.in).n = n
    THEN [in |-> Tail(r.in), got |-> Append(r.got, Head(r.in).v), ok |-> TRUE] ELSE Failed(r)
Number(r, k) == r.got[k][1]
\* Steps over n bytes, whatever they are.
Skip(r, n) ==
    LET Ends == {k \in 0 .. Len(r.in) : Size(SubSeq(r.in, 1, k)) = n} IN
    IF r.ok /\ Ends # {} THEN [r EXCEPT !.in = SubSeq(@, Max(Ends) + 1, Len(@))] ELSE Failed(r)

\* The bech32 text of an address with its length byte
encoded_len(addr) == 63 + 1
WriteAddress(addr) == UInt(1, encoded_len(addr) - 1) \o Token("addr", encoded_len(addr) - 1, addr)
\* The number that was read last is replaced by so many bytes.
TakeCounted(r) == [Take(r, Number(r, Len(r.got))) EXCEPT !.got = Append(Front(r.got), Last(@))]
ReadAddress(r) == TakeCounted(Take(r, 1))
ReadSender(r, flags) ==
    IF flags % 2 = 1 THEN [ReadAddress(r) EXCEPT !.got = Append(Front(@), <<Last(@)>>)]
    ELSE [r EXCEPT !.got = Append(@, <<>>)]
ReadAddresses(r, count) ==
    LET list == FoldLeft(LAMBDA q, i : ReadAddress(q), [r EXCEPT !.got = <<>>], [i \in 1 .. count |-> i])
    IN  [list EXCEPT !.got = Append(r.got, @)]

-----------------------------------------------------------------------------
\* Encrypted metadata
MetaLen(meta) ==
    2 + (IF meta.sender = <<>> THEN 0 ELSE encoded_len(meta.sender[1]))
      + (IF meta.recipients = <<>> THEN 0
         ELSE 2 + FoldLeft(LAMBDA n, a : n + encoded_len(a), 0, meta.recipients))
WriteMeta(meta, newer) ==
    UInt(4, MetaLen(meta) + Size(Extra(newer)))
    \o UInt(2, Len(meta.sender) + (IF meta.recipients = <<>> THEN 0 ELSE 2))
    \o (IF meta.sender = <<>> THEN <<>> ELSE WriteAddress(meta.sender[1]))
    \o (IF meta.recipients = <<>> THEN <<>>
        ELSE UInt(2, Len(meta.recipients))
             \o FlattenSeq([i \in DOMAIN meta.recipients |-> WriteAddress(meta.recipients[i])]))
    \o Extra(newer)
ReadRecipients(r, flags) ==
    IF flags \div 2 % 2 = 1
    THEN LET count == Take(r, 2)
         IN  ReadAddresses([count EXCEPT !.got = Front(@)], Number(count, Len(count.got)))
    ELSE ReadAddresses(r, 0)
MetaFields(r) == ReadRecipients(ReadSender(r, Number(r, 2)), Number(r, 2))
SkipUnknown(r, s) == Skip(r, Number(r, 1) - (Size(s) - 4 - Size(r.in)))
MetaRead(r) == IF r.ok THEN Ok([sender |-> r.got[3], recipients |-> r.got[4]]) ELSE Err
ReadMeta(s) == MetaRead(SkipUnknown(MetaFields(Take(Take(Reader(s), 4), 2)), s))

\* The sender moves into the metadata; without recipients nothing is encrypted.
MovedSender(sp) == [sp.meta EXCEPT !.sender = sp.sender]
try_encrypt_payload(sp, recipients, newer) ==
    IF recipients = <<>> THEN sp
    ELSE LET body == WriteMeta(MovedSender(sp), newer) \o sp.payload
         IN  [sp EXCEPT !.meta = MovedSender(sp), !.sender = <<>>, !.mode = 1,
                        !.payload = Token("age", Size(body), <<ToSet(recipients), body>>)]

\* The first four bytes of the plain text are the length of the metadata.
MetaEnd(body) == 4 + body[1].v[1]
Decrypted(sp, rest, meta) ==
    IF meta.is # "ok" THEN Err
    ELSE Ok([sp EXCEPT !.payload = rest.in, !.mode = 0, !.sender = meta.val[1].sender,
                       !.meta.recipients = meta.val[1].recipients])
SplitBody(sp, body, rest) == Decrypted(sp, rest, ReadMeta(SubSeq(body, 1, Len(body) - Len(rest.in))))
try_decrypt_payload(sp, key) ==
    IF sp.mode = 0 \/ key = <<>> THEN Ok(sp)
    ELSE IF key[1] \notin sp.payload[1].v[1] THEN Err
    ELSE LET body == sp.payload[1].v[2] IN SplitBody(sp, body, Skip(Reader(body), MetaEnd(body)))

-----------------------------------------------------------------------------
\* A slatepack in binary: the metadata is not written, it is in the payload.
WriteSlatepack(sp, newer) ==
    UInt(1, sp.version[1]) \o UInt(1, sp.version[2]) \o UInt(1, sp.mode) \o UInt(2, Len(sp.sender))
    \o UInt(4, (IF sp.sender = <<>> THEN 0 ELSE encoded_len(sp.sender[1])) + Size(Extra(newer)))
    \o (IF sp.sender = <<>> THEN <<>> ELSE WriteAddress(sp.sender[1]))
    \o Extra(newer)
    \o UInt(8, Size(sp.payload)) \o sp.payload
SlatepackFields(r) == ReadSender(r, Number(r, 4))
SkipFields(r, before) == Take(Skip(r, Number(r, 5) - (Size(before.in) - Size(r.in))), 8)
SlatepackHead(r) == SkipFields(SlatepackFields(r), r)
SlatepackRead(r) ==
    IF ~r.ok \/ Number(r, 3) > 1 \/ Size(r.in) # Number(r, 7) THEN Err
    ELSE Ok([version |-> <<Number(r, 1), Number(r, 2)>>, mode |-> Number(r, 3), sender |-> r.got[6],
             meta |-> [sender |-> <<>>, recipients |-> <<>>], payload |-> r.in])
ReadSlatepack(s) ==
    SlatepackRead(SlatepackHead(Take(Take(Take(Take(Take(Reader(s), 1), 1), 1), 2), 4)))

-----------------------------------------------------------------------------
\* Armor.  Text is a sequence of frames, words of base58, dots and white space.
Sign(c) == [c |-> c, w |-> <<>>]
White == {"space", "nl", "quote"}
HEADER == <<Sign("BEGINSLATEPACK"), Sign("dot")>>
FOOTER == <<Sign("dot"), Sign("space"), Sign("ENDSLATEPACK"), Sign("dot")>>
\* 200 in the code; short lines here so that messages have line breaks
WordsPerLine == 5

generate_check(bytes) == Token("check", 4, bytes)
base58check(bytes) ==
    [i \in 1 .. Len(bytes) + 1 |-> [c |-> "word", w |-> <<(generate_check(bytes) \o bytes)[i]>>]]
\* The header is as long as a word, so every word gets a blank before it.
format_slatepack(words) ==
    FlattenSeq([i \in DOMAIN words |->
        <<Sign(IF i % WordsPerLine = 0 THEN "nl" ELSE "space"), words[i]>>])
encode(sp, newer) ==
    HEADER \o format_slatepack(base58check(WriteSlatepack(sp, newer))) \o FOOTER \o <<Sign("nl")>>

\* take_while of everything that is not a dot, from position k on
UpToDot(text, k) ==
    LET dots == {i \in k .. Len(text) : text[i].c = "dot"} IN
    SubSeq(text, k, IF dots = {} THEN Len(text) ELSE Min(dots) - 1)
Clean(s) == SelectSeq(s, LAMBDA x : x.c \notin White)
check_header(s) == Clean(s) = <<Sign("BEGINSLATEPACK")>>
check_footer(s) == Clean(s) = <<Sign("ENDSLATEPACK")>>
error_check_Always(code, bytes) == TRUE
error_check(code, bytes) == <<code>> = generate_check(bytes)
CheckedBytes(bytes) ==
    IF bytes = <<>> THEN Panic
    ELSE IF ~error_check(bytes[1], Tail(bytes)) THEN Err
    ELSE Ok(Tail(bytes))
DecodeWords(words) ==
    IF \E i \in DOMAIN words : words[i].c # "word" THEN Err
    ELSE CheckedBytes([i \in DOMAIN words |-> words[i].w[1]])
DecodeFrom(text, payload, consumed) ==
    IF consumed > Len(text) THEN Panic
    ELSE IF ~check_footer(UpToDot(text, consumed + 1)) THEN Err
    ELSE DecodeWords(Clean(payload))
DecodePayload(text, header, payload) ==
    DecodeFrom(text, payload, Len(header) + 1 + Len(payload) + 1)
DecodeAfter(text, header) ==
    IF ~check_header(header) THEN Err
    ELSE DecodePayload(text, header, UpToDot(text, Len(header) + 2))
decode(text) == DecodeAfter(text, UpToDot(text, 1))

-----------------------------------------------------------------------------
\* Slatepacker
create_slatepack(slate, sender, recipients, newer) ==
    try_encrypt_payload([version |-> <<1, IF newer THEN 1 ELSE 0>>, mode |-> 0, sender |-> sender,
                         meta |-> [sender |-> <<>>, recipients |-> <<>>],
                         payload |-> Token("slate", 100, <<slate>>)], recipients, newer)
get_slate(sp) == IF Len(sp.payload) = 1 /\ sp.payload[1].t = "slate" THEN Ok(sp.payload[1].v[1]) ELSE Err

\* data: text that begins with HEADER is armor; what is left is binary or JSON.
Bytes(data) ==
    IF data.form # "text" THEN Ok(data.bytes)
    ELSE IF Len(data.text) >= 2 /\ SubSeq(data.text, 1, 2) = HEADER THEN decode(data.text) ELSE Err
Deserialized(data, bytes) ==
    IF bytes.is # "ok" THEN bytes
    ELSE IF data.form = "json" THEN Ok(data.json[1]) ELSE ReadSlatepack(bytes.val[1])
DecryptIf(sp, decrypt, key) ==
    IF sp.is # "ok" \/ ~decrypt THEN sp ELSE try_decrypt_payload(sp.val[1], key)
deser_slatepack(data, decrypt, key) == DecryptIf(Deserialized(data, Bytes(data)), decrypt, key)

\* The formats of put_tx; a message is armored text as well.
Data(form, sp, newer) ==
    [form |-> IF form \in {"message", "armored"} THEN "text" ELSE form,
     text |-> IF form \in {"message", "armored"} THEN encode(sp, newer) ELSE <<>>,
     bytes |-> IF form = "bin" THEN WriteSlatepack(sp, newer) ELSE <<>>,
     json |-> IF form = "json" THEN <<sp>> ELSE <<>>]

create_slatepack_message(slate, sender, recipients, newer) ==
    Data("message", create_slatepack(slate, sender, recipients, newer), newer)
put_tx(form, slate, sender, recipients, newer) ==
    Data(form, create_slatepack(slate, sender, recipients, newer), newer)

AndSlate(sp) == IF sp.is = "ok" THEN get_slate(sp.val[1]) ELSE sp

\* The first index whose key opens it; an index that fails in any way is passed over.
FirstOpened(tries) ==
    LET stop == SelectInSeq(tries, LAMBDA t : t.is # "err") IN IF stop = 0 THEN Err ELSE tries[stop]
Opened(w, data, indices) ==
    FirstOpened([n \in DOMAIN indices |-> deser_slatepack(data, TRUE, <<SecretKey(w, indices[n])>>)])
slate_from_slatepack_message(w, data, indices) ==
    AndSlate(IF indices = <<>> THEN deser_slatepack(data, TRUE, <<>>) ELSE Opened(w, data, indices))
OrEncrypted(opened, data) == IF opened.is = "err" THEN deser_slatepack(data, FALSE, <<>>) ELSE opened
decode_slatepack_message(w, data, indices) == OrEncrypted(Opened(w, data, indices), data)

\* Files are read with the key of index 0.
get_tx(w, data) == AndSlate(deser_slatepack(data, TRUE, <<SecretKey(w, 0)>>))
get_slatepack(w, data) == deser_slatepack(data, TRUE, <<SecretKey(w, 0)>>)

\* The commands: the slate and the address to answer to.
SlateAndSender(slate, sp) ==
    IF slate.is # "ok" THEN slate ELSE Ok([slate |-> slate.val[1], sender |-> sp.val[1].sender])
parse_slatepack(w, data, file) ==
    IF file THEN SlateAndSender(get_tx(w, data), get_slatepack(w, data))
    ELSE SlateAndSender(slate_from_slatepack_message(w, data, <<0>>), decode_slatepack_message(w, data, <<0>>))
\* unpack decrypts only what is encrypted; its Err says that it is for another wallet.
Unpacked(w, sp) ==
    IF sp.is # "ok" THEN sp
    ELSE IF sp.val[1].mode = 1 THEN AndSlate(try_decrypt_payload(sp.val[1], <<SecretKey(w, 0)>>))
    ELSE get_slate(sp.val[1])
unpack(w, data) == Unpacked(w, deser_slatepack(data, FALSE, <<>>))
prompt_slatepack(text) == decode(text).is = "ok"

-----------------------------------------------------------------------------
Addresses == {SlatepackAddress(w, a, i) : w \in Wallets, a \in Accounts, i \in Indices}
Init ==
    /\ active = [w \in Wallets |-> 0]
    /\ msgs = <<>>

set_active_account(w, a) ==
    /\ active[w] # a
    /\ active' = [active EXCEPT ![w] = a]
    /\ UNCHANGED msgs

\* re: the message this one answers.
Written(w, slate, sender, recipients, data, re) ==
    msgs' = Append(msgs, [by |-> w, slate |-> slate, from |-> sender, to |-> ToSet(recipients),
                          data |-> data, damage |-> "none", re |-> re])
Recipients == {<<>>} \union {<<a>> : a \in Addresses} \union
              {<<SlatepackAddress(w, 0, 0), SlatepackAddress(v, 0, 1)>> : w, v \in Wallets}
Write(w) ==
    /\ msgs = <<>>
    /\ \E slate \in Slates, sender \in {<<>>} \union {<<SecretKey(w, i)>> : i \in Indices},
          to \in Recipients, newer \in Newer, form \in Forms :
         Written(w, slate, sender, to,
                 IF form = "message" THEN create_slatepack_message(slate, sender, to, newer)
                 ELSE put_tx(form, slate, sender, to, newer), 0)
    /\ UNCHANGED active

\* receive and pay answer to the sender, with output_slatepack.
Answer(w, parsed, k) ==
    /\ parsed.is = "ok"
    /\ LET sender == <<SecretKey(w, 0)>>
           to == parsed.val[1].sender
       IN  Written(w, parsed.val[1].slate, sender, to,
                   create_slatepack_message(parsed.val[1].slate, sender, to, FALSE), k)
Reply(w, k) ==
    /\ Len(msgs) < MaxMessages
    /\ Answer(w, parse_slatepack(w, msgs[k].data, FALSE), k)
    /\ UNCHANGED active

\* People copy text.
Damaged(text, damage, k, sign) ==
    CASE damage = "space" -> InsertAt(text, k, Sign(sign))
      [] damage = "front" -> <<Sign(sign)>> \o text
      [] damage = "cut" -> SubSeq(text, 1, k - 1)
      [] damage = "alter" -> [text EXCEPT ![k].w[1].v = IF text[k].w[1].t = "age" THEN <<{}, <<>>>> ELSE <<99>>]
Copy(i) ==
    /\ msgs[i].data.form = "text" /\ msgs[i].damage = "none"
    /\ \E damage \in Damages, k \in DOMAIN msgs[i].data.text, sign \in White :
         /\ damage \in {"space", "front"} \/ sign = "space"
         /\ damage = "space" => k > Len(HEADER)
         /\ damage = "front" => k = 1
         /\ damage = "alter" => msgs[i].data.text[k].c = "word"
         /\ msgs' = [msgs EXCEPT ![i].damage = damage,
                                 ![i].data.text = Damaged(@, damage, k, sign)]
    /\ UNCHANGED active

Next ==
    \/ \E w \in Wallets : Write(w) \/ (\E a \in Accounts : set_active_account(w, a))
    \/ \E w \in Wallets, k \in DOMAIN msgs : Reply(w, k)
    \/ \E i \in DOMAIN msgs : Copy(i)

Spec == Init /\ [][Next]_vars

-----------------------------------------------------------------------------
\* Type invariant; a text that was not damaged decodes.
TypeOK ==
    /\ active \in [Wallets -> Accounts]
    /\ \A i \in DOMAIN msgs :
         /\ msgs[i].by \in Wallets /\ msgs[i].slate \in Slates /\ msgs[i].re \in 0 .. i - 1
         /\ msgs[i].to \subseteq Addresses /\ ToSet(msgs[i].from) \subseteq Addresses
         /\ msgs[i].data.form = "text" /\ msgs[i].damage = "none" =>
              decode(msgs[i].data.text).is = "ok"

\* Every way of reading a message.
IndexLists == {<<>>, <<0>>} \union {<<i, j>> : i, j \in Indices}
For(m, w, indices) == m.to = {} \/ \E n \in DOMAIN indices : SecretKey(w, indices[n]) \in m.to
Readings(m, w) ==
    {<<slate_from_slatepack_message(w, m.data, l), For(m, w, l)>> : l \in IndexLists}
    \union {<<get_tx(w, m.data), For(m, w, <<0>>)>>, <<unpack(w, m.data), For(m, w, <<0>>)>>}

\* A message that was copied without damage other than white space in its body
\* is read by the wallets it is meant for, with the account it is meant for, and
\* by no other; by older wallets too.
ReadByAddressees ==
    \A i \in DOMAIN msgs, w \in Wallets :
        msgs[i].damage \in {"none", "space"} =>
            \A r \in Readings(msgs[i], w) : r[1] = IF r[2] THEN Ok(msgs[i].slate) ELSE Err

\* Whatever happened to a message, what is read is the slate, and the sender,
\* that was written, or an error.
NothingElseIsRead ==
    \A i \in DOMAIN msgs, w \in Wallets :
        /\ \A r \in Readings(msgs[i], w) : r[1].is = "ok" => r[1].val = <<msgs[i].slate>>
        /\ \A l \in IndexLists :
             LET sp == decode_slatepack_message(w, msgs[i].data, l) IN
             sp.is = "ok" /\ sp.val[1].mode = 0 => sp.val[1].sender = msgs[i].from

\* The answer to a message that names its sender, at index 0, is readable for
\* that sender, as long as the same account is active, and for nobody else.
ReplyOnlyForSender ==
    \A i \in DOMAIN msgs :
        LET first == msgs[msgs[i].re] IN
        msgs[i].re # 0 /\ msgs[i].damage = "none" /\ first.from = <<SlatepackAddress(first.by, active[first.by], 0)>> =>
            \A w \in Wallets :
                parse_slatepack(w, msgs[i].data, FALSE).is
                    = IF <<SecretKey(w, 0)>> = first.from THEN "ok" ELSE "err"

==============================================================================
