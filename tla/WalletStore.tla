---------------------------- MODULE WalletStore ----------------------------
(***************************************************************************)
(* The database of one Grin wallet (one account) and the library functions *)
(* that change it: libwallet/src/internal and the LMDB backend.  A store   *)
(* w is a record                                                           *)
(*   me       the wallet, as the owner of keys on the chain                *)
(*   outs     outputs [n, mmr, v, st, h, lh, cb, e]: key index, PMMR index *)
(*            (0 is None), value, status, height, lock height, coinbase,   *)
(*            log entry (0 is None)                                        *)
(*   log      log entries [t, s, conf, cr, db, ttl, ex, mh]: type, slate,  *)
(*            confirmed, credited, debited, TTL height, kernel excess and  *)
(*            the height from which to look for it; the id is the position *)
(*   ctx      private contexts by slate;  file  stored transactions        *)
(*   child    next key index;  rnd  fresh secrets drawn so far             *)
(*   conf, scanned, init   last confirmed and last scanned height and      *)
(*            WalletInitStatus                                             *)
(* The chain is a sequence of blocks, a block a set of transactions        *)
(* [k, ins, outs, cb]; a commitment is its key and value [w, n, v], and a  *)
(* kernel excess the set of blinding factors it is the sum of.             *)
(***************************************************************************)
EXTENDS CoinSelection

CONSTANTS
    Maturity,       \* coinbase_maturity()
    OldCoinbase,    \* blocks after which an unconfirmed coinbase is forgotten
    ScanBack        \* blocks an update scans again

StoreAssumption == Maturity \in Nat /\ OldCoinbase \in Nat /\ ScanBack \in Nat

NoKernel == {}
SumOf(S) == FoldSet(LAMBDA o, sum : sum + o.v, 0, S)

----------------------------------------------------------------------------
(* The chain, as a node reports it. *)
ChainOutputs(chain) ==
    UNION {UNION {{[c |-> c, h |-> h, cb |-> t.cb] : c \in t.outs} : t \in chain[h]} : h \in DOMAIN chain}
SpentBy(chain) == UNION {UNION {t.ins : t \in chain[h]} : h \in DOMAIN chain}
Utxo(chain) == {u \in ChainOutputs(chain) : u.c \notin SpentBy(chain)}
get_kernel(chain, k, min_height) == \E h \in DOMAIN chain : h >= min_height /\ \E t \in chain[h] : t.k = k

----------------------------------------------------------------------------
(* Outputs. *)
CommitOf(w, o) == [w |-> w.me, n |-> o.n, v |-> o.v]
CoinbaseKernel(w, o) == {<<w.me, o.n, o.v>>}
Unconfirmed(n, v, h, lh, cb, e) ==
    [n |-> n, mmr |-> 0, v |-> v, st |-> "Unconfirmed", h |-> h, lh |-> lh, cb |-> cb, e |-> e]
num_confirmations(o, height) ==
    IF o.h > height \/ o.st = "Unconfirmed" THEN 0 ELSE 1 + height - o.h
eligible_to_spend(o, height, minimum_confirmations) ==
    /\ o.st \notin {"Spent", "Locked"} /\ o.lh <= height
    /\ ~(o.st = "Unconfirmed" /\ o.cb)
    /\ \/ o.st = "Unspent" /\ num_confirmations(o, height) >= minimum_confirmations
       \/ o.st = "Unconfirmed" /\ minimum_confirmations = 0
mark_unspent(o) == IF o.st \in {"Unconfirmed", "Reverted"} THEN [o EXCEPT !.st = "Unspent"] ELSE o
mark_spent_Unlocked(o) == IF o.st = "Unspent" THEN [o EXCEPT !.st = "Spent"] ELSE o
mark_spent(o) == IF o.st \in {"Unspent", "Locked"} THEN [o EXCEPT !.st = "Spent"] ELSE o
mark_reverted(o) == IF o.st = "Unspent" THEN [o EXCEPT !.st = "Reverted"] ELSE o

save(w, o) ==
    [w EXCEPT !.outs = {p \in @ : p.n # o.n \/ p.mmr # o.mmr} \cup {o}]
delete(w, n, mmr) == [w EXCEPT !.outs = {p \in @ : p.n # n \/ p.mmr # mmr}]
next_child_Kept(w) == w
next_child(w) == [w EXCEPT !.child = @ + 1]
next_tx_log_id(w) == Len(w.log) + 1
save_tx_log_entry_Lost(w, i, entry) == w
save_tx_log_entry(w, i, entry) ==
    [w EXCEPT !.log = IF i = Len(@) + 1 THEN Append(@, entry) ELSE [@ EXCEPT ![i] = entry]]
save_private_context(w, s, context) == [w EXCEPT !.ctx = (s :> context) @@ @]
delete_private_context(w, s) == [w EXCEPT !.ctx = Restrict(@, DOMAIN @ \ {s})]
get_private_context(w, s) == w.ctx[s]
store_tx(w, s, tx) == [w EXCEPT !.file = (s :> tx) @@ @]
\* The TxLogEntry of a new record.
Entry(t, s, cr, db, ttl, ex, mh) ==
    [t |-> t, s |-> s, conf |-> FALSE, cr |-> cr, db |-> db, ttl |-> ttl, ex |-> ex, mh |-> mh]

----------------------------------------------------------------------------
(* Queries. *)
Outstanding == {"TxReceived", "TxSent", "TxReverted"}
retrieve_txs(w, outstanding_only) ==
    {i \in DOMAIN w.log : outstanding_only => ~w.log[i].conf /\ w.log[i].t \in Outstanding}
EntriesOf(w, s) == {i \in DOMAIN w.log : w.log[i].s = s}
retrieve_outputs(w, show_spent, i) ==
    {o \in w.outs : (show_spent \/ o.st # "Spent") /\ (i # 0 => o.e = i)}
retrieve_info(w, minimum_confirmations) ==
    LET Unspent(o) == o.st = "Unspent"
        Immature(o) == o.cb /\ o.lh > w.conf
        Few(o) == num_confirmations(o, w.conf) < minimum_confirmations
        Awaited(o) == o.st = "Unconfirmed" /\ ~o.cb
        All(P(_)) == SumOf({o \in w.outs : P(o)})
        spendable == All(LAMBDA o : Unspent(o) /\ ~Immature(o) /\ ~Few(o))
        immature == All(LAMBDA o : Unspent(o) /\ Immature(o))
        unconfirmed == All(LAMBDA o : \/ Unspent(o) /\ ~Immature(o) /\ Few(o)
                                      \/ Awaited(o) /\ minimum_confirmations = 0)
    IN [amount_currently_spendable |-> spendable,
        amount_immature |-> immature,
        amount_awaiting_confirmation |-> unconfirmed,
        amount_awaiting_finalization |-> All(LAMBDA o : Awaited(o) /\ minimum_confirmations > 0),
        amount_locked |-> All(LAMBDA o : o.st = "Locked"),
        amount_reverted |-> All(LAMBDA o : o.st = "Reverted"),
        total |-> spendable + unconfirmed + immature]

----------------------------------------------------------------------------
(* Refreshing from the node (updater.rs). *)
\* Only outputs of outstanding transactions, or of none, are looked up, unless
\* all are asked for.
map_wallet_outputs_Few(w, update_all) ==
    {o \in w.outs : o.st # "Spent" /\ o.e \in {0} \cup retrieve_txs(w, TRUE)}
map_wallet_outputs(w, update_all) ==
    {o \in w.outs : o.st # "Spent" /\ (update_all \/ o.e \in {0} \cup retrieve_txs(w, TRUE))}
find_reverted_kernels(w, mapped, found, chain) ==
    {i \in DOMAIN w.log :
        /\ w.log[i].t = "TxReceived" /\ w.log[i].ex # NoKernel
        /\ \E o \in mapped : o.e = i /\ o.st = "Unspent" /\ CommitOf(w, o) \notin found
        /\ ~get_kernel(chain, w.log[i].ex, w.log[i].mh)}
\* A coinbase that is confirmed gets a log entry of its own.
apply_api_outputs(w, mapped, utxo, reverted, height) ==
    LET At(o) == {u \in utxo : u.c = CommitOf(w, o)}
        Found(o) == At(o) # {}
        coinbases == {o \in mapped : Found(o) /\ o.cb /\ o.st = "Unconfirmed"}
        Rank(o) == Cardinality({p \in coinbases : p.n <= o.n})
        Confirms(i) == \E o \in mapped :
            Found(o) /\ ~o.cb /\ o.st \in {"Unconfirmed", "Reverted"} /\ o.e = i
        Updated(o) ==
            IF Found(o)
            THEN [mark_unspent(o) EXCEPT !.h = (CHOOSE u \in At(o) : TRUE).h,
                                         !.e = IF o \in coinbases THEN Len(w.log) + Rank(o) ELSE @]
            ELSE IF ~o.cb /\ o.e \in reverted THEN mark_reverted(o) ELSE mark_spent(o)
        Seen(i, t) == IF ~Confirms(i) THEN t
                      ELSE [t EXCEPT !.conf = TRUE, !.t = IF @ = "TxReverted" THEN "TxReceived" ELSE @]
        Gone(i, t) == IF i \in reverted THEN [t EXCEPT !.t = "TxReverted", !.conf = FALSE] ELSE t
        CoinbaseEntry(o) == [Entry("ConfirmedCoinbase", 0, o.v, 0, 0, CoinbaseKernel(w, o), height)
                             EXCEPT !.conf = TRUE]
        new == [r \in 1 .. Cardinality(coinbases) |->
                   CoinbaseEntry(CHOOSE o \in coinbases : Rank(o) = r)]
    IN IF height < w.conf THEN w
       ELSE [w EXCEPT !.outs = (@ \ mapped) \cup {Updated(o) : o \in mapped},
                      !.log = [i \in DOMAIN @ |-> Gone(i, Seen(i, @[i]))] \o new,
                      !.conf = height]
clean_old_unconfirmed(w, height) ==
    [w EXCEPT !.outs = {o \in @ : ~(/\ o.st = "Unconfirmed" /\ o.cb /\ height >= OldCoinbase
                                    /\ o.h > 0 /\ o.h + OldCoinbase < height)}]
refresh_outputs(w, chain, update_all) ==
    LET mapped == map_wallet_outputs(w, update_all)
        utxo == {u \in Utxo(chain) : \E o \in mapped : u.c = CommitOf(w, o)}
        reverted == find_reverted_kernels(w, mapped, {u.c : u \in utxo}, chain)
        height == Len(chain)
    IN clean_old_unconfirmed(apply_api_outputs(w, mapped, utxo, reverted, height), height)

\* One transaction of the list that an update has read, confirmed by its kernel.
\* The entry as it was when the list was read is written back.
NeedsKernel_Received(entry) == ~entry.conf /\ entry.db = 0 /\ entry.ex # NoKernel
NeedsKernel(entry) == ~entry.conf /\ (entry.cr = 0 \/ entry.db = 0) /\ entry.ex # NoKernel
update_tx_via_kernel(w, i, entry, chain) ==
    IF NeedsKernel(entry) /\ get_kernel(chain, entry.ex, entry.mh)
    THEN save_tx_log_entry(w, i, [entry EXCEPT !.conf = TRUE]) ELSE w

----------------------------------------------------------------------------
(* Cancelling (tx.rs, updater.rs). *)
CancelledType(t) ==
    CASE t = "TxSent" -> "TxSentCancelled"
      [] t \in {"TxReceived", "TxReverted"} -> "TxReceivedCancelled"
      [] OTHER -> t
cancel_tx_and_outputs(w, i) ==
    LET outputs == retrieve_outputs(w, FALSE, i)
        Deleted(o) == o \in outputs /\ o.st \in {"Unconfirmed", "Reverted"}
        Unlocked(o) == IF o \in outputs /\ o.st = "Locked" THEN [o EXCEPT !.st = "Unspent"] ELSE o
    IN [w EXCEPT !.outs = {Unlocked(o) : o \in {p \in @ : ~Deleted(p)}},
                 !.log = [@ EXCEPT ![i].t = CancelledType(@)]]
cancellable(w, i) == i \in DOMAIN w.log /\ w.log[i].t \in Outstanding /\ ~w.log[i].conf

----------------------------------------------------------------------------
(* Scanning (scan.rs). *)
identify_utxo_outputs(w, utxo) == {u \in utxo : u.c.w = w.me}
collect_chain_outputs(w, chain, start, end) ==
    identify_utxo_outputs(w, {u \in Utxo(chain) : u.h >= start /\ u.h <= end})
Matching(w, outs, u) == {o \in outs : CommitOf(w, o) = u.c}
cancel_tx_log_entry(w, o) ==
    IF o.e \notin DOMAIN w.log THEN w
    ELSE [w EXCEPT !.log = [@ EXCEPT ![o.e].t =
              IF @ \in {"TxSent", "TxReceived"} THEN CancelledType(@) ELSE @]]
\* An output that is Spent or Locked in the wallet and unspent on the chain.
unspend_output(w, o) == save(cancel_tx_log_entry(w, o), [o EXCEPT !.st = "Unspent"])
delete_unconfirmed_output(w, o) == delete(cancel_tx_log_entry(w, o), o.n, o.mmr)
restore_missing_output(w, u) ==
    LET t == IF u.cb THEN "ConfirmedCoinbase" ELSE "TxReceived"
        entry == [Entry(t, 0, u.c.v, 0, 0, NoKernel, 0) EXCEPT !.conf = TRUE]
        i == next_tx_log_id(w)
        out == [Unconfirmed(u.c.n, u.c.v, u.h, u.h + (IF u.cb THEN Maturity ELSE 0), u.cb, i)
                EXCEPT !.mmr = u.h, !.st = "Unspent"]
    IN save(save_tx_log_entry(w, i, entry), out)
\* The child index ends up above those of the restored outputs.
RaiseChildIndex(w, restored) ==
    [w EXCEPT !.child = IF restored = {} THEN @
                        ELSE LET max == CHOOSE n \in restored : \A m \in restored : n >= m
                             IN IF max >= @ THEN max + 1 ELSE @]

----------------------------------------------------------------------------
(* A scan and an update of the wallet that nothing interrupts. *)
Repaired(w, snapshot, on_chain, delete_unconfirmed) ==
    LET With(st) == {o \in snapshot : o.st = st /\ \E u \in on_chain : CommitOf(w, o) = u.c}
        missing == {u \in on_chain : Matching(w, snapshot, u) = {}}
        Unspend(v, S) == FoldSet(LAMBDA o, acc : unspend_output(acc, o), v, S)
        Delete(v, S) == FoldSet(LAMBDA o, acc : delete_unconfirmed_output(acc, o), v, S)
        found == FoldSet(LAMBDA u, acc : restore_missing_output(acc, u), Unspend(w, With("Spent")), missing)
    IN RaiseChildIndex(IF delete_unconfirmed
                       THEN Delete(Unspend(found, With("Locked")), {o \in snapshot : o.st = "Unconfirmed"})
                       ELSE found,
                       {u.c.n : u \in missing})
scan(w, chain, start, end, delete_unconfirmed) ==
    Repaired(w, retrieve_outputs(w, TRUE, 0), collect_chain_outputs(w, chain, start, end), delete_unconfirmed)
ScanStart(w, tip) ==
    LET last == CASE w.init = "InitNeedsScanning" -> 0
                  [] w.init = "InitNoScanning" -> tip
                  [] OTHER -> w.scanned
    IN IF last > ScanBack THEN last - ScanBack ELSE 0
save_last_scanned_block(w, tip) == [w EXCEPT !.scanned = tip, !.init = "InitComplete"]
expired(entry, tip) == entry.ttl # 0 /\ tip >= entry.ttl
ScanToTip(w, chain) ==
    save_last_scanned_block(scan(w, chain, ScanStart(w, Len(chain)), Len(chain), FALSE), Len(chain))
\* ok is FALSE if cancelling an expired transaction returns an error, which ends
\* the update.
CancelExpired(w, due) ==
    LET failing == {i \in due : ~cancellable(w, i)}
        done == {i \in due : \A j \in failing : i < j}
    IN [ok |-> failing = {},
        w |-> FoldSet(LAMBDA i, acc : cancel_tx_and_outputs(acc, i), w, done)]
\* From the second step on, with the transactions that were outstanding then.
UpdateTxs(w, txs, chain) ==
    CancelExpired(ScanToTip(FoldSet(LAMBDA i, acc : update_tx_via_kernel(acc, i, w.log[i], chain), w, txs),
                            chain),
                  {i \in txs : expired(w.log[i], Len(chain))})
UpdateRefreshed(w, chain) == UpdateTxs(w, retrieve_txs(w, TRUE), chain)
update_wallet_state(w, chain) == UpdateRefreshed(refresh_outputs(w, chain, FALSE), chain)
=============================================================================
