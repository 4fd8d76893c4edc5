------------------------------ MODULE WalletTx ------------------------------
(***************************************************************************)
(* Grin wallets that exchange slates: the owner and foreign API calls of   *)
(* libwallet/src/api_impl on the databases of WalletStore, in the standard *)
(* flow (S1, S2, S3), with late locking, and in the invoice flow (I1, I2,  *)
(* I3).  A call holds the wallet's lock, but it commits several database   *)
(* batches: if Faults, the process may be killed after any of them.        *)
(* Slates are never lost by the model and never consumed: a wallet may     *)
(* take a slate late, twice or not at all.                                 *)
(***************************************************************************)
EXTENDS WalletStore

CONSTANTS
    Wallets,            \* the wallets
    Coins,              \* the values of each wallet's coins at the start
    Amounts,            \* amounts to send or to ask for
    Flows,              \* subset of {"send", "late", "invoice", "coinbase"}
    TtlBlocks,          \* values of the ttl_blocks argument, 0 is None
    MinConfirmations, MaxOutputs, NumChange, SelectAll,     \* InitTxArgs
    Repeat,             \* process_invoice_tx may be called twice for a slate
    SelfSend,           \* wallets may take their own slates
    Faults,             \* processes may be killed
    MaxSlates, MaxLog, MaxKeys, MaxHeight, MaxReorgs,   \* bounds
    Reward,             \* of a block
    MaxCalls            \* bound on cancellations and on repeated calls

TxAssumption ==
    /\ Coins \in [Wallets -> Seq(Nat)] /\ Amounts \subseteq Nat /\ TtlBlocks \subseteq Nat
    /\ Flows \subseteq {"send", "late", "invoice", "coinbase"}
    /\ {Repeat, SelfSend, Faults, SelectAll} \subseteq BOOLEAN
    /\ {MinConfirmations, MaxOutputs, NumChange, MaxSlates, MaxLog, MaxKeys, MaxHeight,
        MaxReorgs, Reward, MaxCalls}
           \subseteq Nat

VARIABLES
    wal,        \* the wallets' databases
    chain,      \* blocks
    pool,       \* transactions accepted by the nodes and not in a block
    msgs,       \* slates that have been returned by a call
    reorgs,     \* blocks undone so far
    calls       \* cancellations and repeated calls so far

vars == <<wal, chain, pool, msgs, reorgs, calls>>
node == <<chain, pool, reorgs>>

Slates == 1 .. MaxSlates
Tx(k, ins, outs) == [k |-> k, ins |-> ins, outs |-> outs, cb |-> FALSE]
PartialTx == Tx(NoKernel, {}, {})

Genesis(w) == {[w |-> w, n |-> i, v |-> Coins[w][i]] : i \in DOMAIN Coins[w]}
NewStore(w) ==
    [me |-> w, ctx |-> <<>>, file |-> <<>>, rnd |-> 1,
     outs |-> {[Unconfirmed(i, Coins[w][i], 1, 0, FALSE, 1) EXCEPT !.st = "Unspent"]
                 : i \in DOMAIN Coins[w]},
     log |-> <<[Entry("TxReceived", 0, 0, 0, 0, {<<w, 0>>}, 1) EXCEPT !.conf = TRUE]>>,
     child |-> Len(Coins[w]) + 1, conf |-> 1, scanned |-> 1, init |-> "InitComplete"]
Init ==
    /\ wal = [w \in Wallets |-> NewStore(w)]
    /\ chain = <<{Tx({<<w, 0>>}, {}, Genesis(w)) : w \in Wallets}>>
    /\ pool = {} /\ msgs = {} /\ reorgs = 0 /\ calls = 0

\* A call that commits the databases steps[1], steps[2], ... and, if it is not
\* killed before, returns the slates out.
Commits(w, steps, out) ==
    \E k \in DOMAIN steps :
        /\ k < Len(steps) => Faults
        /\ steps[k].child <= MaxKeys + 1
        /\ wal' = [wal EXCEPT ![w] = steps[k]]
        /\ msgs' = IF k = Len(steps) THEN msgs \cup out ELSE msgs
        /\ UNCHANGED node

FreshSlate ==
    LET used == {m.s : m \in msgs} \cup UNION {DOMAIN wal[w].ctx : w \in Wallets}
                \cup UNION {{wal[w].log[i].s : i \in DOMAIN wal[w].log} : w \in Wallets}
    IN {s \in Slates : s \notin used /\ \A r \in 1 .. s - 1 : r \in used}
new_tx_slate(s, st, bl, amt, fee, ttl) ==
    [s |-> s, st |-> st, bl |-> bl, amt |-> amt, fee |-> fee, ttl |-> ttl,
     over |-> {}, ins |-> {}, outs |-> {}, off |-> TRUE]
Cutoff(ttl_blocks) == IF ttl_blocks = 0 THEN 0 ELSE Len(chain) + ttl_blocks
check_ttl(w, m) == m.ttl = 0 \/ wal[w].conf < m.ttl

Eligible(st) ==
    SetToSortSeq({o \in st.outs : eligible_to_spend(o, Len(chain), MinConfirmations)},
                 LAMBDA a, b : a.v < b.v \/ (a.v = b.v /\ <<a.n, a.mmr>> # <<b.n, b.mmr>>
                                             /\ (a.n < b.n \/ (a.n = b.n /\ a.mmr < b.mmr))))
Secret(st) == <<st.me, st.rnd>>
NewContext(st, amt, fee) ==
    [bl |-> Secret(st), ini |-> Secret(st), amt |-> amt, fee |-> fee, late |-> FALSE,
     ins |-> {}, outs |-> {}, ex |-> NoKernel]
DrawSecret(st) == [st EXCEPT !.rnd = @ + 1]
\* The coins are chosen and the change keys derived, one committed batch each.
SelectCoins(st, amt) == select_send_tx(Eligible(st), amt, MaxOutputs, NumChange, SelectAll)
Derived(st, sel) == [k \in 1 .. Len(sel.change) + 1 |-> [st EXCEPT !.child = @ + k - 1]]
SelectedInputs(sel) ==
    {[n |-> sel.coins[i].n, mmr |-> sel.coins[i].mmr, v |-> sel.coins[i].v] : i \in DOMAIN sel.coins}
SelectedChange(st, sel) == {[n |-> st.child + i - 1, v |-> sel.change[i]] : i \in DOMAIN sel.change}
SelectedContext(st, sel, amt) ==
    [NewContext(st, amt, sel.fee) EXCEPT !.ins = SelectedInputs(sel), !.outs = SelectedChange(st, sel)]
\* What a call that builds a payment commits, the context last.
PaymentSteps(st, sel, s, context) ==
    Append(Derived(st, sel),
           save_private_context(DrawSecret([st EXCEPT !.child = @ + Len(sel.change)]), s, context))

----------------------------------------------------------------------------
(* The standard flow. *)
S1Slate(s, st, amt, sel, ttl_blocks) ==
    new_tx_slate(s, "S1", Secret(st), amt, sel.fee, Cutoff(ttl_blocks))
BuildSend(w, s, amt, ttl_blocks, st, sel) ==
    IF ~sel.ok THEN Commits(w, <<st>>, {})
    ELSE Commits(w, PaymentSteps(st, sel, s, SelectedContext(st, sel, amt)),
                 {S1Slate(s, st, amt, sel, ttl_blocks)})
SendFrom(w, s, amt, ttl_blocks, st) == BuildSend(w, s, amt, ttl_blocks, st, SelectCoins(st, amt))
init_send_tx(w, s, amt, ttl_blocks) ==
    /\ "send" \in Flows
    /\ SendFrom(w, s, amt, ttl_blocks, refresh_outputs(wal[w], chain, FALSE))
    /\ UNCHANGED calls
\* Late locking: the selection only yields the fee.
BuildLate(w, s, amt, ttl_blocks, st, sel) ==
    IF ~sel.ok THEN Commits(w, <<st>>, {})
    ELSE Commits(w, <<st, save_private_context(DrawSecret(st), s,
                              [NewContext(st, amt, sel.fee) EXCEPT !.late = TRUE])>>,
                 {S1Slate(s, st, amt, sel, ttl_blocks)})
LateFrom(w, s, amt, ttl_blocks, st) ==
    BuildLate(w, s, amt, ttl_blocks, st,
              select_coins_and_fee(Eligible(st), amt, MaxOutputs, NumChange, SelectAll))
init_send_tx_late(w, s, amt, ttl_blocks) ==
    /\ "late" \in Flows
    /\ LateFrom(w, s, amt, ttl_blocks, refresh_outputs(wal[w], chain, FALSE))
    /\ UNCHANGED calls

\* The inputs are locked whatever their status is.
HasInputs(st, context) == \A i \in context.ins : \E o \in st.outs : o.n = i.n /\ o.mmr = i.mmr
lock_tx_context(st, m, context, height) ==
    LET i == next_tx_log_id(st)
        coins == {o \in st.outs : \E c \in context.ins : o.n = c.n /\ o.mmr = c.mmr}
        Change(o) == Unconfirmed(o.n, o.v, height, 0, FALSE, i)
        ex == IF context.ex # NoKernel THEN context.ex ELSE {m.bl}
        entry == Entry("TxSent", m.s, SumOf(context.outs), SumOf(coins), m.ttl, ex, height)
        locked == FoldSet(LAMBDA o, acc : save(acc, [o EXCEPT !.st = "Locked", !.e = i]),
                          save_tx_log_entry(st, i, entry), coins)
    IN FoldSet(LAMBDA o, acc : save(acc, Change(o)), locked, context.outs)
LockSteps_Split(st, m, context) ==
    LET locked == lock_tx_context(st, m, context, Len(chain))
    IN <<[st EXCEPT !.log = locked.log], locked, store_tx(locked, m.s, PartialTx)>>
LockSteps(st, m, context) ==
    LET locked == lock_tx_context(st, m, context, Len(chain))
    IN <<locked, store_tx(locked, m.s, PartialTx)>>
tx_lock_outputs(w, m) ==
    /\ m.st \in {"S1", "S2", "I2"} /\ m.s \in DOMAIN wal[w].ctx
    /\ m.st # "S2" => m.bl[1] = w
    /\ HasInputs(wal[w], get_private_context(wal[w], m.s))
    /\ Len(wal[w].log) < MaxLog
    /\ calls' = calls + (IF EntriesOf(wal[w], m.s) = {} THEN 0 ELSE 1) /\ calls' <= MaxCalls
    /\ Commits(w, LockSteps(wal[w], m, get_private_context(wal[w], m.s)), {})

build_recipient_output(st, s, amt, ttl, ex, height) ==
    LET i == next_tx_log_id(st)
        entry == Entry("TxReceived", s, amt, 0, ttl, ex, height)
    IN save(save_tx_log_entry(next_child(st), i, entry),
            Unconfirmed(st.child, amt, height, 0, FALSE, i))
AlreadyReceived(w, s) == \E i \in EntriesOf(wal[w], s) : wal[w].log[i].t = "TxReceived"
\* The entry is committed with the sender's excess first, then with the sum.
receive_tx(w, m) ==
    LET st == wal[w]
        i == next_tx_log_id(st)
        both == {m.bl, Secret(st)}
        built == build_recipient_output(st, m.s, m.amt, m.ttl, {m.bl}, st.conf)
        signed == DrawSecret([built EXCEPT !.log[i].ex = both])
        slate == [new_tx_slate(m.s, "S2", Secret(st), 0, 0, m.ttl) EXCEPT
                     !.over = both, !.outs = {[w |-> w, n |-> st.child, v |-> m.amt]}]
    IN /\ m.st = "S1" /\ (SelfSend \/ m.bl[1] # w) /\ check_ttl(w, m) /\ ~AlreadyReceived(w, m.s)
       /\ Len(st.log) < MaxLog
       /\ Commits(w, <<next_child(st), DrawSecret(built), signed>>, {slate})
       /\ UNCHANGED calls

\* The inputs and outputs of the context that are still in the wallet.
repopulate_tx(st, context) ==
    LET Known(S) == {[w |-> st.me, n |-> o.n, v |-> o.v] : o \in {p \in S : \E q \in st.outs : q.n = p.n}}
    IN [ins |-> Known(context.ins), outs |-> Known(context.outs)]
\* complete_tx: the partial signatures fit together and the transaction balances.
complete_tx(m, tx, fee) == m.over = tx.k /\ SumOf(tx.ins) = SumOf(tx.outs) + fee
EntryToUpdate(st, s, t) == {i \in EntriesOf(st, s) : st.log[i].t = t}
update_stored_tx(st, s, t, tx) ==
    LET i == CHOOSE j \in EntryToUpdate(st, s, t) : \A k \in EntryToUpdate(st, s, t) : j <= k
        stored == store_tx(st, s, tx)
        updated == [stored EXCEPT !.log[i].ex = tx.k]
    IN <<stored, updated, delete_private_context(updated, s)>>

\* Late locking: coins are selected again, without a refresh; if they cost
\* another fee, the call fails after the change keys have been derived.  ok is
\* FALSE if the call ends with an error, after the steps.
LateContext(st, s, sel) ==
    [get_private_context(st, s) EXCEPT !.late = FALSE, !.ins = SelectedInputs(sel), !.outs = SelectedChange(st, sel)]
LockSaved(saved, m) == <<saved>> \o LockSteps(saved, m, get_private_context(saved, m.s))
LateLock(st, m, sel) ==
    IF ~sel.ok THEN [ok |-> FALSE, steps |-> <<st>>]
    ELSE IF sel.fee # get_private_context(st, m.s).fee THEN [ok |-> FALSE, steps |-> Derived(st, sel)]
    ELSE [ok |-> TRUE,
          steps |-> Derived(st, sel)
                    \o LockSaved(save_private_context([st EXCEPT !.child = @ + Len(sel.change)], m.s,
                                                      LateContext(st, m.s, sel)), m)]
LateLocked(st, m) ==
    IF ~get_private_context(st, m.s).late THEN [ok |-> TRUE, steps |-> <<st>>]
    ELSE LateLock(st, m, SelectCoins(st, get_private_context(st, m.s).amt))
FinalTx(st, m, initiator) ==
    LET own == repopulate_tx(st, get_private_context(st, m.s))
    IN Tx({initiator, m.bl}, own.ins \cup m.ins, own.outs \cup m.outs)
\* The end of both finalize_tx: t is the type of the entry that is updated.
Finalized(w, m, locked, initiator, t, fee, state) ==
    LET st == Last(locked.steps)
        tx == FinalTx(st, m, initiator)
        steps == update_stored_tx(st, m.s, t, tx)
        slate == [new_tx_slate(m.s, state, m.bl, 0, fee, m.ttl) EXCEPT
                     !.over = tx.k, !.ins = tx.ins, !.outs = tx.outs]
    IN IF locked.ok /\ m.off /\ complete_tx(m, tx, fee) /\ EntryToUpdate(st, m.s, t) # {}
       THEN Commits(w, locked.steps \o steps, {slate})
       ELSE Commits(w, locked.steps, {})
finalize_tx(w, m) ==
    /\ m.st = "S2" /\ m.s \in DOMAIN wal[w].ctx /\ check_ttl(w, m)
    /\ get_private_context(wal[w], m.s).late => Len(wal[w].log) < MaxLog
    /\ Finalized(w, m, LateLocked(wal[w], m), get_private_context(wal[w], m.s).bl, "TxSent", get_private_context(wal[w], m.s).fee, "S3")
    /\ UNCHANGED calls

----------------------------------------------------------------------------
(* The invoice flow. *)
issue_invoice_tx(w, s, amt) ==
    LET st == wal[w]
        built == build_recipient_output(st, s, amt, 0, {Secret(st)}, Len(chain))
        context == [NewContext(st, amt, 0) EXCEPT !.outs = {[n |-> st.child, v |-> amt]}]
        slate == new_tx_slate(s, "I1", context.bl, amt, 0, 0)
    IN /\ "invoice" \in Flows /\ Len(st.log) < MaxLog
       /\ Commits(w, <<next_child(st), DrawSecret(built),
                       save_private_context(DrawSecret(built), s, context)>>, {slate})
       /\ UNCHANGED calls
\* If there is a context already, this is taken for a payment to oneself: the
\* contexts are merged and the offset is left to finalize_tx.
MergedContext(old, new) ==
    [new EXCEPT !.ini = old.ini, !.amt = old.amt, !.fee = old.fee,
                !.ins = @ \cup old.ins, !.outs = @ \cup old.outs]
I2Slate(w, m, ttl_blocks, sel, fresh, tx, again) ==
    [new_tx_slate(m.s, "I2", fresh.bl, 0, sel.fee,
                  IF ttl_blocks = 0 THEN m.ttl ELSE Cutoff(ttl_blocks)) EXCEPT
        !.over = {m.bl, fresh.bl}, !.ins = tx.ins,
        !.outs = tx.outs \cup {[w |-> w, n |-> o.n, v |-> o.v] : o \in fresh.outs},
        !.off = ~again \/ m.bl[1] = w]
BuildInvoice(w, m, ttl_blocks, st, sel, fresh, again) ==
    LET context == IF again THEN MergedContext(get_private_context(st, m.s), fresh) ELSE fresh
    IN Commits(w, PaymentSteps(st, sel, m.s, context),
               {I2Slate(w, m, ttl_blocks, sel, fresh, repopulate_tx(st, context), again)})
PayInvoice(w, m, ttl_blocks, st, sel, again) ==
    IF ~sel.ok THEN Commits(w, <<st>>, {})
    ELSE BuildInvoice(w, m, ttl_blocks, st, sel,
                      [SelectedContext(st, sel, m.amt) EXCEPT !.ex = {m.bl, Secret(st)}], again)
InvoiceFrom(w, m, ttl_blocks, st, again) ==
    PayInvoice(w, m, ttl_blocks, st, SelectCoins(st, m.amt), again)
process_invoice_tx(w, m, ttl_blocks) ==
    LET again == m.s \in DOMAIN wal[w].ctx
    IN /\ m.st = "I1" /\ (SelfSend \/ m.bl[1] # w) /\ check_ttl(w, m)
       /\ \A i \in EntriesOf(wal[w], m.s) : wal[w].log[i].t # "TxSent"
       /\ again => Repeat
       /\ calls' = calls + (IF again THEN 1 ELSE 0) /\ calls' <= MaxCalls
       /\ InvoiceFrom(w, m, ttl_blocks, refresh_outputs(wal[w], chain, FALSE), again)
foreign_finalize_tx(w, m) ==
    /\ m.st = "I2" /\ m.s \in DOMAIN wal[w].ctx /\ check_ttl(w, m)
    /\ Finalized(w, m, [ok |-> TRUE, steps |-> <<wal[w]>>], get_private_context(wal[w], m.s).ini, "TxReceived", m.fee, "I3")
    /\ UNCHANGED calls

----------------------------------------------------------------------------
(* Cancelling, updating, mining. *)
\* By id, or by a slate that has one entry.
CancelUpdated(w, i, upd) ==
    IF upd.ok /\ cancellable(upd.w, i)
    THEN Commits(w, <<upd.w, cancel_tx_and_outputs(upd.w, i)>>, {})
    ELSE Commits(w, <<upd.w>>, {})
cancel_tx(w, i) ==
    /\ i \in DOMAIN wal[w].log
    /\ calls < MaxCalls /\ calls' = calls + 1
    /\ CancelUpdated(w, i, update_wallet_state(wal[w], chain))
Update(w) == Commits(w, <<update_wallet_state(wal[w], chain).w>>, {}) /\ UNCHANGED calls
ScanFrom(w, st, delete_unconfirmed) ==
    Commits(w, <<st, [scan(st, chain, 1, Len(chain), delete_unconfirmed) EXCEPT !.scanned = Len(chain)]>>, {})
owner_scan(w, delete_unconfirmed) ==
    /\ calls < MaxCalls /\ calls' = calls + 1
    /\ ScanFrom(w, refresh_outputs(wal[w], chain, TRUE), delete_unconfirmed)
\* A miner asks for a new key, or again for the one that it has got before.
receive_coinbase(w, n) ==
    LET st == wal[w]
        height == Len(chain) + 1
        keyed == IF n = st.child THEN next_child(st) ELSE st
        out == Unconfirmed(n, Reward, height, height + Maturity, TRUE, 0)
    IN /\ "coinbase" \in Flows /\ height <= MaxHeight
       /\ \/ n = st.child
          \/ \E o \in st.outs : o.n = n /\ o.cb /\ o.st = "Unconfirmed" /\ o.h < height
       /\ Commits(w, <<keyed, save(keyed, out)>>, {}) /\ UNCHANGED calls

\* External: what a node accepts and puts into a block.
Accepts(tx) ==
    /\ tx.k # NoKernel
    /\ \A c \in tx.ins : \E u \in Utxo(chain) : u.c = c /\ (u.cb => u.h + Maturity <= Len(chain) + 1)
    /\ \A p \in pool \ {tx} : p.ins \cap tx.ins = {}
post_tx(tx) ==
    /\ Accepts(tx) /\ tx \notin pool
    /\ pool' = pool \cup {tx}
    /\ UNCHANGED <<wal, chain, msgs, reorgs, calls>>
PostSlate(m) == m.st \in {"S3", "I3"} /\ post_tx(Tx(m.over, m.ins, m.outs))
get_stored_tx(w, s) == s \in DOMAIN wal[w].file /\ post_tx(wal[w].file[s])
Coinbases ==
    UNION {{[k |-> CoinbaseKernel(wal[w], o), ins |-> {}, outs |-> {CommitOf(wal[w], o)}, cb |-> TRUE]
             : o \in {p \in wal[w].outs : p.cb /\ p.st = "Unconfirmed" /\ p.h = Len(chain) + 1}}
           : w \in Wallets}
\* There is always room below MaxHeight for the blocks that the slates need.
Mine(txs, coinbase) ==
    /\ Len(chain) < MaxHeight - (IF txs = {} THEN MaxSlates ELSE 0)
    /\ \A tx \in txs : Accepts(tx)
    /\ chain' = Append(chain, txs \cup coinbase)
    /\ pool' = {tx \in pool \ txs : tx.ins \cap UNION {t.ins : t \in txs} = {}}
    /\ UNCHANGED <<wal, msgs, reorgs, calls>>
\* The last block is undone; its transactions go back to the pool.
Reorg ==
    /\ reorgs < MaxReorgs /\ Len(chain) > 1
    /\ chain' = Front(chain) /\ reorgs' = reorgs + 1
    /\ pool' = pool \cup {tx \in Last(chain) : ~tx.cb}
    /\ UNCHANGED <<wal, msgs, calls>>

Handle(w, m) ==
    \/ receive_tx(w, m) \/ tx_lock_outputs(w, m) \/ finalize_tx(w, m)
    \/ \E ttl \in TtlBlocks : process_invoice_tx(w, m, ttl)
    \/ foreign_finalize_tx(w, m)
Start(w) ==
    \E s \in FreshSlate, amt \in Amounts :
        \/ \E ttl \in TtlBlocks : init_send_tx(w, s, amt, ttl) \/ init_send_tx_late(w, s, amt, ttl)
        \/ issue_invoice_tx(w, s, amt)
Maintain(w) ==
    \/ \E i \in 1 .. MaxLog : cancel_tx(w, i)
    \/ Update(w)
    \/ \E del \in BOOLEAN : owner_scan(w, del)
    \/ \E n \in 1 .. wal[w].child : receive_coinbase(w, n)
MineBlock ==
    \E txs \in {{}} \cup {{tx} : tx \in pool}, cb \in {{}} \cup {{t} : t \in Coinbases} : Mine(txs, cb)
Next ==
    \/ \E w \in Wallets : Start(w) \/ Maintain(w) \/ \E m \in msgs : Handle(w, m)
    \/ \E m \in msgs : PostSlate(m)
    \/ \E w \in Wallets, s \in Slates : get_stored_tx(w, s)
    \/ MineBlock \/ Reorg
Spec == Init /\ [][Next]_vars
\* Miners take what is in the pool, and every wallet is updated again and again:
\* the second conjunct is WF_vars(Update(w)) with its ENABLED written out.
UpdateDue(w) == update_wallet_state(wal[w], chain).w # wal[w]
FairSpec ==
    /\ Spec /\ WF_vars(MineBlock /\ pool' # pool)
    /\ \A w \in Wallets : []<>~UpdateDue(w) \/ []<><<Update(w)>>_vars

-----------------------------------------------------------------------------
Statuses == {"Unconfirmed", "Unspent", "Locked", "Spent", "Reverted"}

\* Type invariant of the wallet databases: every output names a log entry that
\* exists, and key index and position identify an output (OutputData).
TypeOK ==
    \A w \in Wallets :
        /\ \A o \in wal[w].outs : o.st \in Statuses /\ o.e \in 0 .. Len(wal[w].log)
        /\ \A o, p \in wal[w].outs : o.n = p.n /\ o.mmr = p.mmr => o = p
        /\ wal[w].conf <= MaxHeight /\ wal[w].scanned <= MaxHeight

\* The commitments a wallet, the chain or a message knows.
Known(w) ==
    {CommitOf(wal[w], o) : o \in wal[w].outs} \cup {u.c : u \in ChainOutputs(chain)}
    \cup UNION {tx.outs : tx \in pool} \cup UNION {m.outs : m \in msgs}

\* next_child is committed before the key is used: no key index stands for two
\* values, whatever was retried, cancelled, restored or killed half way.
KeysNeverReused ==
    \A w \in Wallets : \A c, d \in {x \in Known(w) : x.w = w} :
        c.n < wal[w].child /\ (c.n = d.n => c = d)

\* A log entry of a slate is confirmed only if a transaction made from that slate
\* is on the chain, by whichever of the two ways (output or kernel) it was found.
ConfirmedMeansMined ==
    reorgs = 0 => \A w \in Wallets : \A i \in DOMAIN wal[w].log :
        wal[w].log[i].conf /\ wal[w].log[i].s # 0
            => \E h \in DOMAIN chain : \E tx \in chain[h] :
                   tx.k \cap {m.bl : m \in {x \in msgs : x.s = wal[w].log[i].s}} # {}

\* A locked output belongs to a transaction that can still be cancelled or that
\* is on the chain: nothing stays locked without a log entry to release it.
LockedHasEntry ==
    \A w \in Wallets : \A o \in wal[w].outs :
        o.st = "Locked" => o.e \in DOMAIN wal[w].log /\ wal[w].log[o.e].t = "TxSent"

\* What the wallet calls unspent or locked was on the chain when it last looked:
\* the amount currently spendable can be spent.
SpendableExists ==
    reorgs = 0 => \A w \in Wallets : \A o \in wal[w].outs :
        o.st \in {"Unspent", "Locked"} /\ wal[w].conf = Len(chain)
            => \E u \in Utxo(chain) : u.c = CommitOf(wal[w], o)

\* The other way round: after a scan up to the tip the wallet knows all its
\* outputs on the chain, those of transactions that it had cancelled included.
OnChainKnown ==
    reorgs = 0 => \A w \in Wallets : wal[w].scanned = Len(chain) =>
        \A u \in Utxo(chain) : u.c.w = w => \E o \in wal[w].outs :
            CommitOf(wal[w], o) = u.c /\ o.st \in {"Unspent", "Locked"}

\* The balance that is shown as spendable is what coin selection would find.
BalanceIsEligible ==
    \A w \in Wallets : wal[w].conf = Len(chain) =>
        retrieve_info(wal[w], MinConfirmations).amount_currently_spendable
            = SumOf({o \in wal[w].outs : eligible_to_spend(o, Len(chain), MinConfirmations)})

\* The outputs of a confirmed transaction are confirmed, all of them.
AllOrNone ==
    \A w \in Wallets : \A o \in wal[w].outs :
        o.e # 0 /\ wal[w].log[o.e].conf => o.st # "Unconfirmed"

\* The transaction is stored before the log says that it is final: one that was
\* finalized can be posted again after a crash.
FinalIsStored ==
    \A w \in Wallets : \A i \in DOMAIN wal[w].log :
        LET entry == wal[w].log[i]
        IN entry.t = "TxSent" /\ Cardinality(entry.ex) = 2
           /\ (\E m \in msgs : m.s = entry.s /\ m.st = "S1")
               => entry.s \in DOMAIN wal[w].file /\ wal[w].file[entry.s].k = entry.ex

\* A slate is taken once: receive_tx refuses one that it has received before, so
\* no wallet ends up with two received entries for it.
ReceivedOnce ==
    \A w \in Wallets : \A i, j \in DOMAIN wal[w].log :
        i < j /\ wal[w].log[i].s = wal[w].log[j].s /\ wal[w].log[i].s # 0
            => ~(wal[w].log[i].t = "TxReceived" /\ wal[w].log[j].t = "TxReceived")

\* tx_lock_outputs makes the outputs unavailable for further transactions: as
\* long as a transaction waits for its confirmation, its log entry holds the
\* outputs that it has debited.
LocksAreExclusive ==
    \A w \in Wallets : \A i \in DOMAIN wal[w].log :
        wal[w].log[i].t = "TxSent" /\ ~wal[w].log[i].conf
            => wal[w].log[i].db = SumOf({o \in wal[w].outs : o.e = i /\ o.st \in {"Locked", "Spent"}})

\* After a scan of the whole chain that deletes what is unconfirmed, the wallet
\* can spend exactly its unspent outputs on the chain: what was removed from the
\* wallet and confirmed later is back.  (A chain lower than the last confirmed
\* height is not looked at.)
ScanFindsAll ==
    \A w \in Wallets : owner_scan(w, TRUE) /\ wal[w].conf <= Len(chain) =>
        {CommitOf(wal'[w], o) : o \in {p \in wal'[w].outs : p.st = "Unspent"}}
            = {u.c : u \in {x \in Utxo(chain) : x.c.w = w}}
ScanRestores == [][ScanFindsAll]_vars

\* A transaction that the nodes have accepted is confirmed in both logs.
Accepted(w, s) == \E tx \in pool, i \in EntriesOf(wal[w], s) : tx.k = wal[w].log[i].ex
Confirmed(w, s) == \E i \in EntriesOf(wal[w], s) : wal[w].log[i].conf
=============================================================================
