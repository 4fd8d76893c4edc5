---------------------------- MODULE WalletUpdate ----------------------------
(***************************************************************************)
(* update_wallet_state and scan of wallet Me, run by the updater thread or *)
(* by an owner API call, in the pieces between which the wallet's lock is  *)
(* given up; meanwhile other threads send, receive, finalize and cancel,   *)
(* and blocks are mined or undone.  What a piece has read (log entries,    *)
(* outputs on the chain, outputs of the wallet) is used by later pieces as *)
(* it was.                                                                 *)
(***************************************************************************)
EXTENDS WalletTx

CONSTANTS
    Me,             \* the wallet with the updater
    Scans,          \* values of delete_unconfirmed for calls of owner::scan
    NodeFaults,     \* the node may be unreachable
    MaxUpdates      \* bound on scans and on cancellations

UpdateAssumption ==
    Me \in Wallets /\ Scans \subseteq BOOLEAN /\ NodeFaults \in BOOLEAN /\ MaxUpdates \in Nat

VARIABLE
    upd     \* the update in progress: its step pc, the log entries txs as they
            \* were read, the scan from start to tip with or without del, the
            \* outputs seen on the chain and those restored, what there is to do

Idle == [pc |-> "idle", txs |-> <<>>, todo |-> <<>>, start |-> 0, tip |-> 0,
         scan |-> FALSE, del |-> FALSE, seen |-> {}, restored |-> {}]
UpdateInit == Init /\ upd = Idle

st == wal[Me]
Write(new) == wal' = [wal EXCEPT ![Me] = new] /\ UNCHANGED <<chain, pool, msgs, reorgs>>
Ids(S) == SetToSortSeq(S, LAMBDA i, j : i < j)

\* Step 1: outputs from the UTXO set.
UpdateOutputs ==
    /\ upd.pc = "idle"
    /\ upd' = [Idle EXCEPT !.pc = "list"]
    /\ Write(refresh_outputs(st, chain, FALSE)) /\ UNCHANGED calls
\* owner::scan: all outputs, then the whole chain.
BeginScan(delete_unconfirmed) ==
    /\ upd.pc = "idle" /\ calls < MaxUpdates /\ calls' = calls + 1
    /\ upd' = [Idle EXCEPT !.pc = "kernel", !.scan = TRUE, !.del = delete_unconfirmed]
    /\ Write(refresh_outputs(st, chain, TRUE))

\* Step 2: the outstanding transactions are read, and looked up by kernel.
ListTxs ==
    /\ upd.pc = "list"
    /\ upd' = [upd EXCEPT !.pc = "kernel", !.tip = Len(chain), !.todo = Ids(retrieve_txs(st, TRUE)),
                          !.txs = [i \in retrieve_txs(st, TRUE) |-> st.log[i]]]
    /\ UNCHANGED vars
LookUpKernel ==
    LET i == Head(upd.todo)
        below == SubSeq(chain, 1, Min({upd.tip, Len(chain)}))
    IN /\ upd.pc = "kernel" /\ upd.todo # <<>>
       /\ Write(update_tx_via_kernel(st, i, upd.txs[i], below)) /\ UNCHANGED calls
       /\ upd' = [upd EXCEPT !.todo = Tail(@)]

\* Step 3: the end points of the scan.
GetTip ==
    /\ upd.pc = "kernel" /\ upd.todo = <<>>
    /\ upd' = [upd EXCEPT !.pc = "collect", !.tip = Len(chain),
                          !.start = IF upd.scan THEN 1 ELSE ScanStart(st, Len(chain))]
    /\ UNCHANGED vars
CollectOutputs ==
    /\ upd.pc = "collect"
    /\ upd' = [upd EXCEPT !.pc = "compare", !.seen = collect_chain_outputs(st, chain, upd.start, upd.tip)]
    /\ UNCHANGED vars
\* What is to be repaired, as seen from the outputs of this moment: for each item
\* of S the operations ops, each in a batch of its own.
Items(S, ops) == FoldSet(LAMBDA x, acc : acc \o [k \in DOMAIN ops |-> [op |-> ops[k], x |-> x]], <<>>, S)
Repairs(snapshot, seen, del) ==
    LET With(status) == {o \in snapshot : o.st = status /\ \E u \in seen : CommitOf(st, o) = u.c}
    IN Items(With("Spent"), <<"cancel", "unspend">>)
       \o Items({u \in seen : Matching(st, snapshot, u) = {}}, <<"restore">>)
       \o (IF ~del THEN <<>> ELSE
              Items(With("Locked"), <<"cancel", "unspend">>)
              \o Items({o \in snapshot : o.st = "Unconfirmed"}, <<"cancel", "delete">>))
CompareOutputs ==
    /\ upd.pc = "compare"
    /\ upd' = [upd EXCEPT !.pc = "repair",
                          !.todo = Repairs(retrieve_outputs(st, TRUE, 0), upd.seen, upd.del)]
    /\ UNCHANGED vars
Apply(item) ==
    CASE item.op = "cancel" -> cancel_tx_log_entry(st, item.x)
      [] item.op = "unspend" -> save(st, [item.x EXCEPT !.st = "Unspent"])
      [] item.op = "delete" -> delete(st, item.x.n, item.x.mmr)
      [] item.op = "restore" -> restore_missing_output(st, item.x)
Repair ==
    LET item == Head(upd.todo)
    IN /\ upd.pc = "repair" /\ upd.todo # <<>>
       /\ item.op = "restore" => Len(st.log) < MaxLog
       /\ Write(Apply(item)) /\ UNCHANGED calls
       /\ upd' = [upd EXCEPT !.todo = Tail(@),
                             !.restored = IF item.op = "restore" THEN @ \cup {item.x.c.n} ELSE @]
EndScan ==
    /\ upd.pc = "repair" /\ upd.todo = <<>>
    /\ Write(RaiseChildIndex(st, upd.restored)) /\ UNCHANGED calls
    /\ upd' = [upd EXCEPT !.pc = "save"]
SaveScanned ==
    LET due == {i \in DOMAIN upd.txs : expired(upd.txs[i], upd.tip)}
    IN /\ upd.pc = "save"
       /\ Write([save_last_scanned_block(st, upd.tip) EXCEPT !.init = IF upd.scan THEN st.init ELSE @])
       /\ UNCHANGED calls
       /\ upd' = [upd EXCEPT !.pc = "ttl", !.todo = Ids(due)]

\* Step 5: what has expired is cancelled; an error ends the update, and with it
\* the thread.
Expire ==
    LET i == Head(upd.todo)
    IN /\ upd.pc = "ttl" /\ upd.todo # <<>>
       /\ IF cancellable(st, i)
          THEN Write(cancel_tx_and_outputs(st, i)) /\ upd' = [upd EXCEPT !.todo = Tail(@)]
          ELSE UNCHANGED <<wal, chain, pool, msgs, reorgs>> /\ upd' = [Idle EXCEPT !.pc = "dead"]
       /\ UNCHANGED calls
EndUpdate ==
    /\ upd.pc = "ttl" /\ upd.todo = <<>>
    /\ upd' = Idle /\ UNCHANGED vars
\* Without the node an update ends early, but its scan ends with an error, which
\* a caller of owner::scan gets and the updater thread dies of.
NodeUnreachable ==
    /\ NodeFaults /\ upd.pc \in {"kernel", "collect"}
    /\ upd' = IF upd.scan \/ upd.pc = "kernel" THEN Idle ELSE [Idle EXCEPT !.pc = "dead"]
    /\ UNCHANGED vars

UpdateStep ==
    \/ UpdateOutputs \/ ListTxs \/ LookUpKernel \/ GetTip \/ CollectOutputs \/ CompareOutputs
    \/ Repair \/ EndScan \/ SaveScanned \/ Expire \/ EndUpdate
\* owner::cancel_tx after an update of its own.
CancelNow(i) ==
    /\ calls < MaxUpdates /\ calls' = calls + 1
    /\ cancellable(st, i) /\ Write(cancel_tx_and_outputs(st, i))
Others ==
    \/ \E w \in Wallets : Start(w) \/ \E m \in msgs : Handle(w, m)
    \/ \E i \in 1 .. MaxLog : CancelNow(i)
    \/ \E m \in msgs : PostSlate(m)
    \/ MineBlock \/ Reorg
UpdateNext ==
    \/ UpdateStep \/ NodeUnreachable
    \/ \E del \in Scans : BeginScan(del)
    \/ Others /\ UNCHANGED upd

-----------------------------------------------------------------------------

\* On the chain, and found by the wallet.
Found(u) == \E o \in st.outs : CommitOf(st, o) = u.c /\ o.st \in {"Unspent", "Locked"}
Missing(n) == \E u \in Utxo(chain) : u.c.w = Me /\ u.c.n = n /\ ~Found(u)

\* An output of the chain is counted once: scans do not add a second record of an
\* output that the wallet has got meanwhile.
OneRecordEach ==
    \A o, p \in st.outs : CommitOf(st, o) = CommitOf(st, p) => o = p
=============================================================================
