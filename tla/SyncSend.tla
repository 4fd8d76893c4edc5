------------------------------ MODULE SyncSend ------------------------------
(***************************************************************************)
(* Owner and foreign calls that talk to another wallet while they run:     *)
(* init_send_tx and process_invoice_tx with send_args (api/src/owner.rs),  *)
(* receive_tx with a return address (api/src/foreign.rs),                  *)
(* try_slatepack_sync_workflow, HttpSlateSender (impls/src/adapters/       *)
(* http.rs) and Client::send_request (impls/src/client_utils/client.rs).   *)
(* Each wallet process has three mutexes the calls take: the wallet, the   *)
(* tor configuration of its Owner and the global runtime every outgoing    *)
(* request holds until it is answered or times out.                        *)
(*                                                                         *)
(* What the calls do to the slate and the database is in WalletTx; here a  *)
(* slate is the number of the call that made it.                           *)
(***************************************************************************)
EXTENDS Naturals, Sequences

CONSTANTS
    Scenarios,   \* sets of calls: sequences of [w, kind]
    Faults,      \* requests may be lost and nodes fail
    MaxCalls     \* calls of a behaviour, those the wallets make of each other included

Wallets == {"a", "b"}
Other(w) == IF w = "a" THEN "b" ELSE "a"
Kinds == {"init_send_tx", "process_invoice_tx", "receive_back"}
SendAssumption == Faults \in BOOLEAN /\ Scenarios \subseteq Seq([w : Wallets, kind : Kinds])

VARIABLES
    calls,      \* [w, kind, slate, parent, stage, pc, result]
    wallet,     \* holder of each wallet's mutex, 0 if free
    tor,        \* holder of each Owner's tor_config
    runtime,    \* holder of each process's RUNTIME
    version,    \* wallets whose node client has cached the node version
    received, locked, final, posted   \* slates
vars == <<calls, wallet, tor, runtime, version, received, locked, final, posted>>
data == <<received, locked, final, posted>>

NewCall(w, kind, slate, parent, stage) ==
    [w |-> w, kind |-> kind, slate |-> slate, parent |-> parent, stage |-> stage, pc |-> "wallet", result |-> "none"]
Init ==
    /\ \E s \in Scenarios : calls = [i \in DOMAIN s |-> NewCall(s[i].w, s[i].kind, i, 0, 1)]
    /\ wallet = [w \in Wallets |-> 0] /\ tor = [w \in Wallets |-> 0] /\ runtime = [w \in Wallets |-> 0]
    /\ version \in SUBSET Wallets
    /\ received = {} /\ locked = {} /\ final = {} /\ posted = {}

C(i) == calls[i]
W(i) == calls[i].w
At(i, pc) == calls[i].pc = pc
Goto(i, pc) == calls' = [calls EXCEPT ![i].pc = pc]
Return(i, result) == calls' = [calls EXCEPT ![i].pc = "done", ![i].result = result]
Release(m, i) == [w \in Wallets |-> IF m[w] = i THEN 0 ELSE m[w]]
Free(m, i) == m[W(i)] = 0
Takes(m, i) == [m EXCEPT ![W(i)] = i]

-----------------------------------------------------------------------------
(* The part of a call that works on its own wallet *)

LockWallet(i) ==
    /\ At(i, "wallet") /\ Free(wallet, i)
    /\ wallet' = Takes(wallet, i)
    /\ Goto(i, CASE C(i).kind \in {"init_send_tx", "process_invoice_tx"} -> "refresh"
                 [] C(i).kind = "finalize_tx" -> "finalize"
                 [] OTHER -> "version")
    /\ UNCHANGED <<tor, runtime, version, data>>
\* libwallet's init_send_tx and process_invoice_tx refresh the outputs first.
\* init_send_tx gives the wallet back before it sends, process_invoice_tx does not.
Refresh(i) ==
    /\ At(i, "refresh") /\ Free(runtime, i)
    /\ \/ /\ Goto(i, "tor")
          /\ wallet' = IF C(i).kind = "init_send_tx" THEN Release(wallet, i) ELSE wallet
       \/ Faults /\ Return(i, "err") /\ wallet' = Release(wallet, i)
    /\ UNCHANGED <<tor, runtime, version, data>>
LockTor(i) ==
    /\ At(i, "tor") /\ Free(tor, i)
    /\ tor' = Takes(tor, i)
    /\ Goto(i, "dial")
    /\ UNCHANGED <<wallet, runtime, version, data>>
\* check_version and receive_tx ask the node for its version once.
get_version_info(i) ==
    /\ At(i, "version")
    /\ W(i) \in version \/ Free(runtime, i)
    /\ \/ version' = version \union {W(i)}
       \/ Faults /\ UNCHANGED version
    /\ IF C(i).kind = "check_version" THEN Return(i, "ok") /\ wallet' = Release(wallet, i)
       ELSE Goto(i, "receive") /\ UNCHANGED wallet
    /\ UNCHANGED <<tor, runtime, data>>
receive_tx(i) ==
    /\ At(i, "receive")
    /\ received' = received \union {C(i).slate}
    /\ IF C(i).slate \in received THEN Return(i, "err") /\ wallet' = Release(wallet, i)
       ELSE IF C(i).kind = "receive_back" THEN Goto(i, "dial") /\ UNCHANGED wallet
       ELSE Return(i, "ok") /\ wallet' = Release(wallet, i)
    /\ UNCHANGED <<tor, runtime, version, locked, final, posted>>
tx_lock_outputs(i) ==
    /\ At(i, "lock") /\ Free(wallet, i)
    /\ locked' = locked \union {C(i).slate}
    /\ Goto(i, "finalize")
    /\ UNCHANGED <<wallet, tor, runtime, version, received, final, posted>>
\* The owner's finalize_tx takes the wallet for itself; the foreign one has it.
finalize_tx(i) ==
    /\ At(i, "finalize") /\ (Free(wallet, i) \/ wallet[W(i)] = i)
    /\ final' = final \union {C(i).slate}
    /\ Goto(i, "post")
    /\ UNCHANGED <<wallet, tor, runtime, version, received, locked, posted>>
\* The foreign finalize_tx holds the wallet while it posts.
post_tx(i) ==
    /\ At(i, "post") /\ (Free(wallet, i) \/ wallet[W(i)] = i) /\ Free(runtime, i)
    /\ \/ posted' = posted \union {C(i).slate} /\ Return(i, "ok")
       \/ Faults /\ Return(i, "err") /\ UNCHANGED posted
    /\ wallet' = Release(wallet, i) /\ tor' = Release(tor, i)
    /\ UNCHANGED <<runtime, version, received, locked, final>>

-----------------------------------------------------------------------------
(* The part that talks to the other wallet: HttpSlateSender::send_tx first   *)
(* asks for the other wallet's version, then sends the slate.                *)

Method(i) ==
    IF C(i).stage = 1 THEN "check_version"
    ELSE IF C(i).kind = "init_send_tx" THEN "receive_tx" ELSE "finalize_tx"
send_request(i) ==
    /\ At(i, "dial") /\ Free(runtime, i)
    /\ runtime' = Takes(runtime, i)
    /\ LET waiting == [calls EXCEPT ![i].pc = "wait"]
           request == NewCall(Other(W(i)), Method(i), C(i).slate, i, C(i).stage) IN
       \/ Len(calls) < MaxCalls /\ calls' = Append(waiting, request)
       \/ Faults /\ calls' = waiting
    /\ UNCHANGED <<wallet, tor, version, data>>
Replies(i) == {h \in DOMAIN calls : C(h).parent = i /\ C(h).stage = C(i).stage /\ At(h, "done")}
AfterSend(i) == IF C(i).kind = "init_send_tx" THEN "lock" ELSE "return"
Answer(i) ==
    /\ At(i, "wait")
    /\ \E h \in Replies(i) :
        calls' = IF C(h).result = "ok"
                 THEN [calls EXCEPT ![i].stage = 2, ![i].pc = IF C(i).stage = 1 THEN "dial" ELSE AfterSend(i)]
                 ELSE [calls EXCEPT ![i].pc = "failed"]
    /\ runtime' = Release(runtime, i)
    /\ UNCHANGED <<wallet, tor, version, data>>
TimeOut_Never(i) == FALSE /\ UNCHANGED vars
\* The connector's read timeout.  The other wallet goes on with the request.
TimeOut(i) ==
    /\ At(i, "wait") /\ Replies(i) = {}
    /\ Goto(i, "failed")
    /\ runtime' = Release(runtime, i)
    /\ UNCHANGED <<wallet, tor, version, data>>
ReturnSlate(i) ==
    /\ At(i, "return")
    /\ Return(i, "ok")
    /\ wallet' = Release(wallet, i) /\ tor' = Release(tor, i)
    /\ UNCHANGED <<runtime, version, data>>
\* try_slatepack_sync_workflow returns Ok(None): init_send_tx returns the slate
\* as it was, process_invoice_tx and receive_tx unwrap the None.
SendFailed(i) ==
    /\ At(i, "failed")
    /\ Return(i, IF C(i).kind = "init_send_tx" THEN "unsent" ELSE "panic")
    /\ wallet' = Release(wallet, i) /\ tor' = Release(tor, i)
    /\ UNCHANGED <<runtime, version, data>>

CallStep(i) ==
    \/ LockWallet(i) \/ Refresh(i) \/ LockTor(i) \/ get_version_info(i) \/ receive_tx(i)
    \/ tx_lock_outputs(i) \/ finalize_tx(i) \/ post_tx(i)
    \/ send_request(i) \/ Answer(i) \/ TimeOut(i) \/ ReturnSlate(i) \/ SendFailed(i)
Next == \E i \in DOMAIN calls : CallStep(i)
Spec == Init /\ [][Next]_vars
\* Every thread is scheduled, and a request that is not answered times out.
FairSpec == Spec /\ \A i \in 1 .. MaxCalls : WF_vars(i \in DOMAIN calls /\ CallStep(i))

-----------------------------------------------------------------------------
Holds(i) == {<<m, w>> \in {"wallet", "tor", "runtime"} \X Wallets :
    CASE m = "wallet" -> wallet[w] = i [] m = "tor" -> tor[w] = i [] OTHER -> runtime[w] = i}
\* A call that has returned or panicked holds no mutex, and only a call that
\* waits for an answer holds the runtime.
TypeOK ==
    /\ \A i \in DOMAIN calls : At(i, "done") => Holds(i) = {} /\ C(i).result # "none"
    /\ \A w \in Wallets : runtime[w] # 0 => At(runtime[w], "wait") /\ W(runtime[w]) = w
    /\ version \subseteq Wallets
    /\ final \union posted \union received \union locked \subseteq DOMAIN calls

\* The result of init_send_tx tells what has happened: a slate returned as not
\* sent is neither locked nor finalized, even if the recipient got it after all,
\* and one returned as sent is received, locked, finalized and posted.
OutcomeTrue == \A i \in DOMAIN calls : C(i).kind = "init_send_tx" /\ At(i, "done") =>
    CASE C(i).result = "unsent" -> i \notin locked \union final \union posted
      [] C(i).result = "ok" -> i \in received \intersect locked \intersect final \intersect posted
      [] OTHER -> i \notin posted

\* Every call returns, whoever waits for whom: "All wallet functions operate on
\* an Arc::Mutex to allow multithreading where needed".
AllReturned == \A i \in DOMAIN calls : At(i, "done")
EveryCallReturns == <>[]AllReturned

=============================================================================
