---------------------------- MODULE OwnerUpdater ----------------------------
(***************************************************************************)
(* The background updater of the owner API: the threads start_updater      *)
(* spawns (api/src/owner.rs), Updater::run and the queue of status         *)
(* messages (libwallet/src/api_impl/owner_updater.rs), and the open and    *)
(* close commands of the command loop (src/cli/cli.rs) that work on the    *)
(* same wallet.  What an update does to the wallet is in WalletUpdate;     *)
(* here it succeeds or fails.                                              *)
(*                                                                         *)
(* The wallet's mask is a number (0: not masked); status messages are      *)
(* numbered in the order they are sent.                                    *)
(***************************************************************************)
EXTENDS Naturals, SequencesExt

CONSTANTS
    Masked,        \* wallets are opened with a mask
    NodeFaults,    \* the node may fail during a scan
    MaxThreads,    \* calls of start_updater
    MaxOpens, MaxCalls,
    MaxMessages,   \* messages sent
    QueueLen,      \* MESSAGE_QUEUE_MAX_LEN
    Counts         \* arguments of get_updater_messages

UpdaterAssumption == QueueLen \in Nat \ {0} /\ Counts \subseteq Nat

VARIABLES
    is_running,   \* the flag shared by Owner and Updater
    threads,      \* sequence of [pc, mask]
    backend,      \* <<>> or <<mask>>
    opens, calls,
    told,         \* thread that was inside run when stop_updater was called last
    stopped,      \* stop_updater was called after the last start_updater
    ignored,      \* of the last retrieve call: the refresh asked for was left out; a thread was running
    sent, channel, queue, read, dropped,
    cli           \* the command loop: [opened, alive]
vars == <<is_running, threads, backend, opens, calls, told, stopped, ignored, sent, channel, queue, read, dropped, cli>>
wallet == <<backend, opens>>
messages == <<sent, channel, queue, read, dropped>>

Init ==
    /\ is_running = FALSE
    /\ threads = <<>>
    /\ backend = <<>> /\ opens = 0 /\ calls = 0
    /\ told = 0 /\ stopped = FALSE /\ ignored = [skipped |-> FALSE, running |-> FALSE]
    /\ sent = 0 /\ channel = <<>> /\ queue = <<>> /\ read = <<>> /\ dropped = {}
    /\ cli = [opened |-> FALSE, alive |-> TRUE]

-----------------------------------------------------------------------------
(* Calls of the owner API *)

Call == calls < MaxCalls /\ calls' = calls + 1
start_updater_Free(mask) ==
    /\ Call /\ Len(threads) < MaxThreads
    /\ threads' = Append(threads, [pc |-> "run", mask |-> mask])
    /\ stopped' = FALSE
    /\ UNCHANGED <<is_running, wallet, told, ignored, messages, cli>>
start_updater(mask) ==
    /\ Call /\ Len(threads) < MaxThreads
    /\ threads' = Append(threads, [pc |-> "lock", mask |-> mask])
    /\ stopped' = FALSE
    /\ UNCHANGED <<is_running, wallet, told, ignored, messages, cli>>
InRun(t) == threads[t].pc \in {"opened", "update", "finish", "flag", "sleep"}
Running == {t \in DOMAIN threads : threads[t].pc \notin {"lock", "ended"}}
stop_updater ==
    /\ Call
    /\ is_running' = FALSE
    /\ stopped' = TRUE
    /\ told' = IF \E t \in DOMAIN threads : InRun(t) THEN CHOOSE t \in DOMAIN threads : InRun(t) ELSE told
    /\ UNCHANGED <<threads, wallet, ignored, messages, cli>>
\* retrieve_outputs, retrieve_txs, retrieve_summary_info and
\* retrieve_payment_proof, asked to refresh
retrieve ==
    /\ Call
    /\ ignored' = [skipped |-> is_running, running |-> Running # {}]
    /\ UNCHANGED <<is_running, threads, wallet, told, stopped, messages, cli>>

\* The API of another program opens the wallet, or the open command does: the
\* command's opened is never reset, and after a failed open an account to select
\* ends the loop when there is no wallet or no such account.
Reopen == opens < MaxOpens /\ opens' = opens + 1 /\ backend' = <<IF Masked THEN opens + 1 ELSE 0>>
OpenCommand ==
    /\ cli.alive
    /\ \E account \in {"none", "known", "unknown"}, ok \in BOOLEAN :
        /\ IF ok THEN Reopen ELSE UNCHANGED wallet
        /\ cli' = [opened |-> cli.opened \/ ok,
                   alive |-> account = "none" \/ ~(cli.opened \/ ok) \/ (account = "known" /\ backend' # <<>>)]
    /\ Call
    /\ UNCHANGED <<is_running, threads, told, stopped, ignored, messages>>
CloseCommand ==
    /\ cli.alive /\ Call
    /\ backend' = <<>>
    /\ UNCHANGED <<is_running, threads, opens, told, stopped, ignored, messages, cli>>

-----------------------------------------------------------------------------
(* An updater thread *)

Goto(t, pc) == threads' = [threads EXCEPT ![t].pc = pc]
At(t, pc) == threads[t].pc = pc
KeepApi == UNCHANGED <<calls, told, stopped, ignored, cli>>
LockUpdater(t) ==
    /\ At(t, "lock") /\ Running = {}
    /\ Goto(t, "run")
    /\ KeepApi /\ UNCHANGED <<is_running, wallet, messages>>
SetRunning(t) ==
    /\ At(t, "run")
    /\ is_running' = TRUE
    /\ Goto(t, "opened")
    /\ KeepApi /\ UNCHANGED <<wallet, messages>>
WalletOpened(t) ==
    /\ At(t, "opened")
    /\ Goto(t, IF backend # <<>> THEN "update" ELSE "flag")
    /\ KeepApi /\ UNCHANGED <<is_running, wallet, messages>>
\* update_wallet_state sends what it is about to do; the receiver never hangs up.
BeginUpdate(t) ==
    /\ At(t, "update")
    /\ Goto(t, "finish")
    /\ IF sent < MaxMessages THEN sent' = sent + 1 /\ channel' = Append(channel, sent + 1) ELSE UNCHANGED <<sent, channel>>
    /\ KeepApi /\ UNCHANGED <<is_running, wallet, queue, read, dropped>>
\* It fails when the wallet was closed meanwhile, or opened with another mask,
\* or when the node fails while the chain is scanned.
FinishUpdate(t) ==
    /\ At(t, "finish")
    /\ \/ backend = <<threads[t].mask>> /\ Goto(t, "flag")
       \/ backend # <<threads[t].mask>> /\ Goto(t, "ended")
       \/ NodeFaults /\ Goto(t, "ended")
    /\ KeepApi /\ UNCHANGED <<is_running, wallet, messages>>
TestFlag(t) ==
    /\ At(t, "flag")
    /\ Goto(t, IF is_running THEN "sleep" ELSE "ended")
    /\ KeepApi /\ UNCHANGED <<is_running, wallet, messages>>
Sleep(t) ==
    /\ At(t, "sleep")
    /\ Goto(t, "opened")
    /\ KeepApi /\ UNCHANGED <<is_running, wallet, messages>>
Thread(t) ==
    \/ LockUpdater(t) \/ SetRunning(t) \/ WalletOpened(t) \/ BeginUpdate(t) \/ FinishUpdate(t)
    \/ TestFlag(t) \/ Sleep(t)

(* The status messages: newest first in the queue *)
LogMessage ==
    LET q == <<Head(channel)>> \o queue IN
    /\ channel # <<>> /\ channel' = Tail(channel)
    /\ queue' = SubSeq(q, 1, IF Len(q) > QueueLen THEN QueueLen ELSE Len(q))
    /\ dropped' = dropped \union ToSet(SubSeq(q, QueueLen + 1, Len(q)))
    /\ UNCHANGED <<is_running, threads, wallet, calls, told, stopped, ignored, sent, read, cli>>
\* split_off takes the last ones, the oldest that were not read yet.
get_updater_messages(count) ==
    LET index == IF count < Len(queue) THEN Len(queue) - count ELSE 0 IN
    /\ Call
    /\ read' = Append(read, SubSeq(queue, index + 1, Len(queue)))
    /\ queue' = SubSeq(queue, 1, index)
    /\ UNCHANGED <<is_running, threads, wallet, told, stopped, ignored, sent, channel, dropped, cli>>

Api ==
    \/ \E mask \in {0} \union ToSet(backend) : start_updater(mask)
    \/ stop_updater \/ retrieve \/ OpenCommand \/ CloseCommand
    \/ \E count \in Counts : get_updater_messages(count)
Next == Api \/ (\E t \in DOMAIN threads : Thread(t)) \/ LogMessage
Spec == Init /\ [][Next]_vars
\* The threads are scheduled.
FairSpec == Spec /\ WF_vars(LogMessage) /\ \A t \in 1 .. MaxThreads : WF_vars(t \in DOMAIN threads /\ Thread(t))

-----------------------------------------------------------------------------
\* At most one thread is past the updater's mutex, however often start_updater
\* was called, and the flag is set only once a thread got there.
TypeOK ==
    /\ is_running => threads # <<>>
    /\ Running = {} \/ \E t \in DOMAIN threads : Running = {t}
    /\ \A t \in DOMAIN threads :
        threads[t].pc \in {"lock", "run", "opened", "update", "finish", "flag", "sleep", "ended"}
    /\ Len(queue) <= QueueLen

\* The messages a client reads and those in the queue are in the order they were
\* sent, newest first within one answer, none twice, and none is missing except
\* what was removed from a full queue before newer ones: "calling this function
\* at a specified interval should result in a complete message history".
HistoryComplete ==
    LET answers == FlattenSeq([i \in DOMAIN read |-> Reverse(read[i])])
        seen == answers \o Reverse(queue) \o channel IN
    /\ \A i, j \in DOMAIN seen : i < j => seen[i] < seen[j]
    /\ ToSet(seen) \union dropped = 1 .. sent
    /\ \A d \in dropped : \A i \in DOMAIN queue : d < queue[i]

=============================================================================
