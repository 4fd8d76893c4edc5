--------------------------- MODULE WalletCommands ---------------------------
(***************************************************************************)
(* The commands of grin-wallet (controller/src/command.rs, with the        *)
(* argument parsing of src/cmd/wallet_args.rs that decides what they do).  *)
(* A command is a program of several API calls, each of which changes the  *)
(* wallet; it may end with an error, or be killed, between any two.        *)
(*                                                                         *)
(* The API calls are those of WalletTx, at the grain the commands tell     *)
(* apart: a slate has a private context with its inputs, entries of the    *)
(* transaction log, and a stored transaction that is partial or final.     *)
(* The other party is external: it answers the slatepacks it is given, at  *)
(* once over Tor when it listens, or later with a slatepack of its own.    *)
(***************************************************************************)
EXTENDS Naturals, Sequences, FiniteSets, SequencesExt

CONSTANTS Coins,          \* outputs of the wallet
          MaxSlates, MaxCommands, MaxKills,
          Commands,       \* the commands in use
          LateLocks, Estimates   \* values of the flags of send and pay

CommandsAssumption ==
    /\ LateLocks \subseteq BOOLEAN /\ Estimates \subseteq BOOLEAN
    /\ Commands \subseteq {"send", "receive", "finalize", "invoice", "pay", "post", "repost", "cancel"}

VARIABLES ctx, sel,       \* kind of the private context of a slate, its inputs
          log, stored,    \* transaction log, stored transactions
          coin,           \* status of the outputs
          files, inbox,   \* slatepacks written by the commands, and by the other party
          sent,           \* slates the other party has got over Tor
          posted, chain,  \* transactions at the node, and in blocks
          cmd, result,    \* the command that runs, and how the last one ended
          typed,          \* the user typed the amount of the invoice
          commands, kills

wallet == <<ctx, sel, log, stored, coin>>
vars == <<wallet, files, inbox, sent, posted, chain, cmd, result, typed, commands, kills>>

Slates == 1..MaxSlates
NoResult == [name |-> "none", ok |-> TRUE, s |-> 0, flag |-> FALSE]
Idle == [name |-> "none", s |-> 0, at |-> "none", state |-> "none", flag |-> FALSE]

Init ==
    /\ ctx = [s \in Slates |-> "none"] /\ sel = [s \in Slates |-> {}]
    /\ log = <<>> /\ stored = [s \in Slates |-> "none"]
    /\ coin = [c \in Coins |-> "Unspent"]
    /\ files = {} /\ inbox = {} /\ sent = {} /\ posted = {} /\ chain = {}
    /\ cmd = Idle /\ result = NoResult
    /\ typed = {} /\ commands = 0 /\ kills = 0

Used == {s \in Slates : ctx[s] # "none" \/ stored[s] # "none"
                        \/ \E f \in files \cup inbox \cup sent : f[1] = s}
Fresh == {s \in Slates \ Used : \A r \in 1..(s - 1) : r \in Used}
EntriesOf(s, t) == {i \in DOMAIN log : log[i].s = s /\ log[i].t = t}

Go(at) == cmd' = [cmd EXCEPT !.at = at] /\ UNCHANGED result
End(ok) ==
    /\ cmd' = Idle
    /\ result' = [name |-> cmd.name, ok |-> ok, s |-> cmd.s, flag |-> cmd.flag]
At(name, at) == cmd.name = name /\ cmd.at = at
Begin(name, s, at, state, flag) ==
    /\ name \in Commands \cup {"estimate"} /\ cmd = Idle /\ commands < MaxCommands
    /\ commands' = commands + 1
    /\ cmd' = [name |-> name, s |-> s, at |-> at, state |-> state, flag |-> flag]
    /\ result' = NoResult

outside == <<files, inbox, sent, posted, chain, typed, commands, kills>>

(* API calls *)

\* tx_lock_outputs: the inputs of the context are locked and a new log entry is
\* written, whether or not there is one for the slate.
tx_lock_outputs(s, ins) ==
    /\ coin' = [c \in Coins |-> IF c \in ins THEN "Locked" ELSE coin[c]]
    /\ log' = Append(log, [s |-> s, t |-> "TxSent", ins |-> ins, conf |-> FALSE])
    /\ stored' = [stored EXCEPT ![s] = "partial"]

\* Coin selection: any unspent output, if there is one.
Selected == {{c} : c \in {d \in Coins : coin[d] = "Unspent"}}

(* send *)

StartSend ==
    \/ \E s \in Fresh, late \in LateLocks : Begin("send", s, "init", "S1", late)
    \/ TRUE \in Estimates /\ "send" \in Commands /\ \E s \in Fresh : Begin("estimate", s, "estimate", "S1", FALSE)
SendEstimate ==
    /\ At("estimate", "estimate") /\ End(Selected # {})
    /\ UNCHANGED <<wallet, outside>>
SendInit ==
    /\ At("send", "init")
    /\ \/ \E ins \in Selected :
              /\ ctx' = [ctx EXCEPT ![cmd.s] = IF cmd.flag THEN "late" ELSE "send"]
              /\ sel' = [sel EXCEPT ![cmd.s] = IF cmd.flag THEN {} ELSE ins]
              /\ Go("sync")
       \/ Selected = {} /\ End(FALSE) /\ UNCHANGED <<ctx, sel>>
    /\ UNCHANGED <<log, stored, coin, outside>>
\* try_slatepack_sync_workflow with the address of the recipient: the slate comes
\* back, or it does not, whether or not it arrived.
SendSync ==
    /\ At("send", "sync")
    /\ \/ sent' = sent \cup {<<cmd.s, "S1">>} /\ Go("lock")
       \/ sent' \in {sent, sent \cup {<<cmd.s, "S1">>}} /\ Go("outlock")
    /\ UNCHANGED <<wallet, files, inbox, posted, chain, typed, commands, kills>>
SendLock ==
    /\ At("send", "lock")
    /\ tx_lock_outputs(cmd.s, sel[cmd.s]) /\ Go("finalize")
    /\ UNCHANGED <<ctx, sel, outside>>

\* finalize_tx of the owner API.  A late locked slate selects its inputs here.
OwnerFinalize(s) ==
    \E ins \in IF ctx[s] = "late" THEN Selected ELSE {sel[s]} :
        /\ sel' = [sel EXCEPT ![s] = ins]
        /\ IF ctx[s] = "late"
           THEN /\ coin' = [c \in Coins |-> IF c \in ins THEN "Locked" ELSE coin[c]]
                /\ log' = Append(log, [s |-> s, t |-> "TxSent", ins |-> ins, conf |-> FALSE])
           ELSE UNCHANGED <<coin, log>>
        /\ stored' = [stored EXCEPT ![s] = "final"]
        /\ ctx' = [ctx EXCEPT ![s] = "none"]
CanFinalize(s) ==
    \/ ctx[s] = "send" /\ EntriesOf(s, "TxSent") # {}
    \/ ctx[s] = "late" /\ Selected # {}
SendFinalize ==
    /\ At("send", "finalize")
    /\ \/ CanFinalize(cmd.s) /\ OwnerFinalize(cmd.s) /\ Go("post")
       \/ ~CanFinalize(cmd.s) /\ End(FALSE) /\ UNCHANGED wallet
    /\ UNCHANGED outside
SendPost ==
    /\ At("send", "post")
    /\ \/ posted' = posted \cup {cmd.s} /\ End(TRUE)
       \/ UNCHANGED posted /\ End(FALSE)
    /\ UNCHANGED <<wallet, files, inbox, sent, chain, typed, commands, kills>>

(* output_slatepack *)

\* The outputs are locked, if the caller says so, before the file is written.
OutLock_Late(s) == Go("write") /\ UNCHANGED wallet
OutLock(s) ==
    IF ctx[s] = "none" THEN End(FALSE) /\ UNCHANGED wallet
    ELSE tx_lock_outputs(s, sel[s]) /\ Go("write") /\ UNCHANGED <<ctx, sel>>
OutputLock == cmd.at = "outlock" /\ OutLock(cmd.s) /\ UNCHANGED outside
OutputWrite ==
    /\ cmd.at = "write"
    /\ \/ files' = files \cup {<<cmd.s, cmd.state>>} /\ End(TRUE)
       \/ UNCHANGED files /\ End(FALSE)          \* the file cannot be written
    /\ UNCHANGED <<wallet, inbox, sent, posted, chain, typed, commands, kills>>

(* receive *)

StartReceive == \E f \in inbox : f[2] = "S1" /\ Begin("receive", f[1], "receive", "S2", FALSE)
ReceiveTx ==
    /\ At("receive", "receive")
    /\ \/ /\ EntriesOf(cmd.s, "TxReceived") = {}
          /\ log' = Append(log, [s |-> cmd.s, t |-> "TxReceived", ins |-> {}, conf |-> FALSE])
          /\ stored' = [stored EXCEPT ![cmd.s] = "partial"]
          /\ Go("sync")
       \/ EntriesOf(cmd.s, "TxReceived") # {} /\ End(FALSE) /\ UNCHANGED <<log, stored>>
    /\ UNCHANGED <<ctx, sel, coin, outside>>
\* The sender's foreign API finalizes the transaction, and posts it.
ReceiveSync ==
    /\ At("receive", "sync")
    /\ \/ sent' = sent \cup {<<cmd.s, "S2">>} /\ posted' = posted \cup {cmd.s} /\ End(TRUE)
       \/ /\ \/ UNCHANGED <<sent, posted>>
             \/ sent' = sent \cup {<<cmd.s, "S2">>} /\ posted' = posted \cup {cmd.s}
          /\ Go("write")
    /\ UNCHANGED <<wallet, files, inbox, chain, typed, commands, kills>>

(* finalize *)

\* The state of the slate decides which of the two finalize_tx is called.
StartFinalize ==
    \E f \in inbox, nopost \in BOOLEAN :
        /\ f[2] \in {"S2", "I2"}
        /\ Begin("finalize", f[1], IF f[2] = "I2" THEN "foreign" ELSE "owner",
                 IF f[2] = "I2" THEN "I3" ELSE "S3", nopost)
Finalize ==
    /\ At("finalize", "owner")
    /\ \/ CanFinalize(cmd.s) /\ EntriesOf(cmd.s, "TxSent") # {} /\ OwnerFinalize(cmd.s)
          /\ Go(IF cmd.flag THEN "write" ELSE "post")
       \/ (~CanFinalize(cmd.s) \/ EntriesOf(cmd.s, "TxSent") = {}) /\ End(FALSE) /\ UNCHANGED wallet
    /\ UNCHANGED outside
ForeignFinalize ==
    /\ At("finalize", "foreign")
    /\ \/ /\ ctx[cmd.s] = "invoice" /\ EntriesOf(cmd.s, "TxReceived") # {}
          /\ stored' = [stored EXCEPT ![cmd.s] = "final"]
          /\ ctx' = [ctx EXCEPT ![cmd.s] = "none"]
          /\ Go(IF cmd.flag THEN "write" ELSE "post")
       \/ (ctx[cmd.s] # "invoice" \/ EntriesOf(cmd.s, "TxReceived") = {})
          /\ End(FALSE) /\ UNCHANGED <<stored, ctx>>
    /\ UNCHANGED <<sel, log, coin, outside>>
PostFailed == End(FALSE)
FinalizePost ==
    /\ At("finalize", "post")
    /\ \/ posted' = posted \cup {cmd.s} /\ Go("write")
       \/ UNCHANGED posted /\ PostFailed
    /\ UNCHANGED <<wallet, files, inbox, sent, chain, typed, commands, kills>>

(* invoice and pay *)

StartInvoice == \E s \in Fresh : Begin("invoice", s, "issue", "I1", FALSE)
IssueInvoice ==
    /\ At("invoice", "issue")
    /\ log' = Append(log, [s |-> cmd.s, t |-> "TxReceived", ins |-> {}, conf |-> FALSE])
    /\ ctx' = [ctx EXCEPT ![cmd.s] = "invoice"]
    /\ Go("write")
    /\ UNCHANGED <<sel, stored, coin, outside>>

StartPay == \E f \in inbox : f[2] = "I1" /\ Begin("pay", f[1], "prompt", "I2", FALSE)
\* prompt_pay_invoice: the amount is typed, or the command is left with q or an
\* interrupt; at the end of the input the prompt returns false, which the caller
\* does not look at.
Prompt ==
    /\ At("pay", "prompt")
    /\ \/ typed' = typed \cup {cmd.s} /\ Go("process")
       \/ UNCHANGED typed /\ Go("process")
       \/ UNCHANGED typed /\ End(FALSE)
    /\ UNCHANGED <<wallet, files, inbox, sent, posted, chain, commands, kills>>
ProcessInvoice ==
    /\ At("pay", "process")
    /\ LET may == EntriesOf(cmd.s, "TxSent") = {} IN
       \/ \E ins \in Selected :
              /\ may
              /\ ctx' = [ctx EXCEPT ![cmd.s] = "pay"] /\ sel' = [sel EXCEPT ![cmd.s] = ins]
              /\ Go("sync")
       \/ (~may \/ Selected = {}) /\ End(FALSE) /\ UNCHANGED <<ctx, sel>>
    /\ UNCHANGED <<log, stored, coin, outside>>
\* With --estimate-selection nothing is processed, but the command goes on.
PayEstimate ==
    /\ At("pay", "process") /\ TRUE \in Estimates
    /\ \/ /\ Selected # {} /\ UNCHANGED result
          /\ cmd' = [cmd EXCEPT !.at = "outlock", !.state = "I1", !.flag = TRUE]
       \/ Selected = {} /\ End(FALSE)
    /\ UNCHANGED <<wallet, outside>>
\* The payee's foreign API finalizes the transaction, and posts it.
PaySync ==
    /\ At("pay", "sync")
    /\ \/ /\ sent' = sent \cup {<<cmd.s, "I2">>} /\ posted' = posted \cup {cmd.s}
          /\ End(TRUE) \/ Go("outlock")
       \/ UNCHANGED <<sent, posted>> /\ Go("outlock")
    /\ UNCHANGED <<wallet, files, inbox, chain, typed, commands, kills>>

(* post, repost, cancel *)

Post ==
    /\ \E f \in files : f[2] \in {"S3", "I3"} /\ Begin("post", f[1], "post", f[2], FALSE)
    /\ UNCHANGED <<wallet, files, inbox, sent, posted, chain, typed, kills>>
PostFile ==
    /\ At("post", "post")
    /\ \/ posted' = posted \cup {cmd.s} /\ End(TRUE)
       \/ UNCHANGED posted /\ End(FALSE)
    /\ UNCHANGED <<wallet, files, inbox, sent, chain, typed, commands, kills>>

\* A confirmed transaction and one that is not signed are not posted again.
MayRepost(i) == ~log[i].conf /\ stored[log[i].s] = "final"
Repost ==
    /\ \E i \in DOMAIN log :
           /\ stored[log[i].s] # "none" /\ MayRepost(i)
           /\ Begin("repost", log[i].s, "post", "S3", FALSE)
    /\ UNCHANGED <<wallet, files, inbox, sent, posted, chain, typed, kills>>
RepostTx ==
    /\ At("repost", "post")
    /\ posted' \in {posted, posted \cup {cmd.s}} /\ End(TRUE)
    /\ UNCHANGED <<wallet, files, inbox, sent, chain, typed, commands, kills>>

\* cancel by the number of the entry, or by the id of the slate, which must then
\* have one entry.
Cancelled(i) == log[i].t \in {"TxSentCancelled", "TxReceivedCancelled"}
CancelledType(t) == IF t = "TxSent" THEN "TxSentCancelled" ELSE "TxReceivedCancelled"
CancelEntry(i) ==
    /\ log' = [log EXCEPT ![i].t = CancelledType(@)]
    /\ coin' = [c \in Coins |-> IF c \in log[i].ins /\ coin[c] = "Locked" THEN "Unspent" ELSE coin[c]]
BySlate(s) == {i \in DOMAIN log : log[i].s = s}
Cancel ==
    /\ "cancel" \in Commands /\ cmd = Idle /\ commands < MaxCommands
    /\ commands' = commands + 1
    /\ \E i \in DOMAIN log, slate_id \in BOOLEAN :
           LET ok == ~log[i].conf /\ ~Cancelled(i)
                     /\ (slate_id => Cardinality(BySlate(log[i].s)) = 1)
           IN  /\ IF ok THEN CancelEntry(i) ELSE UNCHANGED <<log, coin>>
               /\ result' = [name |-> "cancel", ok |-> ok, s |-> log[i].s, flag |-> slate_id]
    /\ UNCHANGED <<ctx, sel, stored, files, inbox, sent, posted, chain, cmd, typed, kills>>

(* The other party, the node, and the end of a process *)

Peer ==
    /\ \/ \E f \in files \ sent, g \in {<<"S1", "S2">>, <<"I1", "I2">>} :
              f[2] = g[1] /\ inbox' = inbox \cup {<<f[1], g[2]>>} /\ UNCHANGED posted
       \/ \E s \in Fresh, st \in {"S1", "I1"} :
              /\ (IF st = "S1" THEN "receive" ELSE "pay") \in Commands /\ cmd = Idle
              /\ inbox' = inbox \cup {<<s, st>>} /\ UNCHANGED posted
       \/ \E f \in files : f[2] \in {"S2", "I2"} /\ posted' = posted \cup {f[1]} /\ UNCHANGED inbox
    /\ UNCHANGED <<wallet, files, sent, chain, cmd, result, typed, commands, kills>>

\* A posted transaction is mined, if its inputs are there, and the wallet notices.
Confirm ==
    /\ cmd = Idle
    /\ \E s \in posted \ chain :
           /\ \A c \in sel[s] : coin[c] # "Spent"
           /\ chain' = chain \cup {s}
           /\ coin' = [c \in Coins |-> IF c \in sel[s] THEN "Spent" ELSE coin[c]]
           /\ log' = [i \in DOMAIN log |-> IF log[i].s = s /\ ~Cancelled(i)
                                           THEN [log[i] EXCEPT !.conf = TRUE] ELSE log[i]]
    /\ UNCHANGED <<ctx, sel, stored, files, inbox, sent, posted, cmd, result, typed, commands, kills>>

Kill ==
    /\ cmd # Idle /\ kills < MaxKills /\ kills' = kills + 1
    /\ cmd' = Idle /\ result' = NoResult
    /\ UNCHANGED <<wallet, files, inbox, sent, posted, chain, typed, commands>>

Starts == (StartSend \/ StartReceive \/ StartFinalize \/ StartInvoice \/ StartPay)
          /\ UNCHANGED <<wallet, files, inbox, sent, posted, chain, typed, kills>>
Steps ==
    \/ SendEstimate \/ SendInit \/ SendSync \/ SendLock \/ SendFinalize \/ SendPost
    \/ OutputLock \/ OutputWrite \/ ReceiveTx \/ ReceiveSync
    \/ Finalize \/ ForeignFinalize \/ FinalizePost
    \/ IssueInvoice \/ Prompt \/ ProcessInvoice \/ PayEstimate \/ PaySync
    \/ PostFile \/ RepostTx
Next == Starts \/ Steps \/ Post \/ Repost \/ Cancel \/ Peer \/ Confirm \/ Kill
Spec == Init /\ [][Next]_vars

----------------------------------------------------------------------------
(* Properties *)

\* Type invariant.
TypeOK ==
    /\ ctx \in [Slates -> {"none", "send", "late", "invoice", "pay"}]
    /\ sel \in [Slates -> SUBSET Coins]
    /\ \A i \in DOMAIN log : log[i].s \in Slates /\ log[i].ins \subseteq Coins
                             /\ log[i].t \in {"TxSent", "TxSentCancelled"}
                                   \cup IF log[i].ins = {} THEN {"TxReceived", "TxReceivedCancelled"} ELSE {}
    /\ stored \in [Slates -> {"none", "partial", "final"}]
    /\ coin \in [Coins -> {"Unspent", "Locked", "Spent"}]
    /\ files \cup inbox \cup sent \subseteq Slates \X {"S1", "S2", "S3", "I1", "I2", "I3"}
    /\ chain \subseteq posted /\ posted \subseteq Slates

\* A slatepack that spends coins of the wallet is written only once they are
\* locked, also if the command is killed half way: until the transaction is
\* cancelled, no other command takes them (output_slatepack).
FileIsLocked ==
    \A f \in files : f[2] \in {"S1", "I2"} /\ (\A i \in BySlate(f[1]) : ~Cancelled(i)) =>
        \A c \in sel[f[1]] : coin[c] # "Unspent"

\* Only a complete transaction is ever posted by a command of this wallet: one
\* that the wallet has finalized, or one that the other party has completed.
PostedIsFinal ==
    \A s \in posted : stored[s] = "final" \/ (\E f \in files \cup sent : f \in {<<s, "S2">>, <<s, "I2">>})

\* A command that ends without an error has done what it is for: the slate has
\* gone to the other party, as a file or over Tor, and a transaction that was to
\* be posted has been.
OkMeansDone ==
    result.ok =>
        LET out(st) == <<result.s, st>> \in files \cup sent IN
        CASE result.name = "send" -> result.s \in posted \/ <<result.s, "S1">> \in files
          [] result.name = "receive" -> out("S2")
          [] result.name = "invoice" -> out("I1")
          [] result.name = "pay" -> out("I2") \/ result.flag
          [] result.name = "finalize" ->
                 (out("S3") \/ out("I3")) /\ (result.flag \/ result.s \in posted)
          [] OTHER -> TRUE

=============================================================================
