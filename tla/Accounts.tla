------------------------------ MODULE Accounts ------------------------------
(***************************************************************************)
(* The accounts of a wallet: labels and the derivation paths they stand    *)
(* for, the child index of each path, and how a scan of the chain restores *)
(* both in a wallet recovered from its seed (libwallet/src/internal/       *)
(* keys.rs and scan.rs, impls/src/backends/lmdb.rs).                       *)
(*                                                                         *)
(* An account path m/k/0 is the number k and a key is a path and a child   *)
(* number.  An output is a key and the wallet that made it, the lost one   *)
(* or this one: two outputs with one key differ in their commitments.  A   *)
(* label is a pair of a word and a number, so that the labels "account_n"  *)
(* a scan makes up can meet the ones a user chooses.                       *)
(* The scan restores one output per database batch, and lets go of the     *)
(* wallet's mutex between two of them; the process may be killed there.    *)
(***************************************************************************)
EXTENDS Naturals, FiniteSets, SequencesExt

CONSTANTS
    UserLabels,  \* labels the user may give an account
    OldKeys,     \* sets of keys that the outputs of the lost wallet on the chain may have
    MaxPath,     \* highest account path
    MaxChild,    \* highest child number
    MaxKills     \* kills of the process

AccountsAssumption == MaxPath \in Nat /\ MaxChild \in Nat /\ MaxKills \in Nat

VARIABLES
    acct,      \* AcctPathMapping records: a function from labels to paths
    parent,    \* parent_key_id of the backend
    child,     \* child index of each path
    outputs,   \* outputs in the database
    utxos,     \* outputs of the seed on the chain
    scan,      \* scan in progress: <<>> or <<[missing, found_parents]>>
    scanned,   \* a scan has completed
    reused,    \* keys handed out although an output on the chain has them
    kills
vars == <<acct, parent, child, outputs, utxos, scan, scanned, reused, kills>>

Default == <<"default", 0>>
account(n) == <<"account", n>>
Paths == 0 .. MaxPath
Outputs == Paths \X (0 .. MaxChild) \X {"lost", "own"}
Key(output) == <<output[1], output[2]>>
Labels == {Default} \cup UserLabels \cup {account(n) : n \in 1 .. MaxPath + 1}

save_acct_path(a, label, path) == [l \in DOMAIN a \cup {label} |-> IF l = label THEN path ELSE a[l]]
accounts(a) == {a[l] : l \in DOMAIN a}
Highest(a) == CHOOSE p \in accounts(a) : \A q \in accounts(a) : q <= p

\* grin-wallet recover: an empty database, and a chain with the outputs of the lost wallet
Init ==
    /\ acct = [l \in {Default} |-> 0]
    /\ parent = 0 /\ child = [p \in Paths |-> 0]
    /\ outputs = {} /\ \E old \in OldKeys : utxos = {<<key[1], key[2], "lost">> : key \in old}
    /\ scan = <<>> /\ scanned = FALSE
    /\ reused = {} /\ kills = 0

-----------------------------------------------------------------------------
(* Accounts and keys *)

NextPath(a) == Highest(a) + 1
\* keys::new_acct_path: refuses a label in use
create_account_path(label) ==
    /\ label \notin DOMAIN acct
    /\ NextPath(acct) <= MaxPath
    /\ acct' = save_acct_path(acct, label, NextPath(acct))
    /\ UNCHANGED <<parent, child, outputs, utxos, scan, scanned, reused, kills>>

\* set_parent_key_id_by_name: an unknown label is an error
set_active_account(label) ==
    /\ label \in DOMAIN acct
    /\ parent' = acct[label]
    /\ UNCHANGED <<acct, child, outputs, utxos, scan, scanned, reused, kills>>

\* keys::next_available_key for an output this wallet receives; whether it is ever mined is up to the sender
Receive(mined) ==
    LET output == <<parent, child[parent], "own">> IN
    /\ child[parent] <= MaxChild
    /\ child' = [child EXCEPT ![parent] = @ + 1]
    /\ outputs' = outputs \cup {output}
    /\ utxos' = IF mined THEN utxos \cup {output} ELSE utxos
    /\ reused' = IF \E u \in utxos : Key(u) = Key(output) THEN reused \cup {Key(output)} ELSE reused
    /\ UNCHANGED <<acct, parent, scan, scanned, kills>>

\* LMDBBackend::new puts the default account back; the command line may name another one
Open(label) ==
    /\ label \in DOMAIN acct
    /\ acct' = save_acct_path(acct, Default, 0)
    /\ parent' = acct'[label]

-----------------------------------------------------------------------------
(* Scan *)

\* scan: what is on the chain and not in the database
BeginScan ==
    /\ scan = <<>>
    /\ scan' = <<[missing |-> utxos \ outputs, found_parents |-> [p \in {} |-> 0]]>>
    /\ UNCHANGED <<acct, parent, child, outputs, utxos, scanned, reused, kills>>

Found_Last(found, key) == [p \in DOMAIN found \cup {key[1]} |-> IF p = key[1] THEN key[2] ELSE found[p]]
Found(found, key) ==
    [p \in DOMAIN found \cup {key[1]} |->
        IF p # key[1] THEN found[p] ELSE IF p \in DOMAIN found /\ found[p] > key[2] THEN found[p] ELSE key[2]]
restore_missing_output ==
    /\ scan # <<>>
    /\ \E output \in scan[1].missing :
         /\ outputs' = outputs \cup {output}
         /\ scan' = <<[missing |-> scan[1].missing \ {output},
                       found_parents |-> Found(scan[1].found_parents, Key(output))]>>
    /\ UNCHANGED <<acct, parent, child, utxos, scanned, reused, kills>>

\* the labels of paths that have none, in the order the hash map yields them
Labelled(a, new) ==
    [l \in DOMAIN a \cup {account(Cardinality(DOMAIN a) + i - 1) : i \in DOMAIN new} |->
        LET i == l[2] - Cardinality(DOMAIN a) + 1
        IN  IF l[1] = "account" /\ l[2] >= Cardinality(DOMAIN a) /\ i \in DOMAIN new THEN new[i] ELSE a[l]]
NextIndex(index, max_child_index) == IF max_child_index >= index THEN max_child_index + 1 ELSE index
EndScan ==
    /\ scan # <<>> /\ scan[1].missing = {}
    /\ LET found == scan[1].found_parents IN
       /\ \E new \in SetToSeqs(DOMAIN found \ accounts(acct)) : acct' = Labelled(acct, new)
       /\ child' = [p \in Paths |-> IF p \in DOMAIN found THEN NextIndex(child[p], found[p]) ELSE child[p]]
    /\ scan' = <<>> /\ scanned' = TRUE
    /\ UNCHANGED <<parent, outputs, utxos, reused, kills>>

\* the next process opens the wallet again
Kill ==
    /\ kills < MaxKills
    /\ kills' = kills + 1
    /\ scan' = <<>>
    /\ \E label \in DOMAIN acct : Open(label)
    /\ UNCHANGED <<child, outputs, utxos, scanned, reused>>
\* a command ends and the next one opens the wallet
Reopen ==
    /\ scan = <<>>
    /\ \E label \in DOMAIN acct : Open(label)
    /\ UNCHANGED <<child, outputs, utxos, scan, scanned, reused, kills>>

Next ==
    \/ \E label \in UserLabels : create_account_path(label)
    \/ \E label \in Labels : set_active_account(label)
    \/ \E mined \in BOOLEAN : Receive(mined)
    \/ BeginScan \/ restore_missing_output \/ EndScan
    \/ Kill \/ Reopen
Spec == Init /\ [][Next]_vars

-----------------------------------------------------------------------------
(* Properties *)

\* Labels stand for paths and the active path is that of an account, whatever was created or restored.
TypeOK ==
    /\ DOMAIN acct \subseteq Labels /\ Default \in DOMAIN acct
    /\ \A l \in DOMAIN acct : acct[l] \in Paths
    /\ child \in [Paths -> 0 .. MaxChild + 1]
    /\ outputs \subseteq Outputs /\ utxos \subseteq Outputs
    /\ parent \in accounts(acct)
    /\ scan # <<>> => scan[1].missing \subseteq Outputs

\* Two labels never stand for the same path: new_acct_path and the labels scan makes up give every account keys of
\* its own, so that no two accounts count the same output in their balances.
PathsUnique == \A l, m \in DOMAIN acct : acct[l] = acct[m] => l = m

\* Once a scan has completed, every output in the database belongs to an account the user can name: scan.rs restores
\* "labels, account paths and child derivation indices" with the outputs.
OutputsNamed == scanned /\ scan = <<>> => \A output \in outputs : output[1] \in accounts(acct)

\* Once a scan has completed, the next key of every path is one that no output in the database has: scan raises the
\* child index past every output it restores.
KeysFresh == scanned /\ scan = <<>> => \A output \in outputs : output[2] < child[output[1]]

\* next_available_key hands out a key that no output on the chain has.
KeysNeverReused == reused = {}
=============================================================================
