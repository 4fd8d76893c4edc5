--------------------------- MODULE WalletLifecycle ---------------------------
(***************************************************************************)
(* The life of a wallet directory: DefaultLCProvider                       *)
(* (impls/src/lifecycle/default.rs), the seed file (lifecycle/seed.rs) and *)
(* the init, recover and open steps of the command line.  A call is a list *)
(* of steps, each of which makes one change to the disk; the process may   *)
(* be killed between two steps and a write of the seed file may fail.      *)
(* Calls hold the mutex of the wallet instance and so never overlap.       *)
(*                                                                         *)
(* A seed is a number (0: words that are no mnemonic).  An encrypted seed  *)
(* file is a record of the seed and the password that opens it; a file     *)
(* that was created but not written completely is not whole.  The database *)
(* is abstracted to the seeds whose outputs it lists, the init status and  *)
(* whether a scan was ever saved in it.                                    *)
(***************************************************************************)
EXTENDS Naturals, SequencesExt

CONSTANTS
    Passwords,   \* passwords the user chooses from
    MaxSeeds,    \* seeds drawn
    MaxFaults,   \* kills and failed writes
    MaxCalls     \* calls made

LifecycleAssumption == MaxSeeds \in Nat /\ MaxFaults \in Nat /\ MaxCalls \in Nat

VARIABLES
    disk,      \* the top level directory
    backend,   \* LMDBBackend of the process: <<>> or <<[seed, db]>>
    todo,      \* steps left of the call in progress
    result,    \* of the last call
    phrases,   \* seeds whose recovery phrase the user has seen
    drawn,     \* seeds drawn so far
    chain,     \* seeds that have outputs on the chain
    gone,      \* seeds the user has asked to delete
    faults, calls
vars == <<disk, backend, todo, result, phrases, drawn, chain, gone, faults, calls>>

Empty == [whole |-> FALSE, seed |-> 0, password |-> ""]
NoDisk == [config |-> FALSE, secret |-> FALSE, data |-> FALSE, seed |-> <<>>, bak |-> <<>>, db |-> <<>>, dbs |-> 0]
Returned(op, ok, seed, password) == [op |-> op, ok |-> ok, seed |-> seed, password |-> password]
Init ==
    /\ disk = NoDisk
    /\ backend = <<>> /\ todo = <<>>
    /\ result = Returned("none", TRUE, 0, "")
    /\ phrases = {} /\ drawn = 0 /\ chain = {} /\ gone = {}
    /\ faults = 0 /\ calls = 0

-----------------------------------------------------------------------------
(* The seed file *)

seed_file_exists(d) == d.seed # <<>>
\* EncryptedWalletSeed::from_seed and decrypt: authenticated encryption
from_seed(seed, password) == [whole |-> TRUE, seed |-> seed, password |-> password]
decrypt(file, password) == IF file.whole /\ file.password = password THEN <<file.seed>> ELSE <<>>
from_file(d, password) == IF seed_file_exists(d) THEN decrypt(d.seed[1], password) ELSE <<>>
from_mnemonic(words) == IF words = 0 THEN <<>> ELSE <<words>>
\* wallet.seed.bak, .bak.1, .bak.2, ...: the first name that is free
FreeSlot(bak) == IF \E i \in DOMAIN bak : bak[i] = <<>> THEN CHOOSE i \in DOMAIN bak :
                    bak[i] = <<>> /\ \A j \in 1 .. i - 1 : bak[j] # <<>> ELSE Len(bak) + 1
Put(bak, i, file) == [j \in 1 .. (IF i > Len(bak) THEN i ELSE Len(bak)) |-> IF j = i THEN file ELSE bak[j]]
backup_seed_Same(d) == [d EXCEPT !.bak = Put(@, 1, d.seed), !.seed = <<>>]
backup_seed(d) == [d EXCEPT !.bak = Put(@, FreeSlot(@), d.seed), !.seed = <<>>]

(* The database *)

NewDb(id) == [id |-> id, known |-> {}, status |-> "InitComplete", scanned |-> FALSE]
LMDBBackend_new(d) ==
    IF d.db # <<>> THEN [d EXCEPT !.data = TRUE]
    ELSE [d EXCEPT !.data = TRUE, !.db = <<NewDb(d.dbs + 1)>>, !.dbs = @ + 1]
InitStatus(restored) == IF restored THEN "InitNeedsScanning" ELSE "InitNoScanning"
\* The first block update_wallet_state scans from: the start of the chain, or
\* too late to see outputs that are older than a hundred blocks.
FullScan(db) ==
    CASE db.status = "InitNeedsScanning" -> TRUE
      [] db.status = "InitNoScanning" -> FALSE
      [] OTHER -> ~db.scanned

-----------------------------------------------------------------------------
(* The steps of the calls *)

Step(do, seed, password, slot) == [do |-> do, seed |-> seed, password |-> password, slot |-> slot]
Do(name) == Step(name, 0, "", 0)

create_config == <<Do("config_check"), Do("config_file"), Do("api_secret")>>
init_file(seed, password) ==
    <<Step("seed_dir", seed, password, 0), Step("seed_create", seed, password, 0), Step("seed_write", seed, password, 0)>>
create_wallet(seed, password, restored) ==
    <<Do("seed_check")>> \o init_file(seed, password)
        \o <<Do("db_new"), Step("init_status", seed, password, IF restored THEN 1 ELSE 0)>>
get_mnemonic(password) == <<Step("show", 0, password, 0)>>
open_wallet(password) == <<Do("db_new"), Step("open", 0, password, 0)>>
close_wallet == <<Do("close")>>
delete_wallet == <<Do("remove")>>
NewSeedFile(seed, password) ==
    <<Step("reseed_create", seed, password, 0), Step("reseed_write", seed, password, 0)>>
\* delete_seed_file finds nothing: the file was renamed.  What init_file returns
\* is ignored.
change_password(old, new) ==
    LET seed == from_file(disk, old) IN
    IF seed = <<>> THEN <<Do("fail")>>
    ELSE LET slot == FreeSlot(disk.bak) IN
         <<Do("backup")>> \o NewSeedFile(seed[1], new)
            \o <<Step("verify", seed[1], new, slot), Step("drop_backup", seed[1], new, slot)>>

S == Head(todo)
Advance ==
    /\ todo' = Tail(todo)
    /\ result' = IF Len(todo) = 1 THEN [result EXCEPT !.ok = TRUE, !.seed = S.seed, !.password = S.password] ELSE result
Fail == todo' = <<>> /\ UNCHANGED result
Change(d) == disk' = d /\ Advance
At(names) == todo # <<>> /\ S.do \in names
KeepUser == UNCHANGED <<drawn, chain, gone, calls>>
KeepRest == KeepUser /\ UNCHANGED <<backend, phrases, faults>>

\* A directory that has a configuration and wallet data is refused; a
\* configuration without data is left as it is.
ConfigStep ==
    /\ \/ At({"config_check"}) /\ disk.config /\ disk.data /\ Fail /\ UNCHANGED disk
       \/ /\ At({"config_check"}) /\ disk.config /\ ~disk.data
          /\ todo' = SubSeq(todo, 4, Len(todo)) /\ UNCHANGED disk
          /\ result' = [result EXCEPT !.ok = Len(todo) = 3]
       \/ At({"config_check"}) /\ ~disk.config /\ Advance /\ UNCHANGED disk
       \/ At({"config_file"}) /\ Change([disk EXCEPT !.config = TRUE])
       \/ At({"api_secret"}) /\ Change([disk EXCEPT !.secret = TRUE])
    /\ KeepRest

SeedStep ==
    /\ \/ At({"seed_check"}) /\ IF seed_file_exists(disk) THEN Fail /\ UNCHANGED disk ELSE Advance /\ UNCHANGED disk
       \/ /\ At({"seed_dir"}) /\ disk' = [disk EXCEPT !.data = TRUE]
          /\ IF seed_file_exists(disk) \/ from_mnemonic(S.seed) = <<>> THEN Fail ELSE Advance
       \/ At({"seed_create", "reseed_create"}) /\ Change([disk EXCEPT !.seed = <<Empty>>, !.data = TRUE])
       \/ At({"seed_write", "reseed_write"}) /\ Change([disk EXCEPT !.seed = <<from_seed(S.seed, S.password)>>])
    /\ gone' = IF S.do = "seed_write" THEN gone \ {S.seed} ELSE gone
    /\ UNCHANGED <<drawn, chain, calls, backend, phrases, faults>>
\* The disk is full: create_wallet gives up, change_password goes on.
WriteFails ==
    /\ At({"seed_write", "reseed_write"}) /\ faults < MaxFaults
    /\ faults' = faults + 1
    /\ IF S.do = "seed_write" THEN Fail ELSE Advance
    /\ KeepUser /\ UNCHANGED <<disk, backend, phrases>>

PasswordStep ==
    /\ \/ At({"fail"}) /\ Fail /\ disk' = [disk EXCEPT !.data = TRUE]
       \/ At({"backup"}) /\ Change(backup_seed(disk))
       \/ At({"verify"}) /\ UNCHANGED disk /\ IF from_file(disk, S.password) = <<S.seed>> THEN Advance ELSE Fail
       \/ At({"drop_backup"}) /\ Change([disk EXCEPT !.bak[S.slot] = <<>>])
    /\ KeepRest

DbStep ==
    /\ \/ At({"db_new"}) /\ Change(LMDBBackend_new(disk))
       \/ At({"init_status"}) /\ Change([disk EXCEPT !.db[1].status = InitStatus(S.slot = 1)])
    /\ KeepRest

\* The file is opened after the database; on an error the old backend stays.
OpenStep ==
    /\ \/ /\ At({"open"}) /\ disk' = [disk EXCEPT !.data = TRUE] /\ UNCHANGED phrases
          /\ IF from_file(disk, S.password) = <<>> THEN Fail /\ UNCHANGED backend
             ELSE Advance /\ backend' = <<[seed |-> from_file(disk, S.password)[1], db |-> disk.db[1].id]>>
       \/ At({"close"}) /\ backend' = <<>> /\ Advance /\ UNCHANGED <<disk, phrases>>
       \/ /\ At({"show"}) /\ disk' = [disk EXCEPT !.data = TRUE] /\ UNCHANGED backend
          /\ phrases' = phrases \union ToSet(from_file(disk, S.password))
          /\ IF from_file(disk, S.password) = <<>> THEN Fail ELSE Advance
    /\ KeepUser /\ UNCHANGED faults

\* remove_dir_all takes the entries one by one, in no particular order.
DeleteStep ==
    /\ At({"remove"})
    /\ \/ disk.config /\ disk' = [disk EXCEPT !.config = FALSE]
       \/ disk.secret /\ disk' = [disk EXCEPT !.secret = FALSE]
       \/ disk.seed # <<>> /\ disk' = [disk EXCEPT !.seed = <<>>]
       \/ disk.bak # <<>> /\ disk' = [disk EXCEPT !.bak = <<>>]
       \/ disk.db # <<>> /\ disk' = [disk EXCEPT !.db = <<>>]
       \/ disk.db = <<>> /\ disk.seed = <<>> /\ disk.bak = <<>> /\ disk.data /\ disk' = [disk EXCEPT !.data = FALSE]
    /\ IF disk' = [NoDisk EXCEPT !.dbs = disk.dbs] THEN Advance ELSE UNCHANGED <<todo, result>>
    /\ KeepRest

Kill ==
    /\ faults < MaxFaults /\ faults' = faults + 1
    /\ todo # <<>>
    /\ todo' = <<>> /\ backend' = <<>>
    /\ result' = Returned("killed", FALSE, 0, "")
    /\ KeepUser /\ UNCHANGED <<disk, phrases>>

-----------------------------------------------------------------------------
(* The calls of the owner API and the commands of the command line *)

Call(op, steps) ==
    /\ todo = <<>> /\ calls < MaxCalls /\ calls' = calls + 1
    /\ todo' = steps
    /\ result' = Returned(op, FALSE, 0, "")
    /\ UNCHANGED <<disk, backend, phrases, chain, faults>>
\* A new random seed, or the one a phrase stands for
Seeds(restored) == IF restored THEN phrases \union {0} ELSE {drawn + 1} \cap (1 .. MaxSeeds)
Draw(seed, restored) == drawn' = (IF restored THEN drawn ELSE seed) /\ UNCHANGED gone
CreateWallet ==
    \E restored \in BOOLEAN : \E seed \in Seeds(restored), password \in Passwords :
        /\ Call("create_wallet", create_wallet(seed, password, restored))
        /\ Draw(seed, restored)
CreateConfig == Call("create_config", create_config) /\ UNCHANGED <<drawn, gone>>
\* grin-wallet init: parse_init_args refuses when there is a configuration, and
\* prompt_recovery_phrase takes valid words only.
parse_init_args == ~disk.config
InitCommand ==
    /\ parse_init_args
    /\ \E restored \in BOOLEAN : \E seed \in Seeds(restored) \ {0}, password \in Passwords :
        /\ Call("init", create_config \o create_wallet(seed, password, restored) \o get_mnemonic(password))
        /\ Draw(seed, restored)
OpenWallet == \E p \in Passwords : Call("open_wallet", open_wallet(p)) /\ UNCHANGED <<drawn, gone>>
CloseWallet == backend # <<>> /\ Call("close_wallet", close_wallet) /\ UNCHANGED <<drawn, gone>>
Recover == \E p \in Passwords : Call("get_mnemonic", get_mnemonic(p)) /\ UNCHANGED <<drawn, gone>>
ChangePassword ==
    \E old, new \in Passwords : Call("change_password", change_password(old, new)) /\ UNCHANGED <<drawn, gone>>
OnDisk(d) == {f.seed : f \in {f \in UNION {ToSet(d.seed), UNION {ToSet(b) : b \in ToSet(d.bak)}} : f.whole}}
DeleteWallet ==
    /\ disk # [NoDisk EXCEPT !.dbs = disk.dbs]
    /\ Call("delete_wallet", delete_wallet)
    /\ gone' = gone \union OnDisk(disk) /\ UNCHANGED drawn

\* The open wallet receives an output: it is listed in the database the backend
\* has opened, which is no longer on the disk when the directory was deleted.
Mine == backend # <<>> /\ disk.db # <<>> /\ disk.db[1].id = backend[1].db
Receive ==
    /\ todo = <<>> /\ backend # <<>>
    /\ chain' = chain \union {backend[1].seed}
    /\ disk' = IF Mine THEN [disk EXCEPT !.db[1].known = @ \union {backend[1].seed}] ELSE disk
    /\ UNCHANGED <<backend, todo, result, phrases, drawn, gone, faults, calls>>
\* update_wallet_state, as far as the init status is concerned
Update ==
    /\ todo = <<>> /\ Mine
    /\ disk' = [disk EXCEPT !.db[1] =
            [@ EXCEPT !.known = IF FullScan(disk.db[1]) THEN @ \union ({backend[1].seed} \cap chain) ELSE @,
                      !.status = "InitComplete", !.scanned = TRUE]]
    /\ UNCHANGED <<backend, todo, result, phrases, drawn, chain, gone, faults, calls>>

Steps == ConfigStep \/ SeedStep \/ WriteFails \/ PasswordStep \/ DbStep \/ OpenStep \/ DeleteStep \/ Kill
Calls ==
    \/ CreateWallet \/ CreateConfig \/ InitCommand \/ OpenWallet \/ CloseWallet
    \/ Recover \/ ChangePassword \/ DeleteWallet
Next == Steps \/ Calls \/ Receive \/ Update
Spec == Init /\ [][Next]_vars

-----------------------------------------------------------------------------
\* The database is created after the seed file and the backend belongs to a
\* seed that was drawn.
TypeOK ==
    /\ OnDisk(disk) \subseteq 1 .. drawn
    /\ chain \union phrases \union gone \subseteq 1 .. drawn
    /\ Len(disk.seed) <= 1 /\ Len(disk.db) <= 1 /\ Len(backend) <= 1
    /\ \A b \in ToSet(backend) : b.seed \in 1 .. drawn /\ b.db \in 1 .. disk.dbs
    /\ disk.db # <<>> \/ disk.seed # <<>> => disk.data
    /\ result.op \in {"none", "killed", "create_wallet", "create_config", "init", "open_wallet", "close_wallet",
                      "get_mnemonic", "change_password", "delete_wallet"}

\* Whatever fails and whenever the process is killed, a seed that has outputs on
\* the chain is in the seed file or in a backup of it until its wallet is
\* deleted: change_password takes the backup away only when the new file can be
\* read, and no file is ever written over.
SeedSurvives == chain \ gone \subseteq OnDisk(disk)

\* When change_password returns without an error, the seed file holds the seed
\* it held before and the new password opens it.
PasswordChanged ==
    result.op = "change_password" /\ result.ok
        => disk.seed = <<from_seed(result.seed, result.password)>>

\* After an update that followed the opening, the database lists the outputs of
\* the opened seed: a wallet made from a recovery phrase starts at block 0.
RestoredIsFound ==
    Mine /\ disk.db[1].scanned /\ disk.db[1].status = "InitComplete" /\ backend[1].seed \in chain
        => backend[1].seed \in disk.db[1].known

=============================================================================
