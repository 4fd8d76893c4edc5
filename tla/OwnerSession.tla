---------------------------- MODULE OwnerSession ----------------------------
(***************************************************************************)
(* The owner API server with the foreign API on the same port              *)
(* (controller/src/controller.rs): the key that encrypts requests and      *)
(* replies, the tokens that unmask the keychain (impls/src/backends/       *)
(* lmdb.rs) and the copy of the last token the foreign API works with.     *)
(* Each request is handled by a task of its own; between two locks of a    *)
(* mutex another task may run.                                             *)
(*                                                                         *)
(* Keys and masks are numbers, drawn in order; 0 is none.  A client that   *)
(* called init_secure_api knows the key the server derived for it.         *)
(***************************************************************************)
EXTENDS Naturals, Sequences, FiniteSets, FiniteSetsExt

CONSTANTS
    Clients,       \* programs that use the owner API
    Methods,       \* methods that are called; "foreign" stands for those of the foreign API
    Notify,        \* requests may be notifications (no id, no reply)
    AtOnce,        \* requests handled at a time
    MaxRequests    \* requests to the two APIs

SessionAssumption == Notify \in BOOLEAN /\ AtOnce \in Nat \ {0} /\ MaxRequests \in Nat

VARIABLES
    shared_key,     \* OwnerAPIHandlerV3::shared_key
    api_key,        \* Owner::shared_key, set by init_secure_api
    keychain_mask,  \* the mask shared with the foreign handler
    backend,        \* 0, or the mask the open wallet's keychain is hidden with
    requests,       \* requests received, with the state of their task
    client,         \* what each client remembers: [key, token]
    drawn,          \* keys and masks drawn
    settled         \* the last open_wallet has been reported to the foreign API
vars == <<shared_key, api_key, keychain_mask, backend, requests, client, drawn, settled>>

None == 0
Init ==
    /\ shared_key = None /\ api_key = None
    /\ keychain_mask = None /\ backend = None
    /\ requests = <<>>
    /\ client = [c \in Clients |-> [key |-> None, token |-> None]]
    /\ drawn = 0
    /\ settled = TRUE

-----------------------------------------------------------------------------
(* What the methods of the owner API need *)

\* set_keychain hides the master key behind a new mask; keychain() takes a mask
\* away and compares the result with the checksum of the master key.
Masks(m) == {m} \ {None}
Unmasked(m) == SymDiff(Masks(backend), Masks(m))
keychain_Unchecked(m) == backend # None
keychain(m) == backend # None /\ Unmasked(m) = {}
\* These test the token although they have no use for the keychain.
accounts(token) == keychain(token)
set_active_account(token) == keychain(token)
get_stored_tx(token) == keychain(token)
post_tx(token) == keychain(token)
node_height(token) == keychain(token)
\* These write to the database, or derive keys.
create_account_path(token) == keychain(token)
cancel_tx(token) == keychain(token)
owner_scan(token) == keychain(token)
get_slatepack_address(token) == keychain(token)
retrieve_outputs(token) == keychain(token)
\* Without a refresh these only read the database of the open wallet.
retrieve_txs(token) == backend # None
retrieve_summary_info(token) == backend # None
NeedsKeychain == {"accounts", "set_active_account", "get_stored_tx", "post_tx", "node_height", "create_account_path",
                  "cancel_tx", "scan", "get_slatepack_address", "retrieve_outputs"}
Served(method, token) ==
    CASE method = "accounts" -> accounts(token)
      [] method = "set_active_account" -> set_active_account(token)
      [] method = "get_stored_tx" -> get_stored_tx(token)
      [] method = "post_tx" -> post_tx(token)
      [] method = "node_height" -> node_height(token)
      [] method = "create_account_path" -> create_account_path(token)
      [] method = "cancel_tx" -> cancel_tx(token)
      [] method = "scan" -> owner_scan(token)
      [] method = "get_slatepack_address" -> get_slatepack_address(token)
      [] method = "retrieve_outputs" -> retrieve_outputs(token)
      [] method = "retrieve_txs" -> retrieve_txs(token)
      [] method = "retrieve_summary_info" -> retrieve_summary_info(token)
      [] OTHER -> TRUE

-----------------------------------------------------------------------------
(* A request to /v3/owner: OwnerAPIHandlerV3::call_api *)

Request(c, method, enc, token, notify, pc, mask, clean) ==
    [client |-> c, method |-> method, enc |-> enc, token |-> token, notify |-> notify,
     pc |-> pc, mask |-> mask, clean |-> clean, ok |-> FALSE, drew |-> None, copy |-> None, reply |-> None]
\* What is left of a request that was answered
Answered == Request("", "", None, None, FALSE, "done", None, FALSE)
Busy == {i \in DOMAIN requests : requests[i].pc # "done"}
Room == Len(requests) < MaxRequests /\ Cardinality(Busy) < AtOnce
\* init_secure_api may also be called encrypted, to change the key.
SendOwner(c) ==
    /\ Room
    /\ \E method \in Methods \ {"foreign"}, notify \in {Notify, FALSE} :
        \E enc \in IF method = "init_secure_api" THEN {None, client[c].key} ELSE {client[c].key} :
            requests' = Append(requests,
                Request(c, method, enc, client[c].token, notify, "check", None, FALSE))
    /\ UNCHANGED <<shared_key, api_key, keychain_mask, backend, client, drawn, settled>>

At(i, pc) == requests[i].pc = pc
Goto(i, pc) == requests' = [requests EXCEPT ![i].pc = pc]
\* A reply in clear: an error of the encryption layer
Refuse(i) == requests' = [requests EXCEPT ![i].pc = "reply"]
\* check_encryption_started and decrypt_request
Decrypt(i) ==
    /\ At(i, "check")
    /\ IF (requests[i].method = "init_secure_api" /\ requests[i].enc = None)
          \/ (shared_key # None /\ requests[i].enc = shared_key)
       THEN Goto(i, "handle") ELSE Refuse(i)
    /\ UNCHANGED <<shared_key, api_key, keychain_mask, backend, client, drawn, settled>>

\* A foreign request under way is no longer undisturbed.
Disturb(rs) == [j \in DOMAIN rs |-> [rs[j] EXCEPT !.clean = FALSE]]
init_secure_api(i) ==
    /\ drawn' = drawn + 1 /\ api_key' = drawn + 1
    /\ UNCHANGED <<backend, settled>>
open_wallet(i) ==
    /\ drawn' = drawn + 1 /\ backend' = drawn + 1
    /\ settled' = FALSE
    /\ UNCHANGED api_key
close_wallet(i) == backend' = None /\ UNCHANGED <<drawn, api_key, settled>>
\* OwnerRpc::handle_request; a notification ends here.
Handle(i) ==
    LET r == requests[i]
        After == [r EXCEPT !.pc = IF r.notify THEN "reply" ELSE "mask",
                           !.ok = Served(r.method, r.token),
                           !.drew = IF r.method \in {"init_secure_api", "open_wallet"} THEN drawn + 1 ELSE None]
        Reopened == r.method \in {"open_wallet", "close_wallet"} IN
    /\ At(i, "handle")
    /\ requests' = [IF Reopened THEN Disturb(requests) ELSE requests EXCEPT ![i] = After]
    /\ CASE r.method = "init_secure_api" -> init_secure_api(i)
         [] r.method = "open_wallet" -> open_wallet(i)
         [] r.method = "close_wallet" -> close_wallet(i)
         [] OTHER -> UNCHANGED <<drawn, api_key, backend, settled>>
    /\ UNCHANGED <<shared_key, keychain_mask, client>>
update_mask(i) ==
    /\ At(i, "mask")
    /\ Goto(i, "encrypt")
    /\ IF requests[i].method = "open_wallet"
       THEN keychain_mask' = requests[i].drew /\ settled' = TRUE
       ELSE UNCHANGED <<keychain_mask, settled>>
    /\ UNCHANGED <<shared_key, api_key, backend, client, drawn>>
\* With the key of this moment, before the reply to init_secure_api changes it
encrypt_response(i) ==
    /\ At(i, "encrypt")
    /\ requests' = [requests EXCEPT ![i].pc = "key",
                                    ![i].reply = IF requests[i].enc = None THEN None ELSE shared_key]
    /\ UNCHANGED <<shared_key, api_key, keychain_mask, backend, client, drawn, settled>>
\* update_owner_api_shared_key: its argument is evaluated before the lock
ReadKey(i) ==
    /\ At(i, "key")
    /\ requests' = [requests EXCEPT ![i].copy = api_key,
                                    ![i].pc = IF requests[i].method = "init_secure_api" THEN "store" ELSE "reply"]
    /\ UNCHANGED <<shared_key, api_key, keychain_mask, backend, client, drawn, settled>>
update_owner_api_shared_key_Once(i) ==
    /\ At(i, "store")
    /\ shared_key' = IF shared_key = None THEN requests[i].copy ELSE shared_key
    /\ Goto(i, "reply")
    /\ UNCHANGED <<api_key, keychain_mask, backend, client, drawn, settled>>
update_owner_api_shared_key(i) ==
    /\ At(i, "store")
    /\ shared_key' = requests[i].copy
    /\ Goto(i, "reply")
    /\ UNCHANGED <<api_key, keychain_mask, backend, client, drawn, settled>>

\* A client reads the reply with the key it sent the request under.
Readable(r) == r.reply = r.enc
Reply(i) ==
    LET r == requests[i] IN
    /\ At(i, "reply")
    /\ requests' = [requests EXCEPT ![i] = Answered]
    /\ client' = IF ~r.ok \/ r.notify \/ r.method = "foreign" \/ ~Readable(r) THEN client
                 ELSE CASE r.method = "init_secure_api" -> [client EXCEPT ![r.client].key = r.drew]
                        [] r.method = "open_wallet" -> [client EXCEPT ![r.client].token = r.drew]
                        [] OTHER -> client
    /\ UNCHANGED <<shared_key, api_key, keychain_mask, backend, drawn, settled>>

(* A request to /v2/foreign: the mask is copied when the request arrives. *)
Foreign(c) ==
    /\ Room /\ "foreign" \in Methods
    /\ requests' = Append(requests, Request(c, "foreign", None, None, FALSE, "receive",
                                            keychain_mask, settled /\ backend # None))
    /\ UNCHANGED <<shared_key, api_key, keychain_mask, backend, client, drawn, settled>>
ForeignHandle(i) ==
    /\ At(i, "receive")
    /\ requests' = [requests EXCEPT ![i].pc = "reply", ![i].ok = keychain(requests[i].mask)]
    /\ UNCHANGED <<shared_key, api_key, keychain_mask, backend, client, drawn, settled>>

Task(i) ==
    \/ Decrypt(i) \/ Handle(i) \/ update_mask(i) \/ encrypt_response(i) \/ ReadKey(i)
    \/ update_owner_api_shared_key(i) \/ ForeignHandle(i) \/ Reply(i)
Next == (\E c \in Clients : SendOwner(c) \/ Foreign(c)) \/ (\E i \in DOMAIN requests : Task(i))
Spec == Init /\ [][Next]_vars

-----------------------------------------------------------------------------
\* The session key and the foreign API's mask were drawn by the server, no
\* request holds a mask or key that was not, and no request but init_secure_api
\* is handled before there is a session key.
TypeOK ==
    /\ {shared_key, api_key, keychain_mask, backend} \subseteq 0 .. drawn
    /\ shared_key # None => api_key # None
    /\ \A c \in Clients : {client[c].key, client[c].token} \subseteq 0 .. drawn
    /\ \A i \in DOMAIN requests :
        /\ {requests[i].enc, requests[i].token, requests[i].mask, requests[i].drew, requests[i].copy} \subseteq 0 .. drawn
        /\ requests[i].pc \in {"check", "handle", "mask", "encrypt", "key", "store", "receive", "reply", "done"}
        /\ requests[i].pc \in {"handle", "mask", "encrypt"} => requests[i].method = "init_secure_api" \/ shared_key # None

\* A request that was decrypted is answered under the key it came with, also
\* when it changes the key: "Once the key is established, all further requests
\* and responses are encrypted and decrypted with" it (init_secure_api).
ReplyReadable == \A i \in DOMAIN requests : At(i, "reply") /\ requests[i].ok /\ ~requests[i].notify => Readable(requests[i])

\* A client that is alone with the server can use the key it was given.
KeyAgreed == Busy = {} => \A c \in Clients : client[c].key = shared_key

\* A foreign request that meets an open wallet whose token has been passed on,
\* and that no open_wallet or close_wallet overtakes, finds the keychain.
ForeignServed == \A i \in DOMAIN requests :
    requests[i].method = "foreign" /\ At(i, "reply") /\ requests[i].clean => requests[i].ok

\* A method that needs the keychain succeeds only with the token of the last
\* open_wallet; tokens of earlier ones are refused.
ServedByToken == \A i \in DOMAIN requests :
    Handle(i) /\ requests[i].method \in NeedsKeychain /\ requests'[i].ok => requests[i].token = backend
OnlyCurrentToken == [][ServedByToken]_vars
=============================================================================
