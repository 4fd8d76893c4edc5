------------------------------ MODULE SwapRpc -------------------------------
(***************************************************************************)
(* The JSON-RPC clients of the swap (src/net/http.rs, bitcoin_core.rs, and *)
(* get_block_height and push_transaction of grin_core.rs): what a call     *)
(* makes of each kind of answer, and what Alice's wait for Bob's locked    *)
(* coin (locking_phase_swap_mw) makes of the balance it is told.           *)
(*                                                                         *)
(* listunspent gives the value of an output in bitcoin, as a decimal       *)
(* number; the client reads it as an f32 and multiplies it by 10^8.  Both  *)
(* operations are modelled bit by bit, rounding to nearest even.           *)
(***************************************************************************)
EXTENDS Integers, Sequences, FiniteSets, SequencesExt

CONSTANTS Amounts,      \* agreed amounts, in satoshi
          Paid(_),      \* what Bob may have locked for an agreed amount
          MaxAttempts,  \* MAX_ATTEMPTS_VERF_FUNDS, 120 in the code
          MaxCalls, MaxFaults

RpcAssumption == Amounts \subseteq Nat \ {0} /\ MaxAttempts \in Nat \ {0}

VARIABLES amount, coins,     \* the agreed amount; the outputs at the lock address
          attempts, verdict, \* the loop of locking_phase_swap_mw
          taken,             \* nodes that have taken the transaction sent to them
          last, calls, faults

vars == <<amount, coins, attempts, verdict, taken, last, calls, faults>>

BTC_SATS == 100000000

(* f32 *)

MantissaBits == 24
RoundUp(q, twice_rest, unit) == twice_rest > unit \/ (twice_rest = unit /\ q % 2 = 1)

\* q + r / d, doubled until q fills the mantissa; e counts the doublings.
RECURSIVE Normalised(_, _, _, _)
Normalised(q, r, d, e) ==
    IF q >= 2^(MantissaBits - 1) THEN [m |-> IF RoundUp(q, 2 * r, d) THEN q + 1 ELSE q, e |-> e]
    ELSE Normalised(2 * q + (2 * r) \div d, (2 * r) % d, d, e + 1)
\* serde_json: the decimal number sat / 10^8 as an f32, x.m / 2^x.e.
amount_f32(sat) == Normalised(sat \div BTC_SATS, sat % BTC_SATS, BTC_SATS, 0)

\* x * 100_000_000.0, an f32 again, "as u64".  10^8 is 5^8 * 2^8, and the product
\* of the mantissa with 5^8 is kept as hi * 2^12 + lo.
sat_amount_Cents(sat) == 10 * (sat \div 10)
sat_amount(sat) ==
    LET x == amount_f32(sat)
        low == (x.m % 4096) * 390625
        hi == (x.m \div 4096) * 390625 + low \div 4096
        lo == low % 4096
        s == IF hi \div 2^6 < 2^MantissaBits THEN 18 ELSE 19
        q == hi \div 2^(s - 12)
        rest == (hi % 2^(s - 12)) * 4096 + lo
        m == IF RoundUp(q, 2 * rest, 2^s) THEN q + 1 ELSE q
        k == x.e - 8 - s
    IN  IF k >= 0 THEN m \div 2^k ELSE m * 2^(-k)

(* One call *)

Answers == {"ok",           \* a result
            "refused",      \* Grin: a result that holds an Err
            "error",        \* the error field is set
            "other_id", "garbled",
            "status",       \* an HTTP status that is not a success
            "unreachable"}  \* no connection, or no answer within 30 s

\* HttpRequest::execute: a request that cannot be sent panics.
execute(a) == CASE a = "unreachable" -> "panic" [] a = "status" -> "err" [] OTHER -> "body"

\* send_raw_transaction, import_btc_address, listunspent and getnetworkinfo.
BitcoinCall(a) ==
    IF execute(a) # "body" THEN execute(a)
    ELSE CASE a = "garbled" -> "panic" [] a \in {"other_id", "error"} -> "err" [] OTHER -> "ok"
send_raw_transaction(a) == BitcoinCall(a)
import_btc_address(a) == BitcoinCall(a)
get_network_info(a) == BitcoinCall(a)
\* The result of getblockcount is not optional, so an error cannot be parsed.
get_current_block_height(a) == IF a = "error" THEN "panic" ELSE BitcoinCall(a)
\* The result must have an Ok: one with an Err cannot be parsed.
push_transaction(a) ==
    IF execute(a) # "body" THEN execute(a)
    ELSE CASE a \in {"garbled", "refused"} -> "panic" [] a \in {"error", "other_id"} -> "err"
           [] OTHER -> "ok"
get_block_height(a) == push_transaction(a)

Calls == [send_raw_transaction |-> [a \in Answers |-> send_raw_transaction(a)],
          import_btc_address |-> [a \in Answers |-> import_btc_address(a)],
          get_network_info |-> [a \in Answers |-> get_network_info(a)],
          get_current_block_height |-> [a \in Answers |-> get_current_block_height(a)],
          push_transaction |-> [a \in Answers |-> push_transaction(a)],
          get_block_height |-> [a \in Answers |-> get_block_height(a)]]
Sends == {"send_raw_transaction", "push_transaction"}
Grin == {"push_transaction", "get_block_height"}

\* The node answers a call.  It takes a transaction if it answers with a
\* result, and may have taken it if the answer does not come back.
Request ==
    /\ calls < MaxCalls
    /\ \E op \in DOMAIN Calls, a \in Answers :
           /\ a = "refused" => op \in Grin
           /\ last' = [op |-> op, got |-> Calls[op][a]]
           /\ \/ op \in Sends /\ a \in {"ok", "unreachable", "garbled", "status"}
                 /\ taken' = taken \cup {op}
              \/ (a = "ok" => op \notin Sends) /\ taken' = taken
    /\ calls' = calls + 1
    /\ UNCHANGED <<amount, coins, attempts, verdict, faults>>

(* Alice waits for Bob's locked coin *)

Init ==
    /\ amount \in Amounts /\ coins = <<>> /\ attempts = 0 /\ verdict = "waiting"
    /\ taken = {} /\ last = [op |-> "none", got |-> "none"] /\ calls = 0 /\ faults = 0

\* Bob's lock transaction reaches Alice's node.
Arrives ==
    /\ coins = <<>> /\ \E v \in Paid(amount) : coins' = <<v>>
    /\ UNCHANGED <<amount, attempts, verdict, taken, last, calls, faults>>

\* get_address_final_balance(addr).unwrap_or(0): a failed call is a balance of 0.
get_address_final_balance(a) ==
    IF a = "ok" THEN FoldLeft(LAMBDA sum, v : sum + sat_amount(v), 0, coins) ELSE 0

\* One turn of the loop: no balance is asked for again after a minute, a
\* balance other than the amount is not.
NoBalance == attempts + 1
Attempt(a) ==
    /\ verdict = "waiting" /\ attempts < MaxAttempts
    /\ LET balance == get_address_final_balance(a) IN
       CASE BitcoinCall(a) = "panic" -> verdict' = "panic" /\ attempts' = attempts
         [] BitcoinCall(a) # "panic" /\ balance = 0 -> verdict' = verdict /\ attempts' = NoBalance
         [] BitcoinCall(a) # "panic" /\ balance > 0 /\ balance # amount ->
                verdict' = verdict /\ attempts' = MaxAttempts
         [] OTHER -> verdict' = "verified" /\ attempts' = attempts
    /\ UNCHANGED <<amount, coins, taken, last, calls>>
Verify == Attempt("ok") /\ UNCHANGED faults
VerifyFails ==
    /\ faults < MaxFaults /\ faults' = faults + 1
    /\ \E a \in Answers \ {"ok", "refused"} : Attempt(a)
GiveUp ==
    /\ verdict = "waiting" /\ attempts >= MaxAttempts
    /\ verdict' = "failed"
    /\ UNCHANGED <<amount, coins, attempts, taken, last, calls, faults>>

Next == Request \/ Arrives \/ Verify \/ VerifyFails \/ GiveUp
Spec == Init /\ [][Next]_vars
\* The loop is one thread of the listening command, which goes on running: weak
\* fairness of its steps, written out where the guard is costly to evaluate.
AttemptDue == verdict = "waiting" /\ attempts < MaxAttempts
FairSpec ==
    /\ Spec /\ WF_vars(GiveUp)
    /\ []<>(~AttemptDue) \/ []<><<Verify>>_vars

----------------------------------------------------------------------------
(* Properties *)

\* Type invariant.
TypeOK ==
    /\ amount \in Amounts /\ coins \in {<<>>} \cup {<<v>> : v \in Paid(amount)}
    /\ attempts \in 0..MaxAttempts /\ verdict \in {"waiting", "verified", "failed", "panic"}
    /\ taken \subseteq Sends
    /\ last.op \in {"none"} \cup DOMAIN Calls /\ last.got \in {"none", "ok", "err", "panic"}

\* A call that sends a transaction returns Ok only if the node has taken it.
SentIsTaken == last.op \in Sends /\ last.got = "ok" => last.op \in taken

\* The value of an output below 2^24 satoshi is read right to one satoshi, in
\* both directions, so a coin that Alice verifies differs from the agreed amount
\* by no more than that.
VerifiedIsClose ==
    verdict = "verified" =>
        /\ coins # <<>>
        /\ coins[1] - amount \in -1..1

\* What the client tells of the node is so, whatever the node answers and loses.
ClientTellsTrue == SentIsTaken /\ VerifiedIsClose

=============================================================================
