----------------------------- MODULE NodeClient -----------------------------
(***************************************************************************)
(* HTTPNodeClient (impls/src/node_clients/http.rs), through which the Grin *)
(* wallet asks a node about the chain, with the page loop of the scan      *)
(* (libwallet/src/internal/scan.rs collect_chain_outputs).  A request for  *)
(* many outputs is cut into chunks that the node answers in any order, and *)
(* the pages of a scan are asked for one after another; blocks and reorgs  *)
(* come in between, and any request may fail.                              *)
(*                                                                         *)
(* The node is external: a list of outputs in insertion order (the PMMR),  *)
(* the height of the block that made and the one that spent each of them,  *)
(* the kernels in the chain and the transactions it has taken.             *)
(***************************************************************************)
EXTENDS Naturals, Sequences, FiniteSets, SequencesExt

CONSTANTS Commits,      \* the commitments that can be on the chain
          Asked,        \* the lists of commitments the wallet asks for
          Txs,          \* transactions, known by their kernel
          ChunkSizes,   \* values of GRIN_OUTPUT_QUERY_SIZE (500 by default)
          BatchSize,    \* outputs in a page of the scan (1000 in the code)
          MaxHeight, MaxReorgs, MaxCalls, MaxFaults

NodeClientAssumption ==
    /\ Asked \subseteq Seq(Commits)
    /\ ChunkSizes \subseteq Nat \ {0} /\ BatchSize \in Nat \ {0}

VARIABLES height, pmmr,      \* the chain of the node
          pool, kernels,     \* transactions it has taken, kernels in blocks
          old,               \* the node is too old to know get_version
          node_version_info, \* what the client remembers: <<>> or <<version>>
          call,              \* the call in progress
          last,              \* what the last call returned
          moments,           \* the chains the node has had during the call
          calls, faults, reorgs

vars == <<height, pmmr, pool, kernels, old, node_version_info, call, last, moments,
          calls, faults, reorgs>>
node == <<height, pmmr, pool, kernels, old>>

Idle == [op |-> "none"]
Unspent(chain) == {i \in DOMAIN chain : chain[i].sp = 0}
Now == [pmmr |-> pmmr, kernels |-> kernels]

Init ==
    /\ height = 1 /\ pmmr \in {<<[c |-> c, h |-> 1, sp |-> 0]>> : c \in Commits}
    /\ pool = {} /\ kernels = {} /\ old \in BOOLEAN /\ node_version_info = <<>>
    /\ call = Idle /\ last = [op |-> "none"] /\ moments = {}
    /\ calls = 0 /\ faults = 0 /\ reorgs = 0

(* The node *)

\* A block spends at most one output, makes at most two, and may carry the
\* kernel of a transaction the node has taken.
MineBlock ==
    /\ height < MaxHeight
    /\ \E spent \in {{}} \cup {{i} : i \in Unspent(pmmr)}, new \in {{}} \cup {{c} : c \in Commits} \cup {Commits},
          k \in {{}} \cup {{t} : t \in pool \ kernels} :
           LET chain == [i \in DOMAIN pmmr |-> IF i \in spent THEN [pmmr[i] EXCEPT !.sp = height + 1]
                                               ELSE pmmr[i]]
               fresh == new \ {pmmr[i].c : i \in Unspent(pmmr)}
           IN /\ pmmr' = chain \o SetToSeq({[c |-> c, h |-> height + 1, sp |-> 0] : c \in fresh})
              /\ kernels' = kernels \cup k
    /\ height' = height + 1
    /\ moments' = IF call.op = "none" THEN moments ELSE moments \cup {Now'}
    /\ UNCHANGED <<pool, old, node_version_info, call, last, calls, faults, reorgs>>

\* The last block goes: its outputs are gone and what it spent is unspent.
Reorg ==
    /\ height > 1 /\ reorgs < MaxReorgs
    /\ pmmr' = [i \in DOMAIN SelectSeq(pmmr, LAMBDA o : o.h < height) |->
                   [pmmr[i] EXCEPT !.sp = IF @ = height THEN 0 ELSE @]]
    /\ height' = height - 1 /\ reorgs' = reorgs + 1
    /\ kernels' \in SUBSET kernels
    /\ moments' = IF call.op = "none" THEN moments ELSE moments \cup {Now'}
    /\ UNCHANGED <<pool, old, node_version_info, call, last, calls, faults>>

(* Calls of the client *)

Begin(c) ==
    /\ call.op = "none" /\ calls < MaxCalls
    /\ call' = c /\ calls' = calls + 1 /\ moments' = {Now}
    /\ last' = [op |-> "none"]
    /\ UNCHANGED <<height, pmmr, pool, kernels, old, node_version_info, faults, reorgs>>
Return(r) == call' = Idle /\ last' = r

\* The slices of at most n elements that follow one another in s.
chunks(s, n) ==
    {SubSeq(s, n * i + 1, IF n * i + n <= Len(s) THEN n * i + n ELSE Len(s)) :
        i \in {j \in 0..Len(s) : n * j < Len(s)}}

\* get_outputs_from_node: one request for each chunk, all sent at once.
\* With nothing to ask for, the node is not called.
get_outputs_from_node ==
    \E asked \in Asked, chunk_size \in ChunkSizes :
        Begin([op |-> "outputs", asked |-> asked, todo |-> chunks(asked, chunk_size), got |-> {}])

\* FuturesUnordered: the node answers the chunks in any order, each from the
\* chain it then has.
AnswerChunk ==
    /\ call.op = "outputs"
    /\ \E k \in call.todo :
           call' = [call EXCEPT !.todo = @ \ {k},
                                !.got = @ \cup {pmmr[i] : i \in {j \in Unspent(pmmr) : pmmr[j].c \in ToSet(k)}}]
    /\ UNCHANGED <<node, node_version_info, last, moments, calls, faults, reorgs>>
ReturnOutputs ==
    /\ call.op = "outputs" /\ call.todo = {}
    /\ Return([op |-> "outputs", asked |-> call.asked, got |-> call.got])
    /\ UNCHANGED <<node, node_version_info, moments, calls, faults, reorgs>>

\* The scan asks for the indices of the blocks from start_height to the height
\* the wallet read as the tip; the node refuses a height it does not have.
height_range_to_pmmr_indices(start_height, end_height) ==
    LET at(h) == {i \in DOMAIN pmmr : pmmr[i].h <= h}
    IN  <<Cardinality(at(start_height - 1)) + 1, Cardinality(at(end_height))>>
get_chain_tip ==
    \E start_height \in 1..height : Begin([op |-> "tip", from |-> start_height, to |-> height])
AnswerIndices ==
    /\ call.op = "tip"
    /\ \/ /\ call.to <= height
          /\ LET range == height_range_to_pmmr_indices(call.from, call.to)
             IN  call' = [op |-> "scan", from |-> call.from, to |-> call.to,
                          next |-> range[1], end |-> range[2], got |-> <<>>]
          /\ last' = last
       \/ call.to > height /\ Return([op |-> "error"])
    /\ moments' = {Now}
    /\ UNCHANGED <<node, node_version_info, calls, faults, reorgs>>

\* get_unspent_outputs: up to max_outputs unspent outputs from start_index on,
\* none behind end_index, and the last index looked at.
get_outputs_by_pmmr_index(start_index, end_index, max_outputs) ==
    LET from(n) == {i \in Unspent(pmmr) : start_index <= i /\ i <= n}
        full == {n \in start_index..end_index : Cardinality(from(n)) = max_outputs}
        last_retrieved == IF full # {} THEN Min(full)
                          ELSE IF start_index > end_index THEN start_index - 1 ELSE end_index
    IN  [highest |-> end_index, last |-> last_retrieved,
         outputs |-> SetToSortSeq(from(last_retrieved), LAMBDA i, j : i < j)]

\* One turn of the loop of collect_chain_outputs.
NextIndex_Skip(page) == page.last + 2
NextIndex(page) == page.last + 1
AnswerPage ==
    /\ call.op = "scan"
    /\ LET page == get_outputs_by_pmmr_index(call.next, call.end, BatchSize)
           got == call.got \o [i \in DOMAIN page.outputs |-> pmmr[page.outputs[i]]]
       IN  IF page.highest <= page.last
           THEN Return([op |-> "scan", from |-> call.from, to |-> call.to, got |-> got])
           ELSE call' = [call EXCEPT !.got = got, !.next = NextIndex(page)] /\ last' = last
    /\ UNCHANGED <<node, node_version_info, moments, calls, faults, reorgs>>

\* get_kernel: the node's "NotFound" is an answer, any other error is an error.
KernelAnswer(a) == CASE a = "found" -> "found" [] a = "NotFound" -> "none" [] OTHER -> "error"
get_kernel ==
    \E t \in Txs : Begin([op |-> "kernel", excess |-> t])
AnswerKernel ==
    /\ call.op = "kernel"
    /\ \E a \in IF call.excess \in kernels THEN {"found"} ELSE {"NotFound"} :
           Return([op |-> "kernel", excess |-> call.excess, got |-> KernelAnswer(a)])
    /\ UNCHANGED <<node, node_version_info, moments, calls, faults, reorgs>>

\* post_tx: Response::result takes the "Ok" of the node's result, which is Null
\* in a result that holds an "Err", and Null is a value like any other.
post_tx == \E t \in Txs : Begin([op |-> "post", tx |-> t])
AnswerPost ==
    /\ call.op = "post"
    /\ \E taken \in BOOLEAN :
          /\ pool' = IF taken THEN pool \cup {call.tx} ELSE pool
          /\ Return([op |-> "post", tx |-> call.tx])
    /\ UNCHANGED <<height, pmmr, kernels, old, node_version_info, moments, calls, faults, reorgs>>

\* get_version_info: asked once, then remembered; a node that answers 404 is
\* taken for version 1 and asked again the next time.
Remember(v) == IF v = 1 THEN <<>> ELSE <<v>>
get_version_info ==
    IF node_version_info # <<>> THEN
        /\ call.op = "none" /\ calls < MaxCalls
        /\ calls' = calls + 1
        /\ last' = [op |-> "version", got |-> node_version_info[1]]
        /\ UNCHANGED <<node, node_version_info, call, moments, faults, reorgs>>
    ELSE Begin([op |-> "version"])
AnswerVersion ==
    /\ call.op = "version"
    /\ LET v == IF old THEN 1 ELSE 2
       IN  node_version_info' = Remember(v) /\ Return([op |-> "version", got |-> v])
    /\ UNCHANGED <<node, moments, calls, faults, reorgs>>
UpgradeNode ==
    /\ old /\ old' = FALSE
    /\ UNCHANGED <<height, pmmr, pool, kernels, node_version_info, call, last, moments,
                   calls, faults, reorgs>>

\* A request is not answered, or with something that cannot be read: the call
\* ends, and what came back for its other requests is dropped.
\* A transaction may have arrived all the same.
RequestFails ==
    /\ call.op # "none" /\ faults < MaxFaults
    /\ faults' = faults + 1
    /\ \/ /\ call.op = "kernel"
          /\ Return([op |-> "kernel", excess |-> call.excess, got |-> KernelAnswer("unreachable")])
          /\ pool' = pool
       \/ /\ call.op # "kernel" /\ Return([op |-> "error"])
          /\ pool' \in {pool} \cup {pool \cup {t} : t \in IF call.op = "post" THEN {call.tx} ELSE {}}
    /\ UNCHANGED <<height, pmmr, kernels, old, node_version_info, moments, calls, reorgs>>

Chain == MineBlock \/ Reorg \/ UpgradeNode
Client ==
    \/ get_outputs_from_node \/ AnswerChunk \/ ReturnOutputs
    \/ get_chain_tip \/ AnswerIndices \/ AnswerPage
    \/ get_kernel \/ AnswerKernel \/ post_tx \/ AnswerPost
    \/ get_version_info \/ AnswerVersion \/ RequestFails
Next == Chain \/ Client
Spec == Init /\ [][Next]_vars

----------------------------------------------------------------------------
(* Properties *)

\* Type invariant.
TypeOK ==
    /\ \A i \in DOMAIN pmmr : pmmr[i].c \in Commits /\ pmmr[i].h \in 1..height /\ pmmr[i].sp \in 0..height
    /\ pool \subseteq Txs /\ kernels \subseteq pool
    /\ node_version_info \in {<<>>, <<2>>}
    /\ call.op \in {"none", "outputs", "tip", "scan", "kernel", "post", "version"}
    /\ last.op \in {"none", "outputs", "scan", "kernel", "post", "version", "error"}
    /\ moments \subseteq [pmmr : {m.pmmr : m \in moments}, kernels : SUBSET Txs]

\* What get_outputs_from_node returns was so at some moment of the call, for
\* each commitment it was asked for and no other: an output it lists was
\* unspent at that height, and one it does not list was not unspent.  The
\* wallet marks an output spent because it is not in this answer.
AnswersTimely ==
    last.op = "outputs" =>
        LET holds(m) == {m.pmmr[i] : i \in Unspent(m.pmmr)} IN
        /\ \A o \in last.got : o.c \in ToSet(last.asked) /\ \E m \in moments : o \in holds(m)
        /\ \A c \in ToSet(last.asked) \ {o.c : o \in last.got} :
               \E m \in moments : c \notin {o.c : o \in holds(m)}

\* The pages of a scan miss nothing: an output of the scanned blocks that was
\* unspent throughout is among what collect_chain_outputs returns, whatever
\* blocks and reorgs came between two pages; and what it returns was unspent
\* at some moment.
PagesCover ==
    last.op = "scan" =>
        LET holds(m) == {m.pmmr[i] : i \in Unspent(m.pmmr)}
            always == {o \in UNION {holds(m) : m \in moments} :
                          \A m \in moments : o \in holds(m)}
        IN /\ {o \in always : o.h >= last.from /\ o.h <= last.to} \subseteq ToSet(last.got)
           /\ \A o \in ToSet(last.got) : \E m \in moments : o \in holds(m)

\* The pages of a scan do not overlap: an output is returned twice only if a
\* reorg moved it during the scan.  The scan restores every output it is given
\* and does not know, once for each time it is given.
PagesDisjoint ==
    last.op = "scan" /\ reorgs = 0 => IsInjective([i \in DOMAIN last.got |-> last.got[i].c])

\* A kernel is reported absent only if the node did not have it at some moment
\* of the call: an unreachable node is an error and not an absent kernel.  The
\* wallet reads an absent kernel as a transaction that a reorg has reverted.
AbsentIsAbsent ==
    last.op = "kernel" /\ last.got = "none" => \E m \in moments : last.excess \notin m.kernels

=============================================================================
