----------------------------- MODULE SwapSetup -----------------------------
(***************************************************************************)
(* The setup phase: parse_arguments, the commands init, accept and import, *)
(* the check at the start of listen, and the two slate files of each       *)
(* party, written by main after every command (src/main.rs,                *)
(* src/commands, src/swap/slate.rs).  Every command is a process of its    *)
(* own: it reads the files, computes, and writes them in several steps, so *)
(* that two commands may overlap and a command may be killed half-way.     *)
(*                                                                         *)
(* A definition named after another one with a suffix is a faulty variant  *)
(* that stands for a bug in it.                                            *)
(***************************************************************************)
EXTENDS Integers, SequencesExt

CONSTANTS
    Requests,       \* sets of arguments of init
    Values,         \* values of coins that are imported
    MaxAmounts,     \* BTC_MAX_SATS and GRIN_MAX_NANOGRIN
    MaxTimeout,     \* MAX_TIMEOUT, minutes
    Overlap,        \* commands of a party may overlap
    Kills,          \* commands may be killed
    MaxCommands

Currencies == {"BTC", "GRIN"}
Parties == {"offerer", "acceptor"}
BTC_BLOCK_TIME == 10
GRIN_BLOCK_TIME == 1

SetupAssumption ==
    /\ Requests \subseteq [from : Currencies, to : Currencies, from_amount : Nat, to_amount : Nat, timeout : Nat]
    /\ MaxAmounts \in [Currencies -> Nat] /\ MaxTimeout \in Nat
    /\ {Overlap, Kills} \subseteq BOOLEAN

VARIABLES
    asked,      \* the arguments of the first init
    disk,       \* the files of each party
    procs       \* all commands that were started, in order

vars == <<asked, disk, procs>>

\* A file is missing, torn (empty or half written) or holds a slate.
File(is, data) == [is |-> is, data |-> data]
None == File("none", <<>>)
Torn == File("torn", <<>>)
Holds(data) == File("slate", <<data>>)

Init ==
    /\ asked \in Requests
    /\ disk = [p \in Parties |-> [prv |-> None, pub |-> None]]
    /\ procs = <<>>

Running(p) == {i \in DOMAIN procs : procs[i].party = p /\ procs[i].pc \notin {"done", "failed", "killed"}}
Command(p, name, arg) ==
    [party |-> p, cmd |-> name, arg |-> arg, pc |-> "start", prv |-> <<>>, pub |-> <<>>, todo |-> <<>>]

\* The user starts a command.  Each coin is imported once.
NoArg == <<"", 0>>
Imported(p) == {procs[i].arg : i \in {j \in DOMAIN procs : procs[j].party = p /\ procs[j].cmd = "import"}}
Began(name) == \E i \in DOMAIN procs : procs[i].cmd = name
Start(p) ==
    /\ Len(procs) < MaxCommands
    /\ Overlap \/ Running(p) = {}
    /\ \E name \in {"init", "accept", "import", "listen"}, arg \in {NoArg} \cup (Currencies \X Values) :
         /\ (name = "import") <=> (arg # NoArg)
         /\ name = "init" => p = "offerer" /\ ~Began("init")
         /\ name = "accept" => p = "acceptor"
         /\ name = "import" => arg \notin Imported(p)
         /\ name = "listen" => p = "offerer" /\ ~Began("listen")
         /\ procs' = Append(procs, Command(p, name, arg))
    /\ UNCHANGED <<asked, disk>>

-----------------------------------------------------------------------------
Goes(i, pc) == procs' = [procs EXCEPT ![i].pc = pc]
Holding(i, prv, pub, todo) ==
    procs' = [procs EXCEPT ![i].pc = "write", ![i].prv = <<prv>>, ![i].pub = <<pub>>, ![i].todo = todo]
\* write_slate_to_disk as a list of steps.  Missing files are created, both of
\* them; fs::write empties a file before it writes it.
Creating == <<"create_prv", "create_pub">>
WritingPrv == <<"empty_prv", "write_prv">>
WritingPub == <<"empty_pub", "write_pub">>
write_slate_to_disk(wrt_priv, wrt_pub) ==
    Creating \o (IF wrt_priv THEN WritingPrv ELSE <<>>) \o (IF wrt_pub THEN WritingPub ELSE <<>>)
Finally == write_slate_to_disk(TRUE, TRUE)

parse_arguments(r) ==
    /\ r.from_amount <= MaxAmounts[r.from] /\ r.to_amount <= MaxAmounts[r.to]
    /\ r.timeout <= MaxTimeout
AmountOf(r, cur) == IF cur = r.from THEN r.from_amount ELSE r.to_amount
Timelock(r, cur) == r.timeout \div (IF cur = "BTC" THEN BTC_BLOCK_TIME ELSE GRIN_BLOCK_TIME)
init_slate(r) ==
    [status |-> "INITIALIZED",
     amount |-> [c \in Currencies |-> AmountOf(r, c)],
     timelock |-> [c \in Currencies |-> Timelock(r, c)],
     swap_type |-> [c \in Currencies |-> IF c = r.from THEN "OFFERED" ELSE "REQUESTED"]]
InitExecute(i) ==
    /\ procs[i].pc = "start" /\ procs[i].cmd = "init"
    /\ IF parse_arguments(asked) /\ asked.from # asked.to
       THEN Holding(i, <<>>, init_slate(asked), Finally)
       ELSE Goes(i, "failed")
    /\ UNCHANGED <<asked, disk>>

\* create_priv_from_pub writes the private file, and main both once more.
AcceptExecute_Setup(i) ==
    LET p == procs[i].party
    IN  /\ procs[i].pc = "start" /\ procs[i].cmd = "accept"
        /\ IF disk[p].pub.is = "slate"
           THEN Holding(i, <<>>, [disk[p].pub.data[1] EXCEPT !.status = "SETUP"],
                        write_slate_to_disk(TRUE, FALSE) \o Finally)
           ELSE Goes(i, "failed")
        /\ UNCHANGED <<asked, disk>>
AcceptExecute(i) ==
    LET p == procs[i].party
    IN  /\ procs[i].pc = "start" /\ procs[i].cmd = "accept"
        /\ IF disk[p].pub.is = "slate"
           THEN Holding(i, <<>>, disk[p].pub.data[1], write_slate_to_disk(TRUE, FALSE) \o Finally)
           ELSE Goes(i, "failed")
        /\ UNCHANGED <<asked, disk>>

\* read_slate_from_disk: both files must exist (else an Err) and parse (else a panic);
\* the public one is read first.
read_pub(i) ==
    LET p == procs[i].party
    IN  /\ procs[i].pc = "start" /\ procs[i].cmd \in {"import", "listen"}
        /\ IF disk[p].prv.is # "none" /\ disk[p].pub.is # "none"
           THEN procs' = [procs EXCEPT ![i].pc = "read", ![i].pub = disk[p].pub.data,
                                       ![i].todo = <<disk[p].pub.is>>]
           ELSE Goes(i, "failed")
        /\ UNCHANGED <<asked, disk>>
ValueOf(coins, cur) ==
    FoldLeft(LAMBDA t, c : t + c[2], 0, SelectSeq(coins, LAMBDA c : c[1] = cur))
Offered(pub) == CHOOSE c \in Currencies : pub.swap_type[c] = "OFFERED"
EnoughValue(pub, coins) ==
    LET cur == IF pub.swap_type["GRIN"] = "OFFERED" THEN "GRIN" ELSE "BTC"
    IN  pub.status = "SETUP" \/ ValueOf(coins, cur) >= pub.amount[cur]
ImportCoin_Only(coins, coin) == <<coin>>
ImportCoin(coins, coin) == Append(coins, coin)
\* import adds its coin; listen checks the value and goes on to serve (and writes
\* nothing before a client has been served).
ReadExecute(i) ==
    LET p == procs[i].party
        prv == disk[p].prv
        pub == procs[i].pub[1]
    IN  /\ procs[i].pc = "read"
        /\ IF prv.is # "slate" \/ procs[i].todo # <<"slate">> THEN Goes(i, "failed")
           ELSE IF procs[i].cmd = "import" THEN Holding(i, ImportCoin(prv.data[1], procs[i].arg), pub, Finally)
           ELSE IF EnoughValue(pub, prv.data[1])
                THEN procs' = [procs EXCEPT ![i].pc = "listen", ![i].prv = prv.data, ![i].todo = <<>>]
                ELSE Goes(i, "failed")
        /\ UNCHANGED <<asked, disk>>

\* The next step of write_slate_to_disk.
WriteStep(i) ==
    LET p == procs[i].party
        do == Head(procs[i].todo)
        file == IF do \in {"create_prv", "empty_prv", "write_prv"} THEN "prv" ELSE "pub"
        new == CASE do \in {"create_prv", "create_pub"} -> IF disk[p][file].is = "none" THEN Torn ELSE disk[p][file]
                 [] do \in {"empty_prv", "empty_pub"} -> Torn
                 [] do = "write_prv" -> Holds(procs[i].prv[1])
                 [] do = "write_pub" -> Holds(procs[i].pub[1])
    IN  /\ procs[i].pc = "write"
        /\ disk' = [disk EXCEPT ![p][file] = new]
        /\ procs' = [procs EXCEPT ![i].todo = Tail(@),
                                  ![i].pc = IF Len(procs[i].todo) = 1 THEN "done" ELSE @]
        /\ UNCHANGED asked

\* The offerer's public file is handed over as it is.
Share ==
    /\ disk["offerer"].pub.is # "none" /\ disk["acceptor"].pub.is = "none"
    /\ disk' = [disk EXCEPT !["acceptor"].pub = disk["offerer"].pub]
    /\ UNCHANGED <<asked, procs>>
Kill(i) ==
    /\ Kills
    /\ procs[i].pc \in {"start", "read", "write"}
    /\ Goes(i, "killed")
    /\ UNCHANGED <<asked, disk>>

Next ==
    \/ \E p \in Parties : Start(p)
    \/ \E i \in DOMAIN procs :
          InitExecute(i) \/ AcceptExecute(i) \/ read_pub(i) \/ ReadExecute(i) \/ WriteStep(i) \/ Kill(i)
    \/ Share
Spec == Init /\ [][Next]_vars

-----------------------------------------------------------------------------
\* Types.  No coin is in a private file that was not imported, or twice.
TypeOK ==
    /\ asked \in Requests
    /\ \A p \in Parties : disk[p].prv.is \in {"none", "torn", "slate"} /\ disk[p].pub.is \in {"none", "torn", "slate"}
    /\ \A i \in DOMAIN procs :
         procs[i].pc \in {"start", "read", "write", "listen", "done", "failed", "killed"}
    /\ \A p \in Parties : disk[p].prv.is = "slate" =>
         ToSet(disk[p].prv.data[1]) \subseteq Imported(p) /\ IsInjective(disk[p].prv.data[1])

\* While nobody writes and nobody was killed, a coin whose import command has
\* finished is in the party's private file, unless accept was started after that
\* import had been: accept makes a fresh private file.
ImportedIsKept ==
    \A p \in Parties : \A i \in DOMAIN procs :
        /\ procs[i].party = p /\ procs[i].cmd = "import" /\ procs[i].pc = "done"
        /\ Running(p) \subseteq {k \in DOMAIN procs : procs[k].pc \in {"start", "read", "listen"}}
        /\ ~\E k \in DOMAIN procs : procs[k].party = p /\ procs[k].pc = "killed"
        /\ \A k \in i + 1 .. Len(procs) : ~(procs[k].party = p /\ procs[k].cmd = "accept")
        => disk[p].prv.is = "slate" /\ procs[i].arg \in ToSet(disk[p].prv.data[1])

\* No order of setup commands, and no kill, changes what the two public files say:
\* wherever one can be read it is the slate of the init command.  lock compares the
\* checksums of the two.
PublicFilesAgree ==
    \A p \in Parties : disk[p].pub.is = "slate" => disk[p].pub.data = <<init_slate(asked)>>

\* The slate says what was asked for: the amounts by currency, and opposite roles.
SlateAsAsked ==
    \A p \in Parties : disk[p].pub.is = "slate" =>
        LET s == disk[p].pub.data[1]
        IN  /\ s.amount[asked.from] = asked.from_amount /\ s.amount[asked.to] = asked.to_amount
            /\ s.swap_type[asked.from] = "OFFERED" /\ s.swap_type[asked.to] = "REQUESTED"

\* Neither chain's timelock ends after the timeout, or a block's time or more before
\* it, and both are the same span up to the block time.
TimelocksFit ==
    \A p \in Parties : disk[p].pub.is = "slate" =>
        LET btc == disk[p].pub.data[1].timelock["BTC"] * BTC_BLOCK_TIME
            grin == disk[p].pub.data[1].timelock["GRIN"] * GRIN_BLOCK_TIME
        IN  btc \in asked.timeout - BTC_BLOCK_TIME + 1 .. asked.timeout /\ grin = asked.timeout

\* A party that listens holds coins worth the amount it offers, in the currency it
\* offers, whatever else it has imported.
ListeningIsBacked ==
    \A i \in DOMAIN procs : procs[i].pc = "listen" =>
        LET pub == procs[i].pub[1]
        IN  ValueOf(procs[i].prv[1], Offered(pub)) >= pub.amount[Offered(pub)]

\* A party listens with the slate that init was asked for and with all coins that it
\* has imported, which cover what it offers.
PreparedAsAsked == SlateAsAsked /\ TimelocksFit /\ ImportedIsKept /\ ListeningIsBacked

=============================================================================
