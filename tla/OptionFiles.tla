------------------------------ MODULE OptionFiles ------------------------------
(***************************************************************************)
(* The option files of the server and of the client.  Options are read in  *)
(* the order of the code straight into the members, and the first that is  *)
(* missing ends the reading; a start may follow one that failed halfway.   *)
(* Numbers are parsed as signed and stored into unsigned members.  The     *)
(* codes of the packet buffers are static, one pair for a process.         *)
(***************************************************************************)
EXTENDS Integers, Sequences, SequencesExt, FiniteSets

CONSTANTS
    Width,      \* the members have Width bits
    Largest,    \* bound: the files say -1 .. Largest for the retransmission times
    MaxReads    \* bound: how often option files are read

OptionFilesAssumption ==
    /\ Width \in Nat \ {0} /\ MaxReads \in Nat
    /\ Largest \in 0 .. 2 ^ (Width - 1) - 1

InitialMs == "RETRANSMISSION_MS"
MinMs == "MIN_RETRANSMISSION_MS"
MaxMs == "MAX_RETRANSMISSION_MS"
Times == {InitialMs, MinMs, MaxMs}

CoreFirst == <<"THREAD_COUNT", "NUM_OF_SOCKET", "MAX_PACKET_RETRANSMISSION_COUNT",
               "WORKER_THREAD_ONE_FRAME_MS", InitialMs>>
CoreThen == <<"HEARTBEAT_THREAD_SLEEP_MS", "TIMER_TICK_MS", "MAX_HOLDING_PACKET_QUEUE_SIZE">>
Loss == {"SIMULATED_PACKET_LOSS_PERCENT", "SIMULATED_PACKET_LOSS_SEED"}
Codes == <<"PACKET_CODE", "PACKET_KEY">>
Broker == <<"CORE_IP", "SESSION_BROKER_PORT">>
ServerNames == ToSet(CoreFirst \o CoreThen \o Codes \o Broker) \cup Loss \cup {MinMs, MaxMs}

ClientCore == <<"client MAX_PACKET_RETRANSMISSION_COUNT", "client RETRANSMISSION_MS",
                "SERVER_ALIVE_CHECK_MS">>
SessionGetter == <<"IP", "PORT">>
ClientNames == ToSet(ClientCore \o SessionGetter \o Codes)

Names == ServerNames \cup ClientNames

VARIABLES
    member,     \* name -> the value of the member
    loaded,     \* history: the file each of "server" and "client" has loaded, or <<>>
    reads       \* how often files were read

vars == <<member, loaded, reads>>

Init == member = [n \in Names |-> 0] /\ loaded = [p \in {"server", "client"} |-> <<>>] /\ reads = 0

-------------------------------------------------------------------------------
(* Reading *)

Cast(v) == v % (2 ^ Width)

Ok(m) == [ok |-> TRUE, member |-> m]
Fail(m) == [ok |-> FALSE, member |-> m]

\* One step of the reading after another.
Then(r, Step(_)) == IF r.ok THEN Step(r.member) ELSE r

Assign(m, file, names) == [n \in Names |-> IF n \in names THEN Cast(file[n]) ELSE m[n]]

\* The names are read in turn up to the first that is missing.
ReadAll(m, file, names) ==
    LET missing == {i \in DOMAIN names : names[i] \notin DOMAIN file}
        before(i) == \A j \in missing : i < j
        result == Assign(m, file, {names[i] : i \in {k \in DOMAIN names : before(k)}})
    IN  IF missing = {} THEN Ok(result) ELSE Fail(result)

\* Both bounds or none; without them the initial time is the only one.
ReadBounds(m, file) ==
    LET given == {MinMs, MaxMs} \cap DOMAIN file
        result == Assign(m, file, given)
    IN  CASE Cardinality(given) = 1 -> Fail(result)
          [] given = {} -> Ok([result EXCEPT ![MinMs] = m[InitialMs], ![MaxMs] = m[InitialMs]])
          [] OTHER -> Ok(result)

CheckBounds(m) ==
    IF m[MinMs] = 0 \/ m[MinMs] > m[InitialMs] \/ m[InitialMs] > m[MaxMs] THEN Fail(m) ELSE Ok(m)

\* What is not given is zero.
ReadLoss(m, file) ==
    Ok([n \in Names |-> IF n \in Loss
                        THEN IF n \in DOMAIN file THEN Cast(file[n]) ELSE 0
                        ELSE m[n]])

\* The address is read aside, tested, and stored when the port has been read; here 0
\* is one that is empty or too long.
ReadBroker(m, file) ==
    LET port == ReadAll(m, file, <<"SESSION_BROKER_PORT">>)
    IN  IF "CORE_IP" \notin DOMAIN file \/ file["CORE_IP"] = 0 THEN Fail(m)
        ELSE Then(port, LAMBDA x : ReadAll(x, file, <<"CORE_IP">>))

ReadServer(file) ==
    LET core == ReadAll(member, file, CoreFirst)
        bounds == Then(core, LAMBDA m : ReadBounds(m, file))
        checked == Then(bounds, CheckBounds)
        more == Then(checked, LAMBDA m : ReadAll(m, file, CoreThen))
        loss == Then(more, LAMBDA m : ReadLoss(m, file))
        codes == Then(loss, LAMBDA m : ReadAll(m, file, Codes))
    IN  Then(codes, LAMBDA m : ReadBroker(m, file))

ReadClient(file) ==
    LET core == ReadAll(member, file, ClientCore)
        getter == Then(core, LAMBDA m : ReadAll(m, file, SessionGetter))
    IN  Then(getter, LAMBDA m : ReadAll(m, file, Codes))

-------------------------------------------------------------------------------
(* The files: at most one option is left out beside the bounds, the times are any,  *)
(* and every other option differs from one file to the next, save the codes, which  *)
(* all programs of a deployment share.                                              *)

FilesOf(names, times, value) ==
    {[n \in given |-> IF n \in times THEN t[n] ELSE IF n \in ToSet(Codes) THEN 1 ELSE value] :
        given \in {names \ gone : gone \in {{}} \cup {{n} : n \in names}
                                               \cup {{MinMs, MaxMs}, {MinMs, MaxMs, "CORE_IP"}}},
        t \in [times -> -1 .. Largest]}

BadAddress(files) == {[f EXCEPT !["CORE_IP"] = 0] : f \in {g \in files : "CORE_IP" \in DOMAIN g}}

Read(program, file, result) ==
    /\ reads < MaxReads /\ reads' = reads + 1
    /\ member' = result.member
    /\ loaded' = [loaded EXCEPT ![program] = IF result.ok THEN file ELSE <<>>]

StartServer ==
    LET files == FilesOf(ServerNames, Times, reads + 1)
    IN  \E file \in files \cup BadAddress(files) : Read("server", file, ReadServer(file))

StartClient ==
    \E file \in FilesOf(ClientNames, {}, reads + 1) : Read("client", file, ReadClient(file))

Next == StartServer \/ StartClient

Spec == Init /\ [][Next]_vars

-------------------------------------------------------------------------------

TypeOK ==
    /\ member \in [Names -> 0 .. 2 ^ Width - 1]
    /\ reads \in 0 .. MaxReads
    /\ \A p \in {"server", "client"} : DOMAIN loaded[p] \subseteq Names

\* What a program runs with is what the file it has loaded says and the defaults
\* for what it leaves out; nothing stays from a reading before, also one that failed
\* halfway or of the other program.
Default(n, m) == IF n \in Loss THEN 0 ELSE m[InitialMs]

LoadedIsFile ==
    \A p \in {"server", "client"} : loaded[p] # <<>> =>
        \A n \in IF p = "server" THEN ServerNames ELSE ClientNames :
            member[n] = IF n \in DOMAIN loaded[p] THEN Cast(loaded[p][n]) ELSE Default(n, member)

\* The retransmission timeouts that are loaded are what the estimator assumes of its
\* bounds, in the unsigned numbers it computes with.
BoundsFitEstimator ==
    loaded["server"] # <<>> =>
        /\ 0 < member[MinMs] /\ member[MinMs] <= member[InitialMs] /\ member[InitialMs] <= member[MaxMs]

\* The documentation of the options: 0 < MIN <= RETRANSMISSION <= MAX, or loading fails.
RangeAsWritten ==
    LET f == loaded["server"] IN
    f # <<>> /\ {MinMs, MaxMs} \subseteq DOMAIN f =>
        0 < f[MinMs] /\ f[MinMs] <= f[InitialMs] /\ f[InitialMs] <= f[MaxMs]

===============================================================================
