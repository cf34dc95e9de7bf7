------------------------------ MODULE MemoryTracer ------------------------------
(***************************************************************************)
(* The debug tracer of objects: a map from addresses to what was tracked   *)
(* there, under one mutex, and a switch that is read before the mutex is   *)
(* taken.  The program makes an object, tracks it, notes on it, untracks   *)
(* it and deletes it, in this order but from any thread; the address may   *)
(* then be reused.  Reports go to a file or to the console.                *)
(***************************************************************************)
EXTENDS Naturals, Sequences, FiniteSets, Functions, TLC

CONSTANTS
    Objects,        \* the objects the program makes
    Addresses,
    Threads,
    Files,          \* the names reports are written to
    DefaultFile,    \* the name a process starts with
    Unwritable,     \* those that cannot be opened
    MaxToggles,     \* bound: calls of Enable, Disable and Clear
    MaxReports      \* bound: reports, and calls of SetOutputFile and CloseOutputFile

MemoryTracerAssumption ==
    /\ DefaultFile \in Files /\ Unwritable \subseteq Files /\ "" \notin Files
    /\ MaxToggles \in Nat /\ MaxReports \in Nat

VARIABLES
    allocations,    \* address -> AllocationInfo, for the addresses tracked
    enabled,
    phase,          \* what the program does with each object
    address, maker, \* where each object is, and the thread that tracked it
    missed,         \* history: addresses where a call was skipped after the last recorded one
    outputFilename,
    setting,        \* SetOutputFile has assigned the name and not yet taken the mutex
    content,        \* file -> what is in it
    console,        \* how many reports went to the console
    reports, truncated,     \* history: the reports made, and those a truncation removed
    toggles, calls

tracerVars == <<allocations, enabled, toggles>>
programVars == <<phase, address, maker, missed>>
outputVars == <<outputFilename, setting, content, console, reports, truncated, calls>>
vars == <<tracerVars, programVars, outputVars>>

\* The phases in which an object exists and has been passed to TrackObject.
Held == {"live", "noting", "untracking"}

AllocationInfo ==
    [object : Objects, allocThread : Threads, isFreed : BOOLEAN, userNote : SUBSET Objects]

TypeOK ==
    /\ DOMAIN allocations \subseteq Addresses
    /\ \A a \in DOMAIN allocations : allocations[a] \in AllocationInfo
    /\ enabled \in BOOLEAN /\ setting \in BOOLEAN
    /\ phase \in [Objects -> {"none", "made", "tracking", "dead", "gone"} \cup Held]
    /\ \A o \in Objects : phase[o] # "none" => address[o] \in Addresses /\ maker[o] \in Threads
    /\ missed \subseteq Addresses
    /\ outputFilename \in Files \cup {""}
    /\ content \in [Files -> Seq({"header", "report", "footer"})]

Init ==
    /\ allocations = <<>> /\ enabled = TRUE /\ toggles = 0
    /\ phase = [o \in Objects |-> "none"]
    /\ address = [o \in Objects |-> "nullptr"] /\ maker = [o \in Objects |-> "nobody"]
    /\ missed = {}
    /\ outputFilename = DefaultFile
    /\ setting = FALSE
    /\ content = [f \in Files |-> <<>>] /\ console = 0
    /\ reports = 0 /\ truncated = 0 /\ calls = 0

-------------------------------------------------------------------------------
(* The switch *)

Toggle ==
    /\ toggles < MaxToggles /\ toggles' = toggles + 1
    /\ UNCHANGED <<programVars, outputVars>>

Enable == Toggle /\ enabled' = TRUE /\ UNCHANGED allocations
Disable == Toggle /\ enabled' = FALSE /\ UNCHANGED allocations
Clear == Toggle /\ allocations' = <<>> /\ UNCHANGED enabled

-------------------------------------------------------------------------------
(* The calls of the program *)

Goes(o, p) == phase' = [phase EXCEPT ![o] = p]

\* The program makes the object at an address nobody uses.
Make(o, a, t) ==
    /\ phase[o] = "none"
    /\ \A q \in Objects : address[q] = a => phase[q] \in {"none", "gone"}
    /\ Goes(o, "made")
    /\ address' = [address EXCEPT ![o] = a] /\ maker' = [maker EXCEPT ![o] = t]
    /\ UNCHANGED <<tracerVars, missed, outputVars>>

\* A call reads the switch; without it the call returns at once.
Call(o, from, body, skipped) ==
    /\ phase[o] = from
    /\ Goes(o, IF enabled THEN body ELSE skipped)
    /\ missed' = IF enabled \/ from = skipped THEN missed ELSE missed \cup {address[o]}
    /\ UNCHANGED <<tracerVars, address, maker, outputVars>>

TrackObject(o) == Call(o, "made", "tracking", "live")
AddNote(o) == Call(o, "live", "noting", "live")
UntrackObject(o) == Call(o, "live", "untracking", "dead")

\* The body of a call, under the mutex.
Body(o, from, to) ==
    /\ phase[o] = from /\ Goes(o, to)
    /\ UNCHANGED <<enabled, toggles, address, maker, outputVars>>

NewInfo(o) ==
    [object |-> o, allocThread |-> maker[o], isFreed |-> FALSE, userNote |-> {}]

\* What was tracked at the address before is replaced.
TrackBody(o) ==
    /\ Body(o, "tracking", "live")
    /\ allocations' = [a \in {address[o]} |-> NewInfo(o)] @@ allocations
    /\ missed' = missed \ {address[o]}

NoteBody(o) ==
    /\ Body(o, "noting", "live")
    /\ allocations' = [a \in DOMAIN allocations |->
            IF a = address[o] THEN [allocations[a] EXCEPT !.userNote = @ \cup {o}]
            ELSE allocations[a]]
    /\ UNCHANGED missed

\* The entry is marked and stays; an address that is not tracked is ignored.
UntrackBody(o, t) ==
    /\ Body(o, "untracking", "dead")
    /\ allocations' = [a \in DOMAIN allocations |->
            IF a = address[o] THEN [allocations[a] EXCEPT !.isFreed = TRUE] ELSE allocations[a]]
    /\ UNCHANGED missed

Delete(o) ==
    /\ phase[o] = "dead" /\ Goes(o, "gone")
    /\ UNCHANGED <<tracerVars, address, maker, missed, outputVars>>

-------------------------------------------------------------------------------
(* The reports *)

Active == {a \in DOMAIN allocations : ~ allocations[a].isFreed}

GetActiveObjectCount == Cardinality(Active)
ThreadStatistics == [t \in Threads |-> Cardinality({a \in Active : allocations[a].allocThread = t})]

OutputCall ==
    /\ ~setting /\ calls < MaxReports /\ calls' = calls + 1
    /\ UNCHANGED <<tracerVars, programVars>>

Opens(f) == f \in Files \ Unwritable

\* SetOutputFile assigns the name, then takes the mutex; by its contract nothing
\* else uses the output meanwhile.
SetOutputFile(f) ==
    /\ OutputCall
    /\ outputFilename' = f /\ setting' = TRUE
    /\ UNCHANGED <<content, console, reports, truncated>>

Count(s, x) == Cardinality({i \in DOMAIN s : s[i] = x})

StartFile ==
    /\ setting /\ setting' = FALSE
    /\ content' = IF Opens(outputFilename)
                  THEN [content EXCEPT ![outputFilename] = <<"header">>] ELSE content
    /\ truncated' = truncated
            + (IF Opens(outputFilename) THEN Count(content[outputFilename], "report") ELSE 0)
    /\ UNCHANGED <<tracerVars, programVars, outputFilename, console, reports, calls>>

CloseOutputFile ==
    /\ OutputCall
    /\ outputFilename' = ""
    /\ content' = IF Opens(outputFilename)
                  THEN [content EXCEPT ![outputFilename] = Append(@, "footer")] ELSE content
    /\ UNCHANGED <<setting, console, reports, truncated>>

\* WriteToOutput writes to the file of SetOutputFile; what cannot be opened, and no
\* file at all, is the console.
Target(filename) == IF filename = "" THEN outputFilename ELSE filename

WriteReport(filename) ==
    LET f == Target(filename) IN
    /\ OutputCall
    /\ reports' = reports + 1
    /\ content' = IF Opens(f) THEN [content EXCEPT ![f] = Append(@, "report")] ELSE content
    /\ console' = IF Opens(f) THEN console ELSE console + 1
    /\ UNCHANGED <<outputFilename, setting, truncated>>

Next ==
    \/ Enable \/ Disable \/ Clear
    \/ \E o \in Objects :
        \/ \E a \in Addresses, t \in Threads : Make(o, a, t)
        \/ TrackObject(o) \/ AddNote(o) \/ UntrackObject(o)
        \/ TrackBody(o) \/ NoteBody(o) \/ (\E t \in Threads : UntrackBody(o, t)) \/ Delete(o)
    \/ \E f \in Files \cup {""} : SetOutputFile(f) \/ WriteReport(f)
    \/ StartFile \/ CloseOutputFile

Spec == Init /\ [][Next]_vars

-------------------------------------------------------------------------------

\* A leak that is reported is one: an active entry is of an object that exists, made
\* by the thread the entry names, unless a call for the address was skipped since
\* the entry was made.
LeaksAreLive ==
    \A a \in Active \ missed : \E o \in Objects :
        /\ address[o] = a /\ phase[o] \in Held
        /\ allocations[a].object = o /\ allocations[a].allocThread = maker[o]

\* An object that exists is counted, also when its address was used before: its
\* address has its own entry, which is not marked freed, unless Clear removed it.
LiveAreCounted ==
    \A o \in Objects : (/\ phase[o] \in Held
                        /\ address[o] \in DOMAIN allocations \ missed) =>
        LET info == allocations[address[o]] IN info.object = o /\ ~info.isFreed

\* The history of an object has only the notes made on this object, not those on
\* another one that had the address before or got it later.
NotesOfObject ==
    \A a \in DOMAIN allocations \ missed :
        allocations[a].userNote \subseteq {allocations[a].object}

\* The statistics of the threads add up to what the count of objects says, and to
\* the objects that exist when no call was ever skipped or entry cleared.
StatisticsAddUp ==
    toggles = 0 =>
        /\ GetActiveObjectCount = Cardinality({o \in Objects : phase[o] \in Held})
        /\ \A t \in Threads : ThreadStatistics[t] =
                Cardinality({o \in Objects : phase[o] \in Held /\ maker[o] = t})

\* A report reaches one place: it is in a file, on the console, or was removed by a
\* later SetOutputFile of the same file.
ReportedOnce ==
    LET inFile(f) == Count(content[f], "report")
    IN  reports = console + truncated
                  + FoldFunction(+, 0, [f \in Files |-> inFile(f)])

\* The file that reports go to starts with the header of its log and has no other.
LogStartsOnce ==
    \A f \in Files : "header" \in Range(content[f]) =>
        content[f][1] = "header" /\ Count(content[f], "header") = 1

===============================================================================
