---------------------------- MODULE Retransmission ----------------------------
(***************************************************************************)
(* The life of a SendPacketInfo: allocated by the thread that sends,       *)
(* shared by the map of unacknowledged packets, the send queue and the     *)
(* retransmission heap, and freed by whoever gives back the last           *)
(* reference.  A logic worker takes acknowledgements, the retransmission   *)
(* thread fires what is due, the release thread clears the session, which  *)
(* is then handed to another client under the next generation while the    *)
(* retransmission thread, which no drain waits for, may still hold one.    *)
(*                                                                         *)
(* An info is a number and is not used again once freed.  The queue stands *)
(* for the queue and the packet held back; one thread at a time packs a    *)
(* datagram (SendPipeline shows it), called the I/O worker here.  Content  *)
(* has no call under way when its session is released.                     *)
(***************************************************************************)
EXTENDS Naturals, SequencesExt, FiniteSetsExt

CONSTANTS
    MaxInfos,       \* bound of the model on the infos allocated
    Replies,        \* the infos of reply packets, which are not retransmitted
    MaxPacketRetransmissionCount,
    MaxGeneration,  \* bounds of the model on generations and on the clock
    MaxClock

Infos == 1 .. MaxInfos
None == 0

RetransmissionAssumption ==
    /\ MaxInfos \in Nat /\ Replies \subseteq Infos
    /\ MaxPacketRetransmissionCount \in Nat \ {0}
    /\ MaxGeneration \in Nat /\ MaxClock \in Nat

VARIABLES
    allocated, refCount,
    owner,              \* the generation of the session each info was made for
    erased, scheduleVersion, retransmissionCount,
    canUseRttSample, lastSendTime,  \* lastSendTime: the number of the transmission, or 0
    transmissions, sampled,         \* histories
    sendPacketInfoMap, queue,
    heap, wakeEvent,    \* of the scheduler
    clock,
    generation, session,    \* of the session: "idle", "connected", "releasing"
    sender, io, worker, \* [pc, info] of each thread
    rtPc, dueList, armed,   \* the retransmission thread; armed: a deadline, or None
    strayDisconnect     \* a generation was disconnected for a packet of another

infoVars == <<allocated, refCount, owner, erased, scheduleVersion, retransmissionCount,
              canUseRttSample, lastSendTime, transmissions, sampled>>
sessionVars == <<generation, session, sendPacketInfoMap, queue>>
schedulerVars == <<heap, wakeEvent, clock>>
rtVars == <<rtPc, dueList, armed, strayDisconnect>>
vars == <<infoVars, sessionVars, schedulerVars, sender, io, worker, rtVars>>

Resting == [pc |-> "idle", info |-> None]

Init ==
    /\ allocated = 0 /\ refCount = [i \in Infos |-> 0]
    /\ owner = [i \in Infos |-> 0] /\ erased = {}
    /\ scheduleVersion = [i \in Infos |-> 0] /\ retransmissionCount = [i \in Infos |-> 0]
    /\ canUseRttSample = {} /\ lastSendTime = [i \in Infos |-> 0]
    /\ transmissions = [i \in Infos |-> 0] /\ sampled = {}
    /\ sendPacketInfoMap = {} /\ queue = <<>>
    /\ heap = {} /\ wakeEvent = FALSE /\ clock = 0
    /\ generation = 0 /\ session = "connected"
    /\ sender = Resting /\ io = Resting /\ worker = Resting
    /\ rtPc = "scan" /\ dueList = <<>> /\ armed = None /\ strayDisconnect = FALSE

IsOwnerValid(i) == owner[i] = generation

Free(i) == refCount' = [refCount EXCEPT ![i] = @ - 1]

AddRefCount(i) == refCount' = [refCount EXCEPT ![i] = @ + 1]

otherInfoVars == <<allocated, owner, scheduleVersion, retransmissionCount,
                   canUseRttSample, lastSendTime, transmissions, sampled>>

-----------------------------------------------------------------------------
(* The sending thread: RUDPSession::SendPacketImmediate.                   *)

\* Initialize, and register in the map unless it is a reply.
Allocate ==
    LET i == allocated + 1
        reply == i \in Replies IN
    /\ sender.pc = "idle" /\ session = "connected" /\ allocated < MaxInfos
    /\ allocated' = i
    /\ owner' = [owner EXCEPT ![i] = generation]
    /\ refCount' = [refCount EXCEPT ![i] = IF reply THEN 1 ELSE 2]
    /\ canUseRttSample' = IF reply THEN canUseRttSample ELSE canUseRttSample \cup {i}
    /\ sendPacketInfoMap' = IF reply THEN sendPacketInfoMap ELSE sendPacketInfoMap \cup {i}
    /\ sender' = [pc |-> "send", info |-> i]
    /\ UNCHANGED <<erased, scheduleVersion, retransmissionCount, lastSendTime,
                   transmissions, sampled, generation, session, queue, schedulerVars,
                   io, worker, rtVars>>

\* core.SendPacket takes a reference for the queue, unless the session is leaving.
CoreSendPacket ==
    /\ sender.pc = "send"
    /\ IF session = "releasing"
       THEN sender' = [sender EXCEPT !.pc = "failed"] /\ UNCHANGED <<refCount, queue>>
       ELSE /\ AddRefCount(sender.info) /\ queue' = Append(queue, sender.info)
            /\ sender' = [sender EXCEPT !.pc = "pushed"]
    /\ UNCHANGED <<otherInfoVars, erased, generation, session, sendPacketInfoMap,
                   schedulerVars, io, worker, rtVars>>

SendSucceeds ==
    /\ sender.pc = "pushed"
    /\ Free(sender.info) /\ sender' = Resting
    /\ UNCHANGED <<otherInfoVars, erased, sessionVars, schedulerVars, io, worker, rtVars>>

\* DoSend fails after the packet is in the queue.
SendFails ==
    /\ sender.pc = "pushed" /\ sender' = [sender EXCEPT !.pc = "failed"]
    /\ UNCHANGED <<infoVars, sessionVars, schedulerVars, io, worker, rtVars>>

MarkFailedErased ==
    /\ sender.pc = "failed"
    /\ erased' = erased \cup {sender.info}
    /\ sender' = [sender EXCEPT !.pc = "erase"]
    /\ UNCHANGED <<otherInfoVars, refCount, sessionVars, schedulerVars, io, worker, rtVars>>

DoDisconnect == session' = IF session = "connected" THEN "releasing" ELSE session

\* Take the packet out of the map, if no reply has, give both references back, and
\* disconnect.
EraseFailed ==
    LET i == sender.info IN
    /\ sender.pc = "erase"
    /\ refCount' = [refCount EXCEPT ![i] = @ - (IF i \in sendPacketInfoMap THEN 2 ELSE 1)]
    /\ sendPacketInfoMap' = sendPacketInfoMap \ {i}
    /\ sender' = Resting /\ DoDisconnect
    /\ UNCHANGED <<otherInfoVars, erased, generation, queue, schedulerVars, io, worker,
                   rtVars>>

-----------------------------------------------------------------------------
(* Packing the datagram: the queue's reference passes to the I/O worker.   *)

TryGetFrontAndPop ==
    /\ io.pc = "idle" /\ queue # <<>> /\ session # "idle"
    /\ io' = [pc |-> "taken", info |-> Head(queue)] /\ queue' = Tail(queue)
    /\ UNCHANGED <<infoVars, generation, session, sendPacketInfoMap, schedulerVars,
                   sender, worker, rtVars>>

\* Refresh up to MarkSentForRttSample: an erased packet is dropped, a reply is sent.
MarkSentForRttSample ==
    LET i == io.info IN
    /\ io.pc = "taken"
    /\ IF i \in erased
       THEN Free(i) /\ io' = Resting /\ UNCHANGED lastSendTime
       ELSE IF i \in Replies
       THEN /\ io' = [io EXCEPT !.pc = "copy"] /\ UNCHANGED <<lastSendTime, refCount>>
       ELSE /\ lastSendTime' = [lastSendTime EXCEPT ![i] = transmissions[i] + 1]
            /\ io' = [io EXCEPT !.pc = "push"] /\ UNCHANGED refCount
    /\ UNCHANGED <<allocated, owner, erased, scheduleVersion, retransmissionCount,
                   canUseRttSample, transmissions, sampled, sessionVars, schedulerVars,
                   sender, worker, rtVars>>

\* Under the scheduler's lock: an entry with a new version and a reference of its own.
PushRetransmissionSchedule ==
    LET i == io.info IN
    /\ io.pc = "push"
    /\ \/ /\ i \in erased
          /\ Free(i) /\ io' = Resting /\ UNCHANGED <<scheduleVersion, heap>>
       \/ /\ i \notin erased
          /\ scheduleVersion' = [scheduleVersion EXCEPT ![i] = @ + 1]
          /\ AddRefCount(i)
          /\ \E deadline \in clock + 1 .. MaxClock :
                heap' = heap \cup
                    {[info |-> i, version |-> scheduleVersion[i] + 1, deadline |-> deadline]}
          /\ io' = [io EXCEPT !.pc = "signal"]
    /\ UNCHANGED <<allocated, owner, erased, retransmissionCount, canUseRttSample,
                   lastSendTime, transmissions, sampled, sessionVars, wakeEvent, clock,
                   sender, worker, rtVars>>

\* Mutant: nobody is woken.
SignalRetransmissionWakeEvent_Silent ==
    /\ io.pc = "signal" /\ io' = [io EXCEPT !.pc = "copy"]
    /\ UNCHANGED <<infoVars, sessionVars, schedulerVars, sender, worker, rtVars>>

SignalRetransmissionWakeEvent ==
    /\ io.pc = "signal" /\ wakeEvent' = TRUE /\ io' = [io EXCEPT !.pc = "copy"]
    /\ UNCHANGED <<infoVars, sessionVars, heap, clock, sender, worker, rtVars>>

\* The packet is in the datagram; the queue's reference is given back.
Transmit ==
    LET i == io.info IN
    /\ io.pc = "copy"
    /\ transmissions' = [transmissions EXCEPT ![i] = @ + 1]
    /\ Free(i) /\ io' = Resting
    /\ UNCHANGED <<allocated, owner, erased, scheduleVersion, retransmissionCount,
                   canUseRttSample, lastSendTime, sampled, sessionVars, schedulerVars,
                   sender, worker, rtVars>>

-----------------------------------------------------------------------------
(* The logic worker: RUDPSession::OnSendReply.                             *)

\* A reply to what the client received takes the map's reference.
FindAndEraseSendPacketInfo(i) ==
    /\ worker.pc = "idle" /\ session = "connected"
    /\ i \in sendPacketInfoMap /\ transmissions[i] > 0
    /\ sendPacketInfoMap' = sendPacketInfoMap \ {i}
    /\ worker' = [pc |-> "mark", info |-> i]
    /\ UNCHANGED <<infoVars, generation, session, queue, schedulerVars, sender, io, rtVars>>

MarkSendPacketInfoErased ==
    /\ worker.pc = "mark" /\ erased' = erased \cup {worker.info}
    /\ worker' = [worker EXCEPT !.pc = "sample"]
    /\ UNCHANGED <<otherInfoVars, refCount, sessionVars, schedulerVars, sender, io, rtVars>>

\* A packet that was not sent again gives a sample of the round trip.
TryGetRttSample ==
    LET i == worker.info IN
    /\ worker.pc = "sample"
    /\ sampled' = IF i \in canUseRttSample /\ lastSendTime[i] # 0
                  THEN sampled \cup {i} ELSE sampled
    /\ Free(i) /\ worker' = Resting
    /\ UNCHANGED <<allocated, owner, erased, scheduleVersion, retransmissionCount,
                   canUseRttSample, lastSendTime, transmissions, sessionVars,
                   schedulerVars, sender, io, rtVars>>

-----------------------------------------------------------------------------
(* The retransmission thread.                                              *)

Stale(entry) ==
    entry.info \in erased \/ entry.version # scheduleVersion[entry.info]

InvalidateRttSamples(infos) == canUseRttSample' = canUseRttSample \ infos

\* Under the scheduler's lock: pop what is due and current into dueList, free the
\* stale entries met on the way, and stop at the first current one that is not due.
Scan ==
    LET due == {e \in heap : e.deadline <= clock /\ ~Stale(e)}
        future == {e \in heap : e.deadline > clock /\ ~Stale(e)}
        next == IF future = {} THEN None ELSE Min({e.deadline : e \in future})
        freed == {e \in heap : Stale(e) /\ (e.deadline < next \/ next = None)}
        dropped(i) == Cardinality({e \in freed : e.info = i}) IN
    /\ rtPc = "scan"
    /\ heap' = heap \ (due \cup freed)
    /\ refCount' = [i \in Infos |-> refCount[i] - dropped(i)]
    /\ InvalidateRttSamples({e.info : e \in due})
    /\ dueList' = [k \in 1 .. Cardinality(due) |-> SetToSeq(due)[k].info]
    /\ IF due = {} THEN rtPc' = "wait" /\ armed' = next
                   ELSE rtPc' = "process" /\ UNCHANGED armed
    /\ UNCHANGED <<allocated, owner, erased, scheduleVersion, retransmissionCount,
                   lastSendTime, transmissions, sampled, sessionVars, wakeEvent, clock,
                   sender, io, worker, strayDisconnect>>

\* The timer of the deadline armed, or the event of a new entry.
WakeUp ==
    /\ rtPc = "wait"
    /\ \/ wakeEvent /\ wakeEvent' = FALSE
       \/ armed # None /\ armed <= clock /\ UNCHANGED wakeEvent
    /\ rtPc' = "scan" /\ armed' = None
    /\ UNCHANGED <<infoVars, sessionVars, heap, clock, sender, io, worker, dueList,
                   strayDisconnect>>

\* The current packet is done with.
NextDue ==
    /\ Free(Head(dueList)) /\ dueList' = Tail(dueList)
    /\ rtPc' = IF Len(dueList) = 1 THEN "scan" ELSE "process"
    /\ UNCHANGED armed

\* Under the scheduler's lock: drop it if acknowledged since, or count.
ProcessRetransmission ==
    LET i == Head(dueList) IN
    /\ rtPc = "process"
    /\ IF i \in erased
       THEN NextDue /\ UNCHANGED retransmissionCount
       ELSE /\ retransmissionCount' = [retransmissionCount EXCEPT ![i] = @ + 1]
            /\ rtPc' = IF retransmissionCount[i] + 1 >= MaxPacketRetransmissionCount
                       THEN "limit" ELSE "resend"
            /\ UNCHANGED <<refCount, dueList, armed>>
    /\ UNCHANGED <<allocated, owner, erased, scheduleVersion, canUseRttSample,
                   lastSendTime, transmissions, sampled, sessionVars, schedulerVars,
                   sender, io, worker, strayDisconnect>>

\* At the limit, and for a packet sent again, the owner is looked at first ...
CheckOwner ==
    /\ rtPc \in {"limit", "resend"}
    /\ IF IsOwnerValid(Head(dueList))
       THEN /\ rtPc' = IF rtPc = "limit" THEN "disconnect" ELSE "push"
            /\ UNCHANGED <<refCount, dueList, armed>>
       ELSE NextDue
    /\ UNCHANGED <<otherInfoVars, erased, sessionVars, schedulerVars, sender, io, worker,
                   strayDisconnect>>

\* ... and then whatever session is there by now is disconnected ...
DisconnectOwner ==
    /\ rtPc = "disconnect"
    /\ DoDisconnect
    /\ strayDisconnect' =
          (strayDisconnect \/ (session = "connected" /\ ~IsOwnerValid(Head(dueList))))
    /\ NextDue
    /\ UNCHANGED <<otherInfoVars, erased, generation, sendPacketInfoMap, queue,
                   schedulerVars, sender, io, worker>>

\* ... or gets the packet into its queue, unless it is leaving.
PushAgain ==
    LET i == Head(dueList) IN
    /\ rtPc = "push"
    /\ IF session = "releasing"
       THEN NextDue /\ UNCHANGED queue
       ELSE /\ queue' = Append(queue, i) /\ AddRefCount(i)
            /\ rtPc' = "pushed"
            /\ UNCHANGED <<dueList, armed>>
    /\ UNCHANGED <<otherInfoVars, erased, generation, session, sendPacketInfoMap,
                   schedulerVars, sender, io, worker, strayDisconnect>>

\* DoSend has come back; if it failed, an owner that is still the same is disconnected.
PushedAgain ==
    /\ rtPc = "pushed"
    /\ \/ NextDue
       \/ /\ IsOwnerValid(Head(dueList))
          /\ rtPc' = "disconnect" /\ UNCHANGED <<refCount, dueList, armed>>
    /\ UNCHANGED <<otherInfoVars, erased, sessionVars, schedulerVars, sender, io, worker,
                   strayDisconnect>>

-----------------------------------------------------------------------------
(* The session goes, and comes back for another client.                    *)

OtherDisconnects ==
    /\ session = "connected" /\ session' = "releasing"
    /\ UNCHANGED <<infoVars, generation, sendPacketInfoMap, queue, schedulerVars, sender,
                   io, worker, rtVars>>

Drained == sender.pc = "idle" /\ io.pc = "idle" /\ worker.pc = "idle"

\* Disconnect, packet by packet: mark it erased, give the map's reference back.
ClearSendPacketInfoMap(i) ==
    /\ session = "releasing" /\ Drained
    /\ i \in sendPacketInfoMap
    /\ sendPacketInfoMap' = sendPacketInfoMap \ {i}
    /\ erased' = erased \cup {i} /\ Free(i)
    /\ UNCHANGED <<otherInfoVars, generation, session, queue, schedulerVars, sender, io,
                   worker, rtVars>>

\* The next generation, with an empty queue.
InitializeSession ==
    /\ session = "releasing" /\ Drained /\ sendPacketInfoMap = {}
    /\ generation < MaxGeneration
    /\ session' = "idle" /\ generation' = generation + 1
    /\ queue' = <<>>
    /\ refCount' = [i \in Infos |-> refCount[i]
                       - Cardinality({k \in DOMAIN queue : queue[k] = i})]
    /\ UNCHANGED <<otherInfoVars, erased, sendPacketInfoMap, schedulerVars, sender, io,
                   worker, rtVars>>

TryConnect ==
    /\ session = "idle" /\ session' = "connected"
    /\ UNCHANGED <<infoVars, generation, sendPacketInfoMap, queue, schedulerVars, sender,
                   io, worker, rtVars>>

Tick ==
    /\ clock < MaxClock /\ clock' = clock + 1
    /\ UNCHANGED <<infoVars, sessionVars, heap, wakeEvent, sender, io, worker, rtVars>>

-----------------------------------------------------------------------------
Sender ==
    Allocate \/ CoreSendPacket \/ SendSucceeds \/ SendFails \/ MarkFailedErased \/ EraseFailed
IO ==
    \/ TryGetFrontAndPop \/ MarkSentForRttSample \/ PushRetransmissionSchedule
    \/ SignalRetransmissionWakeEvent \/ Transmit
Worker ==
    \/ \E i \in Infos : FindAndEraseSendPacketInfo(i)
    \/ MarkSendPacketInfoErased \/ TryGetRttSample
RunRetransmissionThread ==
    \/ Scan \/ WakeUp \/ ProcessRetransmission \/ CheckOwner \/ DisconnectOwner
    \/ PushAgain \/ PushedAgain
Session ==
    \/ OtherDisconnects \/ InitializeSession \/ TryConnect
    \/ \E i \in Infos : ClearSendPacketInfoMap(i)

Next == Sender \/ IO \/ Worker \/ RunRetransmissionThread \/ Session \/ Tick

Spec == Init /\ [][Next]_vars

-----------------------------------------------------------------------------
TypeOK ==
    /\ allocated \in 0 .. MaxInfos /\ refCount \in [Infos -> Nat]
    /\ owner \in [Infos -> 0 .. MaxGeneration] /\ erased \subseteq Infos
    /\ scheduleVersion \in [Infos -> Nat] /\ retransmissionCount \in [Infos -> Nat]
    /\ canUseRttSample \subseteq Infos \ Replies /\ lastSendTime \in [Infos -> Nat]
    /\ transmissions \in [Infos -> Nat] /\ sampled \subseteq Infos
    /\ sendPacketInfoMap \subseteq Infos \ Replies /\ queue \in Seq(Infos)
    /\ heap \subseteq [info : Infos, version : Nat, deadline : 1 .. MaxClock]
    /\ wakeEvent \in BOOLEAN /\ clock \in 0 .. MaxClock
    /\ generation \in 0 .. MaxGeneration /\ session \in {"idle", "connected", "releasing"}
    /\ \A thread \in {sender, io, worker} :
          thread.info \in Infos \cup {None} /\ (thread.info = None <=> thread.pc = "idle")
    /\ rtPc \in {"scan", "wait", "process", "limit", "disconnect", "resend", "push", "pushed"}
    /\ dueList \in Seq(Infos) /\ armed \in 0 .. MaxClock /\ strayDisconnect \in BOOLEAN

Occurrences(seq, i) == Cardinality({k \in DOMAIN seq : seq[k] = i})
Holders(i) ==
    Cardinality({t \in {"sender", "io", "worker"} :
                    CASE t = "sender" -> sender.info = i
                      [] t = "io" -> io.info = i
                      [] t = "worker" -> worker.info = i})
        + (IF i \in sendPacketInfoMap THEN 1 ELSE 0)
        + Occurrences(queue, i) + Occurrences(dueList, i)
        + Cardinality({e \in heap : e.info = i})

\* The count of every info is the number of places that hold it: nobody uses an info
\* that was freed, and none is lost when its last holder lets go.
RefCountExact == \A i \in Infos : refCount[i] = Holders(i)

\* What the retransmission thread has not dealt with yet.
StillDue == IF rtPc \in {"pushed", "disconnect"} THEN Tail(dueList) ELSE dueList

\* A packet is at most once among what waits to be sent, what is being sent again and
\* the heap: it never goes out twice for one timeout, and the version of an entry, which
\* sets the latest entry of a packet apart from earlier ones, never has to decide.
OneCopyAtATime ==
    \A i \in Infos :
        Occurrences(queue, i) + Occurrences(StillDue, i)
            + Cardinality({e \in heap : e.info = i})
            + (IF io.info = i /\ io.pc \in {"taken", "push"} THEN 1 ELSE 0) <= 1

\* The round trip is measured on packets that went out once, never to go out again.
SampleUnambiguous == \A i \in sampled : transmissions[i] = 1

\* What was sent to the client of one generation is never put into a datagram for the
\* client of another, though the retransmission thread may still queue it.
SentOnlyToOwner == io.pc \in {"push", "signal", "copy"} => IsOwnerValid(io.info)

\* The retransmission thread never waits past a deadline: the timer is armed for the
\* earliest entry that may fire, or an event is on its way.
NoLostWakeup ==
    rtPc = "wait" /\ ~wakeEvent /\ io.pc # "signal" =>
        \A e \in heap : ~Stale(e) => armed # None /\ armed <= e.deadline

\* A packet past its limit disconnects the session it was sent in, and no other.
DisconnectsOwner == ~strayDisconnect
=============================================================================
