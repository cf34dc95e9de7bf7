------------------------ MODULE ReceiveOrdering_proofs ------------------------
(***************************************************************************)
(* Theorems of ReceiveOrdering, for every sequence space, every window of  *)
(* at most a quarter of it, and every number of packets.                   *)
(***************************************************************************)
EXTENDS ReceiveOrdering, FiniteSetTheorems, TLAPS

-----------------------------------------------------------------------------
(* Sequences are compared modulo SeqModulus.  SeqDiffIsTrue says when the  *)
(* comparison is that of the numbers themselves.                           *)

LEMMA ModulusFacts ==
    /\ SeqModulus \in Nat \ {0} /\ SeqModulus = 2 * HalfRange
    /\ HalfRange \in Nat /\ WindowSize \in Nat \ {0} /\ 2 * WindowSize <= HalfRange
BY RangeAssumption DEF SeqModulus

LEMMA Division ==
    ASSUME NEW m \in Nat \ {0}, NEW n \in Int
    PROVE  /\ n \div m \in Int /\ n % m \in 0 .. m - 1
           /\ n = m * (n \div m) + (n % m)
OBVIOUS

LEMMA RemainderIsUnique ==
    ASSUME NEW m \in Nat \ {0}, NEW n \in Int, NEW q \in Int, NEW r \in Int,
           n = m * q + r, 0 <= r, r < m
    PROVE  n % m = r
<1> DEFINE k == (n \div m) - q
<1>1. /\ n = m * (n \div m) + (n % m)
      /\ n % m \in 0 .. m - 1 /\ n \div m \in Int
  BY Division
<1>2. k \in Int /\ m * k = r - (n % m)
  BY <1>1
<1> HIDE DEF k
<1>3. k >= 1 => m * k >= m
  BY <1>2
<1>4. k <= -1 => m * k <= -m
  BY <1>2
<1>5. k = 0
  BY <1>1, <1>2, <1>3, <1>4
<1>6. m * k = 0
  BY <1>5
<1> QED
  BY <1>1, <1>2, <1>6

LEMMA SequenceOf ==
    ASSUME NEW n \in Int
    PROVE  /\ Sequence(n) \in 0 .. SeqModulus - 1
           /\ \E q \in Int : n = SeqModulus * q + Sequence(n)
<1>1. /\ n = SeqModulus * (n \div SeqModulus) + (n % SeqModulus)
      /\ n % SeqModulus \in 0 .. SeqModulus - 1 /\ n \div SeqModulus \in Int
  BY ModulusFacts, Division
<1> QED
  BY <1>1 DEF Sequence

\* Numbers a multiple of the modulus apart have the same sequence.
LEMMA SameSequence ==
    ASSUME NEW a \in Int, NEW b \in Int, NEW q \in Int, a - b = SeqModulus * q
    PROVE  Sequence(a) = Sequence(b)
<1>1. PICK p \in Int : b = SeqModulus * p + Sequence(b)
  BY SequenceOf
<1>2. Sequence(b) \in Int /\ 0 <= Sequence(b) /\ Sequence(b) < SeqModulus
  BY SequenceOf, ModulusFacts
<1>3. p + q \in Int /\ a = SeqModulus * (p + q) + Sequence(b)
  BY <1>1, <1>2, ModulusFacts
<1>4. a % SeqModulus = Sequence(b)
  BY <1>2, <1>3, ModulusFacts, RemainderIsUnique
<1> QED
  BY <1>4 DEF Sequence

\* Adding to a sequence is adding to the number.
LEMMA SequenceAdd ==
    ASSUME NEW n \in Int, NEW k \in Int
    PROVE  (Sequence(n) + k) % SeqModulus = Sequence(n + k)
<1>1. PICK q \in Int : n = SeqModulus * q + Sequence(n)
  BY SequenceOf
<1>2. Sequence(n) \in Int
  BY SequenceOf, ModulusFacts
<1>3. -q \in Int /\ (Sequence(n) + k) - (n + k) = SeqModulus * (-q)
  BY <1>1, <1>2, ModulusFacts
<1>4. Sequence(Sequence(n) + k) = Sequence(n + k)
  BY <1>2, <1>3, SameSequence
<1> QED
  BY <1>4 DEF Sequence

\* The signed difference of two sequences is the difference of their numbers, if
\* these are less than half the space apart.
LEMMA SeqDiffIsTrue ==
    ASSUME NEW n \in Int, NEW m \in Int, -HalfRange <= n - m, n - m < HalfRange
    PROVE  SeqDiff(Sequence(n), Sequence(m)) = n - m
<1>1. PICK p \in Int : n = SeqModulus * p + Sequence(n)
  BY SequenceOf
<1>2. PICK q \in Int : m = SeqModulus * q + Sequence(m)
  BY SequenceOf
<1>3. Sequence(n) \in Int /\ Sequence(m) \in Int
  BY SequenceOf, ModulusFacts
<1>4. q - p \in Int /\ (Sequence(n) - Sequence(m)) - (n - m) = SeqModulus * (q - p)
  BY <1>1, <1>2, <1>3, ModulusFacts
<1>5. Sequence(Sequence(n) - Sequence(m)) = Sequence(n - m)
  BY <1>3, <1>4, SameSequence
<1>6. (Sequence(n) - Sequence(m)) % SeqModulus = (n - m) % SeqModulus
  BY <1>5 DEF Sequence
<1>7. CASE n - m >= 0
  <2>1. (n - m) % SeqModulus = n - m
    BY <1>7, ModulusFacts
  <2> QED
    BY <1>6, <1>7, <2>1, ModulusFacts DEF SeqDiff
<1>8. CASE n - m < 0
  <2>1. /\ n - m = SeqModulus * (-1) + (n - m + SeqModulus)
        /\ n - m + SeqModulus \in Int
        /\ 0 <= n - m + SeqModulus /\ n - m + SeqModulus < SeqModulus
    BY <1>8, ModulusFacts
  <2>2. (n - m) % SeqModulus = n - m + SeqModulus
    BY <2>1, ModulusFacts, RemainderIsUnique
  <2> QED
    BY <1>6, <1>8, <2>2, ModulusFacts DEF SeqDiff
<1> QED
  BY <1>7, <1>8

\* Two numbers less than half the space apart have the same sequence only if they
\* are the same.
LEMMA SequenceInjective ==
    ASSUME NEW n \in Int, NEW m \in Int, -HalfRange <= n - m, n - m < HalfRange,
           Sequence(n) = Sequence(m)
    PROVE  n = m
<1>1. SeqDiff(Sequence(n), Sequence(m)) = n - m
  BY SeqDiffIsTrue
<1>2. Sequence(m) \in Int
  BY SequenceOf, ModulusFacts
<1>3. SeqDiff(Sequence(m), Sequence(m)) = 0
  <2>1. Sequence(m) - Sequence(m) = 0 /\ 0 % SeqModulus = 0
    BY <1>2, ModulusFacts
  <2>2. CASE HalfRange > 0
    BY <2>1, <2>2, ModulusFacts DEF SeqDiff
  <2> QED
    BY <2>2, ModulusFacts
<1> QED
  BY <1>1, <1>3

-----------------------------------------------------------------------------
(* The inductive invariant.  It names the packet w whose sequence is       *)
(* windowStart - the code only has the sequence - and bounds everything    *)
(* by it and by the next packet expected, so that every comparison the     *)
(* code makes is between numbers less than half the space apart.           *)

Expected == Len(delivered) + 1

Types ==
    /\ sent \in Nat
    /\ connected \in BOOLEAN /\ claimed \in BOOLEAN /\ nowInReleaseThread \in BOOLEAN
    /\ recvHoldingPackets \subseteq Nat
    /\ received \subseteq 0 .. WindowSize - 1
    /\ pc \in {"idle", "handler", "holding"}
    /\ delivered \in Seq(Nat)
    /\ reply.packet \in Nat

\* The packet in the handler, or else the next expected.
Current == IF pc = "handler" THEN Len(delivered) ELSE Expected

\* Either the window starts at the current packet and has no flag set, or a handler
\* has failed while another thread was disconnecting the session: the packet that
\* failed is never marked, and the window stays at it.
WindowAt(w) ==
    /\ windowStart = Sequence(w)
    /\ Expected <= w + WindowSize
    /\ \/ w = Current /\ received = {}
       \/ w < Current /\ 0 \notin received /\ claimed
    /\ \A h \in recvHoldingPackets :
         /\ w <= h /\ h < w + WindowSize /\ h <= sent
         /\ h = w => pc = "holding" /\ w = Expected

OrderInv ==
    /\ Types
    /\ InOrderOnce /\ RepliesAreCumulative
    /\ nowInReleaseThread => claimed
    /\ ~connected => delivered = <<>> /\ recvHoldingPackets = {} /\ sent = 0
                      /\ pc = "idle" /\ ~claimed
    /\ sent <= Len(delivered) + Horizon
    /\ pc = "handler" => packet = Len(delivered) /\ packet > 0
    /\ connected => /\ nextRecvPacketSequence = Sequence(Expected)
                    /\ \E w \in Nat : WindowAt(w)

\* Handing over the next packet keeps the order.
LEMMA AppendNext ==
    ASSUME delivered \in Seq(Nat), NEW n \in Nat, n = Expected,
           \A i \in 1 .. Len(delivered) : delivered[i] = i
    PROVE  /\ Append(delivered, n) \in Seq(Nat)
           /\ Len(Append(delivered, n)) = Len(delivered) + 1
           /\ \A i \in 1 .. Len(delivered) + 1 : Append(delivered, n)[i] = i
BY DEF Expected

\* What the worker concludes of packet n from its sequence is true of n.
LEMMA ArrivalFacts ==
    ASSUME OrderInv, NEW n \in Nat, Arrives(n), NEW w \in Nat, WindowAt(w)
    PROVE  /\ SeqDiff(Sequence(n), nextRecvPacketSequence) = n - Expected
           /\ SeqDiff(Sequence(n), windowStart) = n - w
           /\ CanReceive(Sequence(n)) <=> w <= n /\ n < w + WindowSize
           /\ Sequence(n) = nextRecvPacketSequence <=> n = Expected
<1>1. /\ Horizon = HalfRange - WindowSize /\ HalfRange \in Nat /\ WindowSize \in Nat \ {0}
  BY ModulusFacts DEF Horizon
<1>2. /\ Len(delivered) \in Nat /\ Expected = Len(delivered) + 1
      /\ n <= Len(delivered) + Horizon /\ Len(delivered) - n < Horizon
      /\ w <= Expected /\ Expected <= w + WindowSize
      /\ windowStart = Sequence(w) /\ nextRecvPacketSequence = Sequence(Expected)
  <2>1. sent \in Nat /\ Len(delivered) \in Nat /\ sent <= Len(delivered) + Horizon
    BY DEF OrderInv, Types
  <2>2. n <= sent /\ connected /\ Len(delivered) - n < Horizon
    BY DEF Arrives
  <2>3. n <= Len(delivered) + Horizon
    BY <1>1, <2>1, <2>2
  <2> QED
    BY <2>1, <2>2, <2>3 DEF OrderInv, WindowAt, Expected, Current
<1>3. -HalfRange <= n - Expected /\ n - Expected < HalfRange /\ Expected \in Int
  BY <1>1, <1>2
<1>4. -HalfRange <= n - w /\ n - w < HalfRange
  BY <1>1, <1>2
<1>5. SeqDiff(Sequence(n), Sequence(Expected)) = n - Expected
  BY <1>3, SeqDiffIsTrue
<1>6. SeqDiff(Sequence(n), Sequence(w)) = n - w
  BY <1>4, SeqDiffIsTrue
<1>7. Sequence(n) = Sequence(Expected) => n = Expected
  BY <1>3, SequenceInjective
<1> QED
  BY <1>1, <1>2, <1>5, <1>6, <1>7 DEF CanReceive

LEMMA NothingDelivered ==
    /\ <<>> \in Seq(Nat) /\ Len(<<>>) = 0
    /\ NoReply.packet = 0
BY DEF NoReply

LEMMA OrderInit == Init => OrderInv
<1> SUFFICES ASSUME Init PROVE OrderInv
  OBVIOUS
<1>1. Horizon \in Nat
  BY ModulusFacts DEF Horizon
<1>2. Types
  <2>1. connected \in BOOLEAN /\ claimed \in BOOLEAN /\ nowInReleaseThread \in BOOLEAN
    BY DEF Init
  <2> QED
    BY <2>1, NothingDelivered DEF Init, Types
<1>3. InOrderOnce /\ RepliesAreCumulative
  BY NothingDelivered DEF Init, InOrderOnce, RepliesAreCumulative
<1>4. sent <= Len(delivered) + Horizon
  BY <1>1, NothingDelivered DEF Init
<1> QED
  BY <1>2, <1>3, <1>4 DEF Init, OrderInv

\* The steps around the receive path.
LEMMA OrderSession ==
    ASSUME OrderInv,
           \/ TryConnect \/ ClientSends \/ OtherDisconnects \/ OtherMarks
           \/ InitializeSession
    PROVE  OrderInv'
<1>1. Horizon \in Nat
  BY ModulusFacts DEF Horizon
<1>2. CASE TryConnect
  <2>1. /\ delivered = <<>> /\ delivered' = <<>> /\ pc' = "idle" /\ ~claimed'
        /\ windowStart' = 1 /\ received' = {} /\ recvHoldingPackets' = {}
        /\ nextRecvPacketSequence' = 1 /\ connected' /\ sent = 0 /\ sent' = 0
        /\ UNCHANGED <<nowInReleaseThread, reply, claimed, packet, pc>>
    BY <1>2 DEF TryConnect, OrderInv, Types, Reset, workerVars
  <2>2. Sequence(1) = 1
    <3>1. SeqModulus \in Nat /\ SeqModulus >= 2
      BY ModulusFacts
    <3> QED
      BY <3>1 DEF Sequence
  <2>3. Expected' = 1
    BY <2>1 DEF Expected
  <2>4. WindowAt(1)'
    BY <2>1, <2>2, <2>3, ModulusFacts DEF WindowAt, Current
  <2> QED
    BY <1>1, <2>1, <2>2, <2>3, <2>4
       DEF OrderInv, Types, InOrderOnce, RepliesAreCumulative
<1>3. CASE ClientSends
  <2>1. /\ sent' = sent + 1 /\ sent - Len(delivered) < Horizon /\ connected
        /\ UNCHANGED <<sessionVars, ordererVars, windowVars, workerVars, reply>>
    BY <1>3 DEF ClientSends
  <2>2. Expected' = Expected /\ \A w \in Nat : WindowAt(w) => WindowAt(w)'
    BY <2>1, ModulusFacts DEF OrderInv, Types, WindowAt, Current, Expected, ordererVars, windowVars, workerVars, sessionVars
  <2> QED
    BY <1>1, <2>1, <2>2 DEF OrderInv, Types, InOrderOnce, RepliesAreCumulative,
       ordererVars, windowVars, workerVars, sessionVars
<1>4. CASE OtherDisconnects \/ OtherMarks
  <2>1. /\ claimed' /\ connected' = connected /\ connected
        /\ nowInReleaseThread' \in BOOLEAN
        /\ UNCHANGED <<sent, ordererVars, windowVars, workerVars, reply>>
    BY <1>4 DEF OtherDisconnects, OtherMarks, OrderInv, Types
  <2>2. Expected' = Expected /\ \A w \in Nat : WindowAt(w) => WindowAt(w)'
    BY <2>1 DEF WindowAt, Current, Expected, ordererVars, windowVars, workerVars
  <2> QED
    BY <2>1, <2>2 DEF OrderInv, Types, InOrderOnce, RepliesAreCumulative,
       ordererVars, windowVars, workerVars
<1>5. CASE InitializeSession
  <2>1. /\ ~connected' /\ ~claimed' /\ ~nowInReleaseThread' /\ pc' = "idle"
        /\ delivered' = <<>> /\ recvHoldingPackets' = {} /\ received' = {}
        /\ sent' = 0 /\ reply' = NoReply
        /\ connected' \in BOOLEAN /\ claimed' \in BOOLEAN /\ nowInReleaseThread' \in BOOLEAN
    BY <1>5 DEF InitializeSession, Reset
  <2>2. Types'
    BY <2>1, NothingDelivered DEF Types
  <2>3. InOrderOnce' /\ RepliesAreCumulative'
    BY <2>1, NothingDelivered DEF InOrderOnce, RepliesAreCumulative
  <2>4. (sent <= Len(delivered) + Horizon)'
    BY <1>1, <2>1, NothingDelivered
  <2> QED
    BY <2>1, <2>2, <2>3, <2>4 DEF OrderInv
<1> QED
  BY <1>2, <1>3, <1>4, <1>5

\* An acknowledgement is the packet's or none, and a session on its way out stays
\* so.
ReplyFrame(n) ==
    /\ reply' = reply \/ reply'.packet = n
    /\ connected' = connected /\ claimed' \in BOOLEAN /\ nowInReleaseThread' \in BOOLEAN
    /\ claimed => claimed'
    /\ nowInReleaseThread' => claimed' \/ nowInReleaseThread

LEMMA ReplyFacts ==
    ASSUME Types, NEW n \in Nat, NEW window, SendReplyToClient(n, window)
    PROVE  ReplyFrame(n)
<1>1. CASE UNCHANGED sessionVars /\ reply' = [packet |-> n, advertiseWindow |-> window]
  <2>1. reply'.packet = n
    BY <1>1
  <2> QED
    BY <1>1, <2>1, Zenon DEF sessionVars, Types, ReplyFrame
<1>2. CASE DoDisconnect /\ UNCHANGED reply
  <2>1. claimed' /\ claimed' \in BOOLEAN
    BY <1>2, Zenon DEF DoDisconnect
  <2>2. nowInReleaseThread' \in BOOLEAN
    BY <1>2, Zenon DEF DoDisconnect, Types
  <2> QED
    BY <1>2, <2>1, <2>2, Zenon DEF DoDisconnect, ReplyFrame
<1> QED
  BY <1>1, <1>2, Zenon DEF SendReplyToClient

\* A datagram reaches the worker.
LEMMA OrderArrival ==
    ASSUME OrderInv, NEW n \in Nat, OnRecvPacket(n)
    PROVE  OrderInv'
<1>1. /\ Arrives(n) /\ connected /\ pc = "idle" /\ n <= sent
      /\ Len(delivered) \in Nat /\ Expected = Len(delivered) + 1
      /\ WindowSize \in Nat /\ sent \in Nat /\ Horizon \in Nat
  BY ModulusFacts DEF Horizon, OnRecvPacket, OnOlderPacket, OnExpectedPacket, OnEarlyPacket, Arrives,
     OrderInv, Types, Expected
<1>2. PICK w \in Nat : WindowAt(w)
  BY <1>1 DEF OrderInv
<1>3. /\ SeqDiff(Sequence(n), nextRecvPacketSequence) = n - Expected
      /\ CanReceive(Sequence(n)) <=> w <= n /\ n < w + WindowSize
      /\ Sequence(n) = nextRecvPacketSequence <=> n = Expected
  BY <1>1, <1>2, ArrivalFacts
<1>4. CASE OnOlderPacket(n)
  <2>1. n <= Len(delivered)
    BY <1>1, <1>3, <1>4 DEF OnOlderPacket, IsOlderRecvSequence
  <2>2. /\ SendReplyToClient(n, GetAdvertiseWindow)
        /\ UNCHANGED <<sent, ordererVars, windowVars, workerVars>>
    BY <1>4 DEF OnOlderPacket
  <2>3. ReplyFrame(n)
    BY <2>2, ReplyFacts DEF OrderInv
  <2>4. /\ nextRecvPacketSequence' = nextRecvPacketSequence
        /\ recvHoldingPackets' = recvHoldingPackets
        /\ windowStart' = windowStart /\ received' = received
        /\ pc' = pc /\ packet' = packet /\ delivered' = delivered /\ sent' = sent
    BY <2>2 DEF ordererVars, windowVars, workerVars
  <2>5. Expected' = Expected /\ WindowAt(w)'
    BY <1>2, <2>3, <2>4 DEF WindowAt, Current, Expected, ReplyFrame
  <2>6. Types'
    BY <2>3, <2>4 DEF OrderInv, Types, ReplyFrame
  <2>7. InOrderOnce' /\ RepliesAreCumulative'
    BY <1>1, <2>1, <2>3, <2>4 DEF OrderInv, InOrderOnce, RepliesAreCumulative, ReplyFrame
  <2>8. nowInReleaseThread' => claimed'
    BY <2>3, Zenon DEF OrderInv, ReplyFrame
  <2>9. /\ (sent <= Len(delivered) + Horizon)' /\ connected'
        /\ (pc = "handler" => packet = Len(delivered) /\ packet > 0)'
    BY <1>1, <2>3, <2>4 DEF OrderInv, ReplyFrame
  <2> QED
    BY <1>1, <2>4, <2>5, <2>6, <2>7, <2>8, <2>9 DEF OrderInv
<1>5. CASE OnExpectedPacket(n)
  <2>1. n = Expected /\ n < w + WindowSize
    BY <1>3, <1>5 DEF OnExpectedPacket
  <2>2. /\ nextRecvPacketSequence' = (nextRecvPacketSequence + 1) % SeqModulus
        /\ delivered' = Append(delivered, n) /\ packet' = n /\ pc' = "handler"
        /\ UNCHANGED <<sent, sessionVars, recvHoldingPackets, windowVars, reply>>
    BY <1>5 DEF OnExpectedPacket, ProcessAndAdvance
  <2>3. /\ delivered' \in Seq(Nat) /\ Len(delivered') = Len(delivered) + 1
        /\ \A i \in 1 .. Len(delivered') : delivered'[i] = i
    BY <2>1, <2>2, AppendNext DEF OrderInv, Types, InOrderOnce
  <2>4. Expected' = Expected + 1 /\ nextRecvPacketSequence' = Sequence(Expected')
    <3>1. Expected' = Expected + 1 /\ nextRecvPacketSequence = Sequence(Expected)
      BY <1>1, <2>3 DEF Expected, OrderInv
    <3> QED
      BY <1>1, <2>2, <3>1, SequenceAdd
  <2>5. WindowAt(w)'
    <3>1. Current = Expected /\ Current' = Expected /\ Expected' <= w + WindowSize
      BY <1>1, <2>1, <2>2, <2>3, <2>4 DEF Current
    <3> QED
      BY <1>1, <1>2, <2>2, <3>1 DEF WindowAt, sessionVars, windowVars
  <2> QED
    BY <1>1, <2>1, <2>2, <2>3, <2>4, <2>5 DEF OrderInv, Types, InOrderOnce,
       RepliesAreCumulative, sessionVars, windowVars
<1>6. CASE OnEarlyPacket(n)
  <2>1. w <= n /\ n < w + WindowSize /\ n > Expected
    BY <1>1, <1>3, <1>6 DEF OnEarlyPacket
  <2>2. /\ recvHoldingPackets' \subseteq recvHoldingPackets \cup {n}
        /\ connected' = connected /\ claimed' \in BOOLEAN /\ nowInReleaseThread' \in BOOLEAN
        /\ claimed => claimed'
        /\ nowInReleaseThread' => claimed' \/ nowInReleaseThread
        /\ UNCHANGED <<sent, nextRecvPacketSequence, windowVars, workerVars, reply>>
    BY <1>6 DEF OnEarlyPacket, DoDisconnect, sessionVars, OrderInv, Types
  <2>3. Expected' = Expected /\ Current' = Current /\ Current = Expected
    BY <1>1, <2>2 DEF Expected, Current, workerVars
  <2>4. w <= Expected
    BY <1>1, <1>2, <2>3 DEF WindowAt
  <2>5. WindowAt(w)'
    BY <1>1, <1>2, <2>1, <2>2, <2>3, <2>4 DEF WindowAt, windowVars, workerVars
  <2> QED
    BY <1>1, <2>2, <2>3, <2>5 DEF OrderInv, Types, InOrderOnce, RepliesAreCumulative,
       windowVars, workerVars
<1> QED
  BY <1>4, <1>5, <1>6 DEF OnRecvPacket

\* A handler returns, or the worker looks for the next packet among those held.
LEMMA OrderWorker ==
    ASSUME OrderInv, Worker
    PROVE  OrderInv'
<1>1. /\ connected /\ Len(delivered) \in Nat /\ Expected = Len(delivered) + 1
      /\ Expected \in Nat /\ Horizon \in Nat
      /\ HalfRange \in Nat /\ WindowSize \in Nat \ {0} /\ 2 * WindowSize <= HalfRange
  BY ModulusFacts DEF Horizon, Worker, HandlerAccepts, HandlerFails, ProcessHoldingPacket,
     OrderInv, Types, Expected
<1>2. PICK w \in Nat : WindowAt(w)
  BY <1>1 DEF OrderInv
<1>3. CASE HandlerAccepts
  <2> DEFINE D == Len(delivered)
             flags == received \cup {SeqDiff(Sequence(packet), windowStart)}
  <2>1. /\ pc = "handler" /\ packet = D /\ D > 0 /\ Current = D
        /\ pc' = "holding" /\ packet' = 0
        /\ MarkReceived(Sequence(D)) /\ SendReplyToClient(D, WindowSize - Cardinality(received'))
        /\ recvHoldingPackets' = recvHoldingPackets \ Held(Sequence(D))
        /\ UNCHANGED <<sent, nextRecvPacketSequence, delivered>>
    BY <1>3 DEF HandlerAccepts, OrderInv, Current
  <2>2. w <= D /\ D < w + WindowSize
    BY <1>1, <1>2, <2>1 DEF WindowAt
  <2>3. SeqDiff(Sequence(D), windowStart) = D - w
    BY <1>1, <1>2, <2>2, SeqDiffIsTrue DEF WindowAt
  <2>4. CanReceive(Sequence(D)) /\ flags = received \cup {D - w}
    BY <1>1, <2>1, <2>2, <2>3 DEF CanReceive
  <2>5. PICK k \in 0 .. WindowSize :
           /\ k \notin flags /\ \A i \in 0 .. k - 1 : i \in flags
           /\ windowStart' = (windowStart + k) % SeqModulus
           /\ received' = {i \in 0 .. WindowSize - 1 : i + k \in flags}
    BY <2>1, <2>4 DEF MarkReceived
  <2>6. /\ Expected' = Expected /\ Current' = Expected
        /\ nextRecvPacketSequence' = Sequence(Expected)
    BY <1>1, <2>1 DEF Current, Expected, OrderInv
  <2>7. windowStart' = Sequence(w + k)
    BY <1>1, <1>2, <2>5, SequenceAdd DEF WindowAt
  <2>8. \A h \in recvHoldingPackets' : h \in recvHoldingPackets /\ h \in Nat
    BY <2>1 DEF OrderInv, Types
  <2>9. ReplyFrame(D)
    BY <1>1, <2>1, ReplyFacts DEF OrderInv
  <2>10. \E v \in Nat : WindowAt(v)'
    <3>1. CASE w = D /\ received = {}
      <4>1. flags = {0} /\ k = 1
        BY <1>1, <2>4, <2>5, <3>1
      <4>2. received' = {}
        BY <1>1, <2>5, <4>1
      <4>3. \A h \in recvHoldingPackets' : D + 1 <= h /\ h < D + WindowSize /\ h <= sent
        BY <1>1, <1>2, <2>1, <2>8, <3>1 DEF WindowAt
      <4>4. windowStart' = Sequence(D + 1) /\ D + 1 = Expected
        BY <1>1, <2>7, <3>1, <4>1
      <4>5. ASSUME NEW v \in Nat, v = Expected
            PROVE  WindowAt(v)'
        <5>1. windowStart' = Sequence(v)
          BY <4>4, <4>5
        <5>2. Expected' <= v + WindowSize /\ v = Current' /\ received' = {}
          BY <1>1, <2>6, <4>2, <4>5
        <5>3. \A h \in recvHoldingPackets' :
                /\ v <= h /\ h < v + WindowSize /\ h <= sent'
                /\ h = v => pc' = "holding" /\ v = Expected'
          BY <1>1, <2>1, <2>6, <2>8, <4>3, <4>5
        <5> QED
          BY <5>1, <5>2, <5>3 DEF WindowAt
      <4> QED
        BY <1>1, <4>5
    <3>2. CASE w < D /\ 0 \notin received /\ claimed
      <4>1. 0 \notin flags /\ k = 0
        BY <1>1, <2>4, <2>5, <3>2
      <4>2. 0 \notin received' /\ claimed' /\ windowStart' = Sequence(w)
        BY <1>1, <2>5, <2>7, <2>9, <3>2, <4>1 DEF ReplyFrame
      <4>3. \A h \in recvHoldingPackets' : w < h /\ h < w + WindowSize /\ h <= sent
        BY <1>1, <1>2, <2>1, <2>8 DEF WindowAt
      <4>4. WindowAt(w)'
        BY <1>1, <1>2, <2>1, <2>6, <3>2, <4>2, <4>3 DEF WindowAt
      <4> QED
        BY <4>4
    <3> QED
      BY <1>2, <2>1, <3>1, <3>2 DEF WindowAt
  <2>11. received' \subseteq 0 .. WindowSize - 1 /\ recvHoldingPackets' \subseteq Nat
    BY <2>5, <2>8
  <2>12. Types'
    BY <1>1, <2>1, <2>11, <2>9 DEF OrderInv, Types, ReplyFrame
  <2>13. InOrderOnce' /\ RepliesAreCumulative'
    BY <1>1, <2>1, <2>9 DEF OrderInv, InOrderOnce, RepliesAreCumulative, ReplyFrame
  <2>14. nowInReleaseThread' => claimed'
    BY <2>9, Zenon DEF OrderInv, ReplyFrame
  <2>15. (sent <= Len(delivered) + Horizon)' /\ connected'
    BY <1>1, <2>1, <2>9 DEF OrderInv, ReplyFrame
  <2> QED
    BY <1>1, <2>1, <2>6, <2>10, <2>12, <2>13, <2>14, <2>15 DEF OrderInv
<1>4. CASE HandlerFails
  <2>1. /\ pc = "handler" /\ Current = Len(delivered)
        /\ pc' = "idle" /\ packet' = 0 /\ claimed' = TRUE /\ connected' = connected
        /\ nowInReleaseThread' \in BOOLEAN
        /\ UNCHANGED <<sent, ordererVars, windowVars, delivered, reply>>
    BY <1>4 DEF HandlerFails, DoDisconnect, Current, OrderInv, Types
  <2>2. Expected' = Expected /\ Current' = Expected
    BY <2>1 DEF Expected, Current
  <2>3. WindowAt(w)'
    BY <1>1, <1>2, <2>1, <2>2 DEF WindowAt, ordererVars, windowVars
  <2> QED
    BY <1>1, <2>1, <2>2, <2>3
       DEF OrderInv, Types, InOrderOnce, RepliesAreCumulative, ordererVars, windowVars
<1>5. CASE ProcessHoldingPacket
  <2>1. /\ pc = "holding" /\ Current = Expected
        /\ UNCHANGED <<sent, sessionVars, windowVars, reply>>
    BY <1>5 DEF ProcessHoldingPacket, Current
  <2>2. w <= Expected
    BY <1>1, <1>2, <2>1 DEF WindowAt
  <2>3. \A h \in Held(nextRecvPacketSequence) : h = Expected
    <3> SUFFICES ASSUME NEW h \in recvHoldingPackets, Sequence(h) = nextRecvPacketSequence
                 PROVE  h = Expected
      BY DEF Held
    <3>1. /\ h \in Nat /\ Sequence(h) = Sequence(Expected)
          /\ w <= h /\ h < w + WindowSize /\ Expected <= w + WindowSize
      BY <1>1, <1>2 DEF OrderInv, Types, WindowAt
    <3>2. -HalfRange <= h - Expected /\ h - Expected < HalfRange
      BY <1>1, <2>2, <3>1
    <3> QED
      BY <1>1, <3>1, <3>2, SequenceInjective
  <2>4. CASE /\ Held(nextRecvPacketSequence) = {}
             /\ pc' = "idle" /\ UNCHANGED <<ordererVars, packet, delivered>>
    <3>1. Expected' = Expected /\ Current' = Expected
      BY <2>4 DEF Expected, Current
    <3>2. Expected \notin recvHoldingPackets
      BY <1>1, <2>4 DEF Held, OrderInv
    <3>3. WindowAt(w)'
      BY <1>1, <1>2, <2>1, <2>4, <3>1, <3>2
         DEF WindowAt, sessionVars, ordererVars, windowVars
    <3> QED
      BY <1>1, <2>1, <2>4, <3>1, <3>3
         DEF OrderInv, Types, InOrderOnce, RepliesAreCumulative,
             sessionVars, ordererVars, windowVars
  <2>5. ASSUME NEW h \in Held(nextRecvPacketSequence),
               recvHoldingPackets' = recvHoldingPackets \ {h}, ProcessAndAdvance(h)
        PROVE  OrderInv'
    <3>1. /\ h = Expected /\ h \in recvHoldingPackets /\ h < w + WindowSize /\ h <= sent
      BY <1>2, <2>3, <2>5 DEF Held, WindowAt
    <3>2. /\ nextRecvPacketSequence' = (nextRecvPacketSequence + 1) % SeqModulus
          /\ delivered' = Append(delivered, h) /\ packet' = h /\ pc' = "handler"
      BY <2>5 DEF ProcessAndAdvance
    <3>3. /\ delivered' \in Seq(Nat) /\ Len(delivered') = Len(delivered) + 1
          /\ \A i \in 1 .. Len(delivered') : delivered'[i] = i
      BY <1>1, <3>1, <3>2, AppendNext DEF OrderInv, Types, InOrderOnce
    <3>4. Expected' = Expected + 1 /\ Current' = Expected
      BY <1>1, <3>2, <3>3 DEF Expected, Current
    <3>5. nextRecvPacketSequence' = Sequence(Expected')
      <4>1. nextRecvPacketSequence = Sequence(Expected)
        BY <1>1 DEF OrderInv
      <4> QED
        BY <1>1, <3>2, <3>4, <4>1, SequenceAdd
    <3>6. \A x \in recvHoldingPackets' : x \in recvHoldingPackets /\ x \in Nat /\ x /= Expected
      BY <2>5, <3>1 DEF OrderInv, Types
    <3>7. WindowAt(w)'
      BY <1>1, <1>2, <2>1, <3>1, <3>2, <3>4, <3>6 DEF WindowAt, sessionVars, windowVars
    <3>8. Types'
      BY <2>1, <3>2, <3>3, <3>6 DEF OrderInv, Types, sessionVars, windowVars
    <3>9. Len(delivered') <= sent
      BY <1>1, <3>1, <3>3 DEF OrderInv
    <3> QED
      BY <1>1, <2>1, <3>1, <3>2, <3>3, <3>4, <3>5, <3>7, <3>8, <3>9
         DEF OrderInv, Types, InOrderOnce, RepliesAreCumulative, sessionVars
  <2> QED
    BY <1>5, <2>4, <2>5 DEF ProcessHoldingPacket
<1> QED
  BY <1>3, <1>4, <1>5 DEF Worker

\* OrderInv holds of every behaviour.
LEMMA OrderInvariant == Spec => []OrderInv
<1>1. OrderInv /\ [Next]_vars => OrderInv'
  <2> SUFFICES ASSUME OrderInv, [Next]_vars PROVE OrderInv'
    OBVIOUS
  <2>1. CASE UNCHANGED vars
    <3>1. UNCHANGED <<sent, connected, claimed, nowInReleaseThread, nextRecvPacketSequence,
                      recvHoldingPackets, windowStart, received, pc, packet, delivered, reply>>
      BY <2>1 DEF vars, sessionVars, ordererVars, windowVars, workerVars
    <3>2. \A w \in Nat : WindowAt(w) => WindowAt(w)'
      BY <3>1 DEF WindowAt, Current, Expected
    <3> QED
      BY <3>1, <3>2 DEF OrderInv, Types, InOrderOnce, RepliesAreCumulative, Expected
  <2>2. ASSUME NEW n \in 1 .. MaxSent, OnRecvPacket(n)
        PROVE  OrderInv'
    BY <2>2, OrderArrival, MaxSentAssumption
  <2> QED
    BY <2>1, <2>2, OrderSession, OrderWorker DEF Next
<1> QED
  BY <1>1, OrderInit, PTL DEF Spec

-----------------------------------------------------------------------------
\* InOrderOnce: the handler gets what the client sent, in order, each packet once,
\* whatever the network loses, repeats and reorders, and across the wrap.
THEOREM Ordered == Spec => []InOrderOnce
<1>1. OrderInv => InOrderOnce
  BY DEF OrderInv
<1> QED
  BY <1>1, OrderInvariant, PTL

\* RepliesAreCumulative: an acknowledgement covers all the packets before it.
THEOREM Cumulative == Spec => []RepliesAreCumulative
<1>1. OrderInv => RepliesAreCumulative
  BY DEF OrderInv
<1> QED
  BY <1>1, OrderInvariant, PTL

\* WindowFollowsOrderer: until a disconnect the two halves of the receive path
\* agree on the next packet.
THEOREM WindowAligned == Spec => []WindowFollowsOrderer
<1>1. OrderInv => WindowFollowsOrderer
  BY DEF OrderInv, WindowAt, Current, WindowFollowsOrderer
<1> QED
  BY <1>1, OrderInvariant, PTL

\* HeldIsAhead: nothing deliverable stays held.
THEOREM HeldAhead == Spec => []HeldIsAhead
<1>1. ASSUME OrderInv PROVE HeldIsAhead
  <2> SUFFICES ASSUME pc = "idle", ~claimed, NEW h \in recvHoldingPackets
               PROVE  Len(delivered) + 1 < h /\ h <= Len(delivered) + WindowSize
    BY DEF HeldIsAhead
  <2>1. h \in Nat /\ Len(delivered) \in Nat /\ connected /\ WindowSize \in Nat
    BY <1>1, ModulusFacts DEF OrderInv, Types
  <2>2. PICK w \in Nat : WindowAt(w)
    BY <1>1, <2>1 DEF OrderInv
  <2>3. w = Len(delivered) + 1 /\ w <= h /\ h /= w /\ h < w + WindowSize
    BY <2>2 DEF WindowAt, Current, Expected
  <2> QED
    BY <2>1, <2>3
<1> QED
  BY <1>1, OrderInvariant, PTL

\* HoldingNeverFull: the holding queue's limit is never reached, so no session is
\* disconnected for it; the receive window, of the same size, refuses first.
THEOREM HoldingBounded == Spec => []HoldingNeverFull
<1>1. ASSUME OrderInv PROVE HoldingNeverFull
  <2> SUFFICES ASSUME pc = "idle"
               PROVE  Cardinality(recvHoldingPackets) < WindowSize
    BY DEF HoldingNeverFull
  <2>1. CASE ~connected
    BY <1>1, <2>1, FS_EmptySet, ModulusFacts DEF OrderInv
  <2>2. CASE connected
    <3>1. PICK w \in Nat : WindowAt(w)
      BY <1>1, <2>2 DEF OrderInv
    <3>2. recvHoldingPackets \subseteq (w + 1) .. (w + WindowSize - 1)
      BY <1>1, <3>1, ModulusFacts DEF OrderInv, Types, WindowAt
    <3>3. /\ IsFiniteSet((w + 1) .. (w + WindowSize - 1))
          /\ Cardinality((w + 1) .. (w + WindowSize - 1)) = WindowSize - 1
      BY FS_Interval, ModulusFacts
    <3>4. /\ IsFiniteSet(recvHoldingPackets)
          /\ Cardinality(recvHoldingPackets) <= WindowSize - 1
      BY <3>2, <3>3, FS_Subset
    <3> QED
      BY <3>4, FS_CardinalityType, ModulusFacts
  <2> QED
    BY <2>1, <2>2
<1> QED
  BY <1>1, OrderInvariant, PTL

-----------------------------------------------------------------------------
(* Types: what is advertised fits the window, and no sequence leaves the   *)
(* sequence space.                                                         *)

\* The room the window has for a set of its flags.
LEMMA RoomInWindow ==
    ASSUME NEW flags \in SUBSET (0 .. WindowSize - 1)
    PROVE  WindowSize - Cardinality(flags) \in 0 .. WindowSize
<1>1. /\ IsFiniteSet(0 .. WindowSize - 1)
      /\ Cardinality(0 .. WindowSize - 1) = WindowSize
  BY FS_Interval, ModulusFacts
<1>2. IsFiniteSet(flags) /\ Cardinality(flags) <= WindowSize
  BY <1>1, FS_Subset
<1>3. Cardinality(flags) \in Nat
  BY <1>2, FS_CardinalityType
<1> QED
  BY <1>2, <1>3, ModulusFacts

LEMMA InSequenceSpace ==
    ASSUME NEW n \in Int
    PROVE  n % SeqModulus \in 0 .. SeqModulus - 1
BY ModulusFacts, Division

LEMMA ReplyTypes ==
    ASSUME TypeOK, NEW n \in 0 .. MaxSent, NEW room \in 0 .. WindowSize,
           SendReplyToClient(n, room)
    PROVE  /\ connected' \in BOOLEAN /\ claimed' \in BOOLEAN /\ nowInReleaseThread' \in BOOLEAN
           /\ reply' \in [packet : 0 .. MaxSent, advertiseWindow : 0 .. WindowSize]
<1>1. CASE /\ reply' = [packet |-> n, advertiseWindow |-> room]
           /\ UNCHANGED sessionVars
  BY <1>1 DEF sessionVars, TypeOK
<1>2. CASE DoDisconnect /\ UNCHANGED reply
  BY <1>2 DEF DoDisconnect, TypeOK
<1> QED
  BY <1>1, <1>2 DEF SendReplyToClient

LEMMA MarkTypes ==
    ASSUME TypeOK, NEW n, MarkReceived(n)
    PROVE  windowStart' \in 0 .. SeqModulus - 1 /\ received' \in SUBSET (0 .. WindowSize - 1)
<1>1. CASE UNCHANGED windowVars
  BY <1>1 DEF windowVars, TypeOK
<1>2. CASE /\ CanReceive(n)
           /\ \E k \in 0 .. WindowSize :
                /\ windowStart' = (windowStart + k) % SeqModulus
                /\ received' \subseteq 0 .. WindowSize - 1
  <2>1. PICK k \in 0 .. WindowSize : windowStart' = (windowStart + k) % SeqModulus
    BY <1>2
  <2>2. windowStart + k \in Int
    BY ModulusFacts DEF TypeOK
  <2> QED
    BY <1>2, <2>1, <2>2, InSequenceSpace
<1> QED
  BY <1>1, <1>2, Zenon DEF MarkReceived

LEMMA TypeStep ==
    ASSUME TypeOK, [Next]_vars
    PROVE  TypeOK'
<1> USE MaxSentAssumption
<1>0. /\ 0 \in 0 .. SeqModulus - 1 /\ 1 \in 0 .. SeqModulus - 1
      /\ NoReply \in [packet : 0 .. MaxSent, advertiseWindow : 0 .. WindowSize]
      /\ <<>> \in Seq(1 .. MaxSent) /\ 0 \in 0 .. MaxSent
  BY ModulusFacts DEF NoReply
<1>1. CASE TryConnect
  BY <1>0, <1>1 DEF TryConnect, Reset, workerVars, TypeOK
<1>2. CASE ClientSends
  BY <1>2 DEF ClientSends, sessionVars, ordererVars, windowVars, workerVars, TypeOK
<1>3. CASE OtherDisconnects \/ OtherMarks
  BY <1>3 DEF OtherDisconnects, OtherMarks, ordererVars, windowVars, workerVars, TypeOK
<1>4. CASE InitializeSession
  BY <1>0, <1>4 DEF InitializeSession, Reset, TypeOK
<1>5. ASSUME NEW n \in 1 .. MaxSent, NEW m, m = nextRecvPacketSequence, ProcessAndAdvance(n)
      PROVE  /\ nextRecvPacketSequence' \in 0 .. SeqModulus - 1
             /\ delivered' \in Seq(1 .. MaxSent) /\ packet' \in 0 .. MaxSent /\ pc' = "handler"
  <2>1. nextRecvPacketSequence + 1 \in Int
    BY ModulusFacts DEF TypeOK
  <2> QED
    BY <1>5, <2>1, InSequenceSpace DEF ProcessAndAdvance, TypeOK
<1>6. ASSUME NEW n \in 1 .. MaxSent, OnRecvPacket(n) PROVE TypeOK'
  <2>1. CASE OnOlderPacket(n)
    <3>1. GetAdvertiseWindow \in 0 .. WindowSize
      BY RoomInWindow DEF GetAdvertiseWindow, TypeOK
    <3> QED
      BY <2>1, <3>1, ReplyTypes DEF OnOlderPacket, ordererVars, windowVars, workerVars, TypeOK
  <2>2. CASE OnExpectedPacket(n)
    BY <1>5, <2>2 DEF OnExpectedPacket, sessionVars, windowVars, TypeOK
  <2>3. CASE OnEarlyPacket(n)
    BY <2>3 DEF OnEarlyPacket, DoDisconnect, sessionVars, windowVars, workerVars, TypeOK
  <2> QED
    BY <1>6, <2>1, <2>2, <2>3 DEF OnRecvPacket
<1>7. CASE HandlerAccepts
  <2>1. windowStart' \in 0 .. SeqModulus - 1 /\ received' \in SUBSET (0 .. WindowSize - 1)
    BY <1>7, MarkTypes DEF HandlerAccepts
  <2>2. WindowSize - Cardinality(received') \in 0 .. WindowSize /\ packet \in 0 .. MaxSent
    BY <2>1, RoomInWindow DEF TypeOK
  <2>3. /\ connected' \in BOOLEAN /\ claimed' \in BOOLEAN /\ nowInReleaseThread' \in BOOLEAN
        /\ reply' \in [packet : 0 .. MaxSent, advertiseWindow : 0 .. WindowSize]
    BY <1>7, <2>2, ReplyTypes DEF HandlerAccepts
  <2> QED
    BY <1>0, <1>7, <2>1, <2>3 DEF HandlerAccepts, TypeOK
<1>8. CASE HandlerFails
  BY <1>0, <1>8 DEF HandlerFails, DoDisconnect, ordererVars, windowVars, TypeOK
<1>9. CASE ProcessHoldingPacket
  <2>1. CASE \E h \in Held(nextRecvPacketSequence) :
                /\ recvHoldingPackets' = recvHoldingPackets \ {h}
                /\ ProcessAndAdvance(h)
    <3>1. PICK h \in Held(nextRecvPacketSequence) :
             recvHoldingPackets' = recvHoldingPackets \ {h} /\ ProcessAndAdvance(h)
      BY <2>1
    <3>2. h \in 1 .. MaxSent
      BY <3>1 DEF Held, TypeOK
    <3> QED
      BY <1>5, <1>9, <3>1, <3>2 DEF ProcessHoldingPacket, sessionVars, windowVars, TypeOK
  <2>2. CASE pc' = "idle" /\ UNCHANGED <<ordererVars, packet, delivered>>
    BY <1>9, <2>2 DEF ProcessHoldingPacket, sessionVars, ordererVars, windowVars, TypeOK
  <2> QED
    BY <1>9, <2>1, <2>2 DEF ProcessHoldingPacket
<1>10. CASE UNCHANGED vars
  BY <1>10 DEF vars, sessionVars, ordererVars, windowVars, workerVars, TypeOK
<1> QED
  BY <1>1, <1>2, <1>3, <1>4, <1>6, <1>7, <1>8, <1>9, <1>10 DEF Next, Worker

\* TypeOK: in particular the window advertised to the client is never negative and never
\* larger than the receive window.
THEOREM TypeCorrect == Spec => []TypeOK
<1>1. /\ 0 \in 0 .. SeqModulus - 1 /\ <<>> \in Seq(1 .. MaxSent) /\ 0 \in 0 .. MaxSent
      /\ NoReply \in [packet : 0 .. MaxSent, advertiseWindow : 0 .. WindowSize]
  BY ModulusFacts, MaxSentAssumption DEF NoReply
<1>2. Init => TypeOK
  BY <1>1 DEF Init, TypeOK
<1> QED
  BY <1>2, TypeStep, PTL DEF Spec
=============================================================================
