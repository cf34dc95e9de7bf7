------------------------- MODULE Retransmission_proofs ------------------------
(***************************************************************************)
(* For any number of infos, generations and retransmissions: the count of  *)
(* every SendPacketInfo is the number of its holders, a packet is in one   *)
(* place from which it can go out, what is sampled went out once, nothing  *)
(* goes to the client of another generation, and the retransmission thread *)
(* never waits past a deadline.                                            *)
(***************************************************************************)
EXTENDS Retransmission, Integers, SequenceTheorems, FiniteSetTheorems, WellFoundedInduction, TLAPS

-----------------------------------------------------------------------------
(* Counting.                                                               *)

One(condition) == IF condition THEN 1 ELSE 0

\* How often an info occurs in a sequence is a number, and 0 if it does not.
LEMMA OccurrencesAre ==
    ASSUME NEW S, NEW s \in Seq(S), NEW i
    PROVE  /\ IsFiniteSet({k \in DOMAIN s : s[k] = i})
           /\ Occurrences(s, i) \in Nat
           /\ Occurrences(s, i) = 0 <=> \A k \in DOMAIN s : s[k] # i
<1> DEFINE at == {k \in DOMAIN s : s[k] = i}
<1>1. DOMAIN s = 1 .. Len(s) /\ Len(s) \in Int /\ 1 \in Int
  OBVIOUS
<1>2. IsFiniteSet(DOMAIN s)
  BY <1>1, FS_Interval
<1>3. IsFiniteSet(at)
  BY <1>2, FS_Subset, at \subseteq DOMAIN s
<1>4. Cardinality(at) \in Nat /\ (Cardinality(at) = 0 <=> at = {})
  BY <1>3, FS_CardinalityType, FS_EmptySet
<1> QED
  BY <1>3, <1>4 DEF Occurrences

LEMMA OccurrencesEmpty == ASSUME NEW i PROVE Occurrences(<<>>, i) = 0
<1>1. {k \in DOMAIN <<>> : <<>>[k] = i} = {}
  OBVIOUS
<1> QED
  BY <1>1, FS_EmptySet DEF Occurrences

LEMMA OccurrencesAppend ==
    ASSUME NEW S, NEW s \in Seq(S), NEW x \in S, NEW i
    PROVE  Occurrences(Append(s, x), i) = Occurrences(s, i) + One(x = i)
<1> DEFINE at == {k \in DOMAIN s : s[k] = i}
           last == Len(s) + 1
<1>1. /\ DOMAIN Append(s, x) = DOMAIN s \cup {last} /\ last \notin DOMAIN s
      /\ Append(s, x)[last] = x
      /\ \A k \in DOMAIN s : Append(s, x)[k] = s[k]
  OBVIOUS
<1>2. {k \in DOMAIN Append(s, x) : Append(s, x)[k] = i} = IF x = i THEN at \cup {last} ELSE at
  BY <1>1
<1>3. IsFiniteSet(at) /\ last \notin at
  BY <1>1, OccurrencesAre
<1>4. Cardinality(at \cup {last}) = Cardinality(at) + 1
  BY <1>3, FS_AddElement
<1>5. Cardinality(at) \in Nat
  BY <1>3, FS_CardinalityType
<1>6. Occurrences(s, i) = Cardinality(at)
  BY DEF Occurrences
<1>7. Occurrences(Append(s, x), i) = Cardinality(IF x = i THEN at \cup {last} ELSE at)
  BY <1>2 DEF Occurrences
<1> HIDE DEF at, last
<1> QED
  BY <1>4, <1>5, <1>6, <1>7 DEF One

LEMMA OccurrencesTail ==
    ASSUME NEW S, NEW s \in Seq(S), s # <<>>, NEW i
    PROVE  Occurrences(s, i) = Occurrences(Tail(s), i) + One(Head(s) = i)
<1> DEFINE at == {k \in DOMAIN Tail(s) : Tail(s)[k] = i}
           later == {k \in DOMAIN s : k # 1 /\ s[k] = i}
           move == [k \in at |-> k + 1]
<1>1. /\ Tail(s) \in Seq(S) /\ Head(s) = s[1]
      /\ DOMAIN s = 1 .. Len(s) /\ Len(s) \in Nat /\ Len(s) >= 1
      /\ DOMAIN Tail(s) = 1 .. Len(s) - 1
      /\ \A k \in DOMAIN Tail(s) : Tail(s)[k] = s[k + 1]
  OBVIOUS
<1>2. IsFiniteSet(at)
  BY <1>1, OccurrencesAre
<1>3. move \in [at -> later]
  BY <1>1
<1>4. \A a, b \in at : move[a] = move[b] => a = b
  BY <1>1
<1>5. \A l \in later : \E a \in at : move[a] = l
  <2> TAKE l \in later
  <2>1. l - 1 \in at /\ move[l - 1] = l
    BY <1>1
  <2> QED
    BY <2>1
<1>6. move \in Bijection(at, later)
  <2> HIDE DEF at, later, move
  <2>1. DOMAIN move = at
    BY <1>3
  <2>2. move \in Injection(at, later)
    BY <1>3, <1>4, <2>1 DEF Injection, IsInjective
  <2>3. move \in Surjection(at, later)
    BY <1>3, <1>5 DEF Surjection
  <2> QED
    BY <2>2, <2>3 DEF Bijection
<1>7. IsFiniteSet(later) /\ Cardinality(later) = Cardinality(at)
  <2> HIDE DEF at, later, move
  <2>1. ExistsBijection(at, later)
    BY <1>6 DEF ExistsBijection
  <2> QED
    BY <1>2, <2>1, FS_Bijection
<1>8. {k \in DOMAIN s : s[k] = i} = IF Head(s) = i THEN later \cup {1} ELSE later
  BY <1>1
<1>9. Cardinality(later \cup {1}) = Cardinality(later) + 1 /\ Cardinality(later) \in Nat
  BY <1>7, FS_AddElement, FS_CardinalityType
<1>10. Occurrences(s, i) = Cardinality(IF Head(s) = i THEN later \cup {1} ELSE later)
  BY <1>8 DEF Occurrences
<1>11. Occurrences(Tail(s), i) = Cardinality(at)
  BY DEF Occurrences
<1> HIDE DEF at, later, move
<1> QED
  BY <1>7, <1>9, <1>10, <1>11 DEF One

\* How many entries of a heap are an info's.
Entries(h, i) == Cardinality({e \in h : e.info = i})

LEMMA EntriesAre ==
    ASSUME NEW h, IsFiniteSet(h), NEW i
    PROVE  /\ IsFiniteSet({e \in h : e.info = i})
           /\ Entries(h, i) \in Nat
           /\ Entries(h, i) = 0 <=> \A e \in h : e.info # i
<1> DEFINE his == {e \in h : e.info = i}
<1>1. IsFiniteSet(his)
  BY FS_Subset, his \subseteq h
<1>2. Cardinality(his) \in Nat /\ (Cardinality(his) = 0 <=> his = {})
  BY <1>1, FS_CardinalityType, FS_EmptySet
<1> QED
  BY <1>1, <1>2 DEF Entries

LEMMA EntriesAdd ==
    ASSUME NEW h, IsFiniteSet(h), NEW e, e \notin h, NEW i
    PROVE  /\ IsFiniteSet(h \cup {e})
           /\ Entries(h \cup {e}, i) = Entries(h, i) + One(e.info = i)
<1> DEFINE his == {x \in h : x.info = i}
<1>1. {x \in h \cup {e} : x.info = i} = IF e.info = i THEN his \cup {e} ELSE his
  OBVIOUS
<1>2. IsFiniteSet(his) /\ Cardinality(his) \in Nat /\ e \notin his
  BY EntriesAre DEF Entries
<1>3. Cardinality(his \cup {e}) = Cardinality(his) + 1
  BY <1>2, FS_AddElement
<1>4. Entries(h, i) = Cardinality(his)
  BY DEF Entries
<1>5. Entries(h \cup {e}, i) = Cardinality(IF e.info = i THEN his \cup {e} ELSE his)
  BY <1>1 DEF Entries
<1>6. IsFiniteSet(h \cup {e})
  BY FS_AddElement
<1> HIDE DEF his
<1> QED
  BY <1>2, <1>3, <1>4, <1>5, <1>6 DEF One

\* What is taken out of a heap and what stays.
LEMMA EntriesSplit ==
    ASSUME NEW h, IsFiniteSet(h), NEW out \in SUBSET h, NEW i
    PROVE  /\ IsFiniteSet(h \ out) /\ IsFiniteSet(out)
           /\ Entries(h, i) = Entries(h \ out, i) + Entries(out, i)
           /\ Entries(h \ out, i) \in Nat /\ Entries(out, i) \in Nat
<1> DEFINE his == {e \in h : e.info = i}
           gone == {e \in out : e.info = i}
           kept == {e \in h \ out : e.info = i}
<1>1. IsFiniteSet(h \ out) /\ IsFiniteSet(out)
  BY FS_Subset, FS_Difference
<1>2. IsFiniteSet(gone) /\ IsFiniteSet(kept)
  BY <1>1, EntriesAre
<1>3. his = kept \cup gone /\ kept \cap gone = {}
  OBVIOUS
<1>4. Cardinality(his) = Cardinality(kept) + Cardinality(gone) - Cardinality({})
  BY <1>2, <1>3, FS_Union
<1>5. Cardinality(kept) \in Nat /\ Cardinality(gone) \in Nat /\ Cardinality({}) = 0
  BY <1>2, FS_CardinalityType, FS_EmptySet
<1> QED
  BY <1>1, <1>4, <1>5 DEF Entries

\* The sequence of the infos of a set of entries holds each as often as the set.
LEMMA Enumerated ==
    ASSUME NEW h, IsFiniteSet(h), NEW S, \A e \in h : e.info \in S
    PROVE  LET seq == [k \in 1 .. Cardinality(h) |-> SetToSeq(h)[k].info] IN
           /\ seq \in Seq(S)
           /\ \A i : Occurrences(seq, i) = Entries(h, i)
           /\ seq = <<>> <=> h = {}
<1> DEFINE n == Cardinality(h)
           f == SetToSeq(h)
           seq == [k \in 1 .. n |-> f[k].info]
<1>1. n \in Nat /\ ExistsBijection(1 .. n, h)
  BY FS_CardinalityType
<1>2. PICK g : g \in Bijection(1 .. n, h)
  BY <1>1 DEF ExistsBijection
<1>3. g \in [1 .. n -> h] /\ IsInjective(g)
  BY <1>2 DEF Bijection, Injection, IsInjective
<1>4. f \in [1 .. n -> h] /\ IsInjective(f)
  BY <1>3 DEF SetToSeq
<1>5. f \in Injection(1 .. n, h)
  BY <1>4 DEF Injection, IsInjective
<1>6. IsFiniteSet(1 .. n) /\ Cardinality(1 .. n) = n
  BY <1>1, FS_Interval
<1>7. f \in Surjection(1 .. n, h)
  BY <1>5, <1>6, FS_Injection
<1>8. \A e \in h : \E k \in 1 .. n : f[k] = e
  BY <1>7 DEF Surjection
<1>9. seq \in Seq(S) /\ DOMAIN seq = 1 .. n
  <2>1. seq \in [1 .. n -> S]
    BY <1>4
  <2> QED
    BY <2>1, <1>1
<1>10. ASSUME NEW i PROVE Occurrences(seq, i) = Entries(h, i)
  <2> DEFINE at == {k \in DOMAIN seq : seq[k] = i}
             his == {e \in h : e.info = i}
             name == [k \in at |-> f[k]]
  <2>1. name \in [at -> his]
    BY <1>4, <1>9
  <2>2. \A a, b \in at : name[a] = name[b] => a = b
    BY <1>4, <1>9 DEF IsInjective
  <2>3. \A e \in his : \E k \in at : name[k] = e
    <3> TAKE e \in his
    <3>1. PICK k \in 1 .. n : f[k] = e
      BY <1>8
    <3>2. k \in at
      BY <3>1, <1>9
    <3> QED
      BY <3>1, <3>2
  <2>4. name \in Bijection(at, his)
    BY <2>1, <2>2, <2>3 DEF Bijection, Injection, Surjection, IsInjective
  <2>5. IsFiniteSet(at)
    BY <1>9, OccurrencesAre
  <2>6. Cardinality(his) = Cardinality(at)
    BY <2>4, <2>5, FS_Bijection DEF ExistsBijection
  <2> QED
    BY <2>6 DEF Occurrences, Entries
<1>11. seq = <<>> <=> h = {}
  <2>1. n = 0 <=> h = {}
    BY FS_EmptySet
  <2>2. Len(seq) = n
    BY <1>1, <1>9
  <2> QED
    BY <2>1, <2>2, <1>9, <1>1
<1> QED
  BY <1>9, <1>10, <1>11

\* A set of numbers that is not empty has a least one, which Min is.
LEMMA MinIs ==
    ASSUME NEW T \in SUBSET Nat, T # {}
    PROVE  Min(T) \in T /\ \A u \in T : Min(T) <= u
<1> DEFINE less == {p \in Nat \X Nat : p[1] < p[2]}
<1>1. IsWellFoundedOn(less, Nat)
  BY NatLessThanWellFounded DEF OpToRel
<1>2. PICK t \in T : \A u \in T : <<u, t>> \notin less
  BY <1>1, WFMin
<1>3. \A u \in T : t <= u
  <2> TAKE u \in T
  <2>1. u \in Nat /\ t \in Nat /\ ~(u < t)
    BY <1>2
  <2> QED
    BY <2>1
<1> QED
  BY <1>3 DEF Min

\* The threads that hold an info.
Holding(a, b, c, i) ==
    {t \in {"sender", "io", "worker"} :
        CASE t = "sender" -> a = i
          [] t = "io" -> b = i
          [] t = "worker" -> c = i}

LEMMA ThreeHolders ==
    ASSUME NEW a, NEW b, NEW c, NEW i
    PROVE  Cardinality(Holding(a, b, c, i)) = One(a = i) + One(b = i) + One(c = i)
<1> DEFINE A == IF a = i THEN {"sender"} ELSE {}
           B == IF b = i THEN A \cup {"io"} ELSE A
           C == IF c = i THEN B \cup {"worker"} ELSE B
<1>1. Holding(a, b, c, i) = C
  BY DEF Holding
<1>2. IsFiniteSet(A) /\ Cardinality(A) = One(a = i) /\ "io" \notin A
  BY FS_EmptySet, FS_Singleton DEF One
<1>3. IsFiniteSet(B) /\ Cardinality(B) = One(a = i) + One(b = i) /\ "worker" \notin B
  <2>1. IsFiniteSet(A \cup {"io"}) /\ Cardinality(A \cup {"io"}) = Cardinality(A) + 1
    BY <1>2, FS_AddElement
  <2> QED
    BY <2>1, <1>2 DEF One
<1>4. Cardinality(C) = One(a = i) + One(b = i) + One(c = i)
  <2>1. Cardinality(B \cup {"worker"}) = Cardinality(B) + 1
    BY <1>3, FS_AddElement
  <2> QED
    BY <2>1, <1>3 DEF One
<1> QED
  BY <1>1, <1>4

-----------------------------------------------------------------------------
(* The invariant.                                                          *)

SenderPcs == {"idle", "send", "pushed", "failed", "erase"}
IoPcs == {"idle", "taken", "push", "signal", "copy"}
WorkerPcs == {"idle", "mark", "sample"}
RtPcs == {"scan", "wait", "process", "limit", "disconnect", "resend", "push", "pushed"}

\* Replies are never retransmitted.
Kept == Infos \ Replies

\* A type invariant that is inductive: that counts are not negative is for CountInv.
InfoTypes ==
    /\ allocated \in 0 .. MaxInfos /\ owner \in [Infos -> 0 .. MaxGeneration]
    /\ erased \subseteq Infos /\ canUseRttSample \subseteq Kept /\ sampled \subseteq Infos
    /\ sendPacketInfoMap \subseteq Kept

CountTypes ==
    /\ refCount \in [Infos -> Int] /\ scheduleVersion \in [Infos -> Nat]
    /\ retransmissionCount \in [Infos -> Nat] /\ lastSendTime \in [Infos -> Nat]
    /\ transmissions \in [Infos -> Nat]

SessionTypes ==
    /\ queue \in Seq(Infos) /\ generation \in 0 .. MaxGeneration
    /\ session \in {"idle", "connected", "releasing"}

HeapTypes ==
    /\ heap \subseteq [info : Kept, version : Nat, deadline : 1 .. MaxClock]
    /\ IsFiniteSet(heap)
    /\ wakeEvent \in BOOLEAN /\ clock \in 0 .. MaxClock

ThreadTypes ==
    /\ sender \in [pc : SenderPcs, info : Infos \cup {None}]
    /\ io \in [pc : IoPcs, info : Infos \cup {None}]
    /\ worker \in [pc : WorkerPcs, info : Infos \cup {None}]

RtTypes ==
    /\ rtPc \in RtPcs /\ dueList \in Seq(Kept)
    /\ armed \in 0 .. MaxClock /\ strayDisconnect \in BOOLEAN

Types == InfoTypes /\ CountTypes /\ SessionTypes /\ HeapTypes /\ ThreadTypes /\ RtTypes

\* What a thread's place says about the info it is at.
PlaceInv ==
    /\ sender.info = None <=> sender.pc = "idle"
    /\ io.info = None <=> io.pc = "idle"
    /\ worker.info = None <=> worker.pc = "idle"
    /\ dueList = <<>> <=> rtPc \in {"scan", "wait"}
    /\ io.pc \in {"push", "signal"} => io.info \notin Replies
    /\ sender.pc = "erase" => sender.info \in erased
    /\ worker.pc = "sample" => worker.info \in erased

\* Who has an info, and how often.
SenderHas(i) == One(sender.info = i)
IoHas(i) == One(io.info = i)
WorkerHas(i) == One(worker.info = i)
MapHas(i) == One(i \in sendPacketInfoMap)
QueueHas(i) == Occurrences(queue, i)
DueHas(i) == Occurrences(dueList, i)
HeapHas(i) == Entries(heap, i)

\* The count is exact, and an info that is not allocated has not been used.
Exact(i) ==
    /\ refCount[i] = Holders(i)
    /\ i > allocated => Holders(i) = 0 /\ transmissions[i] = 0

CountInv == \A i \in Infos : Exact(i)

\* An entry is of a version the info has had.
VersionInv == \A e \in heap : e.version <= scheduleVersion[e.info]

\* The places from which a packet can still go out, the sender's hand among them.
SenderGives(i) == One(sender.pc = "send" /\ sender.info = i)
IoGives(i) == One(io.pc \in {"taken", "push"} /\ io.info = i)
StillDueHas(i) == Occurrences(StillDue, i)

Single(i) == SenderGives(i) + IoGives(i) + QueueHas(i) + StillDueHas(i) + HeapHas(i) <= 1

CopyInv == \A i \in Infos : Single(i)

\* A packet that may give a sample has gone out at most once, counting the transmission
\* it is on its way to, and is not being sent again.
OnceOut(i) ==
    i \in canUseRttSample =>
        transmissions[i] + SenderGives(i) + IoHas(i) + QueueHas(i) <= 1 /\ DueHas(i) = 0

\* A packet that gave a sample went out, may go on giving one, and is acknowledged.
SampledOut(i) == i \in sampled => i \in canUseRttSample /\ i \in erased /\ transmissions[i] >= 1

SampleInv ==
    /\ \A i \in Infos : OnceOut(i) /\ SampledOut(i)
    /\ worker.pc # "idle" => transmissions[worker.info] >= 1

\* A packet that will be sent again and is not acknowledged is in the map, or in the
\* hands of the worker that took it out.
MapInv ==
    \A i \in Kept : i <= allocated =>
        i \in sendPacketInfoMap \/ i \in erased \/ (worker.pc = "mark" /\ worker.info = i)

\* A packet of a generation that is gone is acknowledged, or was a reply and has gone.
Owned(i) ==
    i <= allocated =>
        \/ IsOwnerValid(i)
        \/ i \in erased
        \/ i \in Replies /\ SenderHas(i) = 0 /\ IoHas(i) = 0 /\ QueueHas(i) = 0

OwnerInv == (\A i \in Infos : Owned(i)) /\ SentOnlyToOwner
-----------------------------------------------------------------------------
(* What the steps that move infos about change.                            *)

LEMMA Bounds ==
    ASSUME RetransmissionAssumption
    PROVE  /\ MaxInfos \in Nat /\ MaxGeneration \in Nat /\ MaxClock \in Nat
           /\ Infos = 1 .. MaxInfos /\ Kept \subseteq Infos /\ None = 0
BY DEF RetransmissionAssumption, Infos, Kept, None

\* The queue's front leaves it.
LEMMA FrontTaken ==
    ASSUME Types, queue # <<>>
    PROVE  /\ Head(queue) \in Infos /\ Tail(queue) \in Seq(Infos)
           /\ \A i : Occurrences(queue, i) = Occurrences(Tail(queue), i) + One(Head(queue) = i)
<1>1. queue \in Seq(Infos)
  BY DEF Types, SessionTypes
<1>2. \A i : Occurrences(queue, i) = Occurrences(Tail(queue), i) + One(Head(queue) = i)
  BY <1>1, OccurrencesTail
<1>3. Head(queue) \in Infos /\ Tail(queue) \in Seq(Infos)
  BY <1>1
<1> QED
  BY <1>2, <1>3

\* The first of the due packets leaves the list.
LEMMA DueTaken ==
    ASSUME Types, PlaceInv, rtPc \notin {"scan", "wait"}
    PROVE  /\ Head(dueList) \in Kept /\ Tail(dueList) \in Seq(Kept)
           /\ \A i : Occurrences(dueList, i) = Occurrences(Tail(dueList), i) + One(Head(dueList) = i)
           /\ Tail(dueList) = <<>> <=> Len(dueList) = 1
<1>1. dueList \in Seq(Kept) /\ dueList # <<>>
  BY DEF Types, RtTypes, PlaceInv
<1>2. \A i : Occurrences(dueList, i) = Occurrences(Tail(dueList), i) + One(Head(dueList) = i)
  BY <1>1, OccurrencesTail
<1>3. Head(dueList) \in Kept /\ Tail(dueList) \in Seq(Kept)
  BY <1>1
<1>4. Len(dueList) \in Nat /\ Len(Tail(dueList)) = Len(dueList) - 1
  BY <1>1
<1>5. Tail(dueList) = <<>> <=> Len(Tail(dueList)) = 0
  <2>1. \A s \in Seq(Kept) : s = <<>> <=> Len(s) = 0
    OBVIOUS
  <2> QED
    BY <1>3, <2>1
<1>6. Tail(dueList) = <<>> <=> Len(dueList) = 1
  <2>1. \A m, n : m \in Nat /\ n = m - 1 => (n = 0 <=> m = 1)
    OBVIOUS
  <2> QED
    BY <1>4, <1>5, <2>1
<1> QED
  BY <1>2, <1>3, <1>6

LEMMA Queued ==
    ASSUME Types, NEW x \in Infos
    PROVE  /\ Append(queue, x) \in Seq(Infos)
           /\ \A i : Occurrences(Append(queue, x), i) = Occurrences(queue, i) + One(x = i)
<1>1. queue \in Seq(Infos)
  BY DEF Types, SessionTypes
<1> QED
  BY <1>1, OccurrencesAppend

\* What is counted is a number, before a step and after it.
LEMMA Counted ==
    ASSUME Types, NEW i
    PROVE  /\ Occurrences(queue, i) \in Nat /\ Occurrences(dueList, i) \in Nat
           /\ Entries(heap, i) \in Nat
BY OccurrencesAre, EntriesAre DEF Types, SessionTypes, HeapTypes, RtTypes

LEMMA CountedNext ==
    ASSUME Types', NEW i
    PROVE  /\ Occurrences(queue', i) \in Nat /\ Occurrences(dueList', i) \in Nat
           /\ Entries(heap', i) \in Nat
BY OccurrencesAre, EntriesAre DEF Types, SessionTypes, HeapTypes, RtTypes

\* An entry of a new version is a new entry.
LEMMA Scheduled ==
    ASSUME Types, VersionInv, NEW i \in Infos, NEW e, e.info = i,
           e.version = scheduleVersion[i] + 1
    PROVE  /\ e \notin heap /\ IsFiniteSet(heap \cup {e})
           /\ \A j : Entries(heap \cup {e}, j) = Entries(heap, j) + One(i = j)
<1>1. scheduleVersion[i] \in Nat
  BY DEF Types, CountTypes
<1>2. e \notin heap
  BY <1>1 DEF VersionInv
<1>3. IsFiniteSet(heap)
  BY DEF Types, HeapTypes
<1>4. \A j : Entries(heap \cup {e}, j) = Entries(heap, j) + One(i = j)
  BY <1>2, <1>3, EntriesAdd
<1>5. IsFiniteSet(heap \cup {e})
  BY <1>3, FS_AddElement
<1> QED
  BY <1>2, <1>4, <1>5

\* The parts of a scan.
Due == {e \in heap : e.deadline <= clock /\ ~Stale(e)}
Future == {e \in heap : e.deadline > clock /\ ~Stale(e)}
NextDeadline == IF Future = {} THEN None ELSE Min({e.deadline : e \in Future})
Freed == {e \in heap : Stale(e) /\ (e.deadline < NextDeadline \/ NextDeadline = None)}

\* The entries of the heap go to the list, are freed, or stay.
LEMMA Scanned ==
    ASSUME RetransmissionAssumption, Types, PlaceInv, Scan
    PROVE  /\ dueList = <<>> /\ heap' = heap \ (Due \cup Freed)
           /\ dueList' \in Seq(Kept) /\ IsFiniteSet(heap')
           /\ Due \subseteq heap /\ Freed \subseteq heap /\ Due \cap Freed = {}
           /\ \A i :
                /\ Entries(heap, i) = Entries(heap', i) + Occurrences(dueList', i) + Entries(Freed, i)
                /\ Entries(Freed, i) \in Nat
                /\ i \in {e.info : e \in Due} <=> Occurrences(dueList', i) # 0
           /\ refCount' = [i \in Infos |-> refCount[i] - Entries(Freed, i)]
           /\ canUseRttSample' = canUseRttSample \ {e.info : e \in Due}
           /\ dueList' = <<>> <=> Due = {}
           /\ IF Due = {} THEN rtPc' = "wait" /\ armed' = NextDeadline
                          ELSE rtPc' = "process" /\ armed' = armed
<1>1. /\ heap' = heap \ (Due \cup Freed)
      /\ refCount' = [i \in Infos |-> refCount[i] - Entries(Freed, i)]
      /\ canUseRttSample' = canUseRttSample \ {e.info : e \in Due}
      /\ dueList' = [k \in 1 .. Cardinality(Due) |-> SetToSeq(Due)[k].info]
      /\ IF Due = {} THEN rtPc' = "wait" /\ armed' = NextDeadline
                     ELSE rtPc' = "process" /\ armed' = armed
  BY DEF Scan, Due, Future, NextDeadline, Freed, Entries, InvalidateRttSamples
<1>2. dueList = <<>>
  BY DEF Scan, PlaceInv
<1>3. IsFiniteSet(heap) /\ \A e \in heap : e.info \in Kept
  BY DEF Types, HeapTypes
<1>4. Due \subseteq heap /\ Freed \subseteq heap /\ Due \cap Freed = {}
  BY DEF Due, Freed
<1> HIDE DEF Due, Freed, Future, NextDeadline
<1>5. IsFiniteSet(Due) /\ IsFiniteSet(Freed) /\ IsFiniteSet(heap \ Due)
  BY <1>3, <1>4, FS_Subset, FS_Difference
<1>6. \A i : /\ Entries(heap, i) = Entries(heap \ Due, i) + Entries(Due, i)
             /\ Entries(heap \ Due, i) \in Nat /\ Entries(Due, i) \in Nat
  BY <1>3, <1>4, EntriesSplit, Due \in SUBSET heap
<1>7. heap' = (heap \ Due) \ Freed /\ Freed \in SUBSET (heap \ Due)
  BY <1>1, <1>4
<1>8. \A i : /\ Entries(heap \ Due, i) = Entries((heap \ Due) \ Freed, i) + Entries(Freed, i)
             /\ Entries((heap \ Due) \ Freed, i) \in Nat /\ Entries(Freed, i) \in Nat
  BY <1>5, <1>7, EntriesSplit
<1>9. \A e \in Due : e.info \in Kept
  BY <1>3, <1>4
<1>10. /\ dueList' \in Seq(Kept) /\ (dueList' = <<>> <=> Due = {})
       /\ \A i : Occurrences(dueList', i) = Entries(Due, i)
  BY <1>1, <1>5, <1>9, Enumerated
<1>11. \A i : i \in {e.info : e \in Due} <=> Entries(Due, i) # 0
  BY <1>5, EntriesAre
<1>12. IsFiniteSet(heap')
  BY <1>5, <1>7, FS_Difference
<1>13. \A i : Entries(heap, i) = Entries(heap', i) + Occurrences(dueList', i) + Entries(Freed, i)
  <2> TAKE i
  <2>1. /\ Entries(heap, i) = Entries(heap \ Due, i) + Entries(Due, i)
        /\ Entries(heap \ Due, i) = Entries(heap', i) + Entries(Freed, i)
        /\ Occurrences(dueList', i) = Entries(Due, i)
        /\ Entries(heap', i) \in Nat /\ Entries(Freed, i) \in Nat /\ Entries(Due, i) \in Nat
    BY <1>6, <1>7, <1>8, <1>10
  <2> QED
    BY <2>1
<1> QED
  BY <1>1, <1>2, <1>4, <1>8, <1>10, <1>11, <1>12, <1>13

-----------------------------------------------------------------------------
(* Types and places.                                                       *)

\* Every step is one of these.
LEMMA NextCases ==
    ASSUME Next
    PROVE  \/ Allocate \/ CoreSendPacket \/ SendSucceeds \/ SendFails \/ MarkFailedErased
           \/ EraseFailed
           \/ TryGetFrontAndPop \/ MarkSentForRttSample \/ PushRetransmissionSchedule
           \/ SignalRetransmissionWakeEvent \/ Transmit
           \/ (\E i \in Infos : FindAndEraseSendPacketInfo(i))
           \/ MarkSendPacketInfoErased \/ TryGetRttSample
           \/ Scan \/ WakeUp \/ ProcessRetransmission \/ CheckOwner \/ DisconnectOwner
           \/ PushAgain \/ PushedAgain
           \/ OtherDisconnects \/ InitializeSession \/ TryConnect
           \/ (\E i \in Infos : ClearSendPacketInfoMap(i))
           \/ Tick
BY DEF Next, Sender, IO, Worker, RunRetransmissionThread, Session

\* Types of the groups a step does not change are kept.
LEMMA TypesByParts ==
    ASSUME Types,
           InfoTypes' \/ UNCHANGED <<allocated, owner, erased, canUseRttSample, sampled,
                                     sendPacketInfoMap>>,
           CountTypes' \/ UNCHANGED <<refCount, scheduleVersion, retransmissionCount,
                                      lastSendTime, transmissions>>,
           SessionTypes' \/ UNCHANGED <<queue, generation, session>>,
           HeapTypes' \/ UNCHANGED <<heap, wakeEvent, clock>>,
           ThreadTypes' \/ UNCHANGED <<sender, io, worker>>,
           RtTypes' \/ UNCHANGED <<rtPc, dueList, armed, strayDisconnect>>
    PROVE  Types'
<1>1. InfoTypes'
  BY DEF Types, InfoTypes, infoVars, otherInfoVars, sessionVars
<1>2. CountTypes'
  BY DEF Types, CountTypes
<1>3. SessionTypes'
  BY DEF Types, SessionTypes
<1>4. HeapTypes'
  BY DEF Types, HeapTypes
<1>5. ThreadTypes'
  BY DEF Types, ThreadTypes
<1>6. RtTypes'
  BY DEF Types, RtTypes
<1> QED
  BY <1>1, <1>2, <1>3, <1>4, <1>5, <1>6 DEF Types

LEMMA TypesInitial == ASSUME RetransmissionAssumption, Init PROVE Types
<1>1. 0 \in 0 .. MaxInfos /\ 0 \in 0 .. MaxGeneration /\ 0 \in 0 .. MaxClock /\ None = 0
  BY Bounds
<1>2. InfoTypes /\ CountTypes
  BY <1>1 DEF Init, InfoTypes, CountTypes
<1>3. SessionTypes /\ RtTypes
  <2>1. <<>> \in Seq(Infos) /\ <<>> \in Seq(Kept)
    OBVIOUS
  <2> QED
    BY <1>1, <2>1 DEF Init, SessionTypes, RtTypes, RtPcs
<1>4. HeapTypes
  BY <1>1, FS_EmptySet DEF Init, HeapTypes
<1>5. ThreadTypes
  BY DEF Init, ThreadTypes, Resting, SenderPcs, IoPcs, WorkerPcs
<1> QED
  BY <1>2, <1>3, <1>4, <1>5 DEF Types

\* The packets that are held are infos.
LEMMA HeldAreInfos ==
    ASSUME Types, PlaceInv
    PROVE  /\ sender.pc # "idle" => sender.info \in Infos
           /\ io.pc # "idle" => io.info \in Infos
           /\ worker.pc # "idle" => worker.info \in Infos
BY DEF Types, ThreadTypes, PlaceInv

LEMMA TypesStep ==
    ASSUME RetransmissionAssumption, Types, PlaceInv, VersionInv, [Next]_vars
    PROVE  Types'
<1>0. InfoTypes /\ CountTypes /\ SessionTypes /\ HeapTypes /\ ThreadTypes /\ RtTypes
  BY DEF Types
<1>1. /\ MaxInfos \in Nat /\ MaxGeneration \in Nat /\ MaxClock \in Nat
      /\ Kept \subseteq Infos /\ None = 0 /\ \A i \in Infos : i \notin Replies => i \in Kept
  BY Bounds DEF Kept
<1>2. /\ sender.pc # "idle" => sender.info \in Infos
      /\ io.pc # "idle" => io.info \in Infos
      /\ worker.pc # "idle" => worker.info \in Infos
  BY HeldAreInfos
<1>3. rtPc \notin {"scan", "wait"} => Head(dueList) \in Infos /\ Tail(dueList) \in Seq(Kept)
  BY <1>1, DueTaken
<1>4. ASSUME NextDue, rtPc \notin {"scan", "wait"}
      PROVE  dueList' \in Seq(Kept) /\ rtPc' \in RtPcs /\ armed' = armed
  BY <1>3, <1>4 DEF NextDue, RtPcs
<1>40. \A j \in Infos : Free(j) \/ AddRefCount(j) => refCount' \in [Infos -> Int]
  BY <1>0 DEF CountTypes, Free, AddRefCount
<1>5. CASE Allocate
  <2>0. allocated + 1 \in Infos /\ allocated + 1 \in 0 .. MaxInfos
    BY <1>0, <1>1, <1>5 DEF Allocate, InfoTypes, Infos
  <2>1. InfoTypes'
    BY <1>0, <1>1, <1>5, <2>0 DEF Allocate, InfoTypes, SessionTypes
  <2>2. CountTypes'
    BY <1>0, <1>5, <2>0 DEF Allocate, CountTypes, Free, AddRefCount, otherInfoVars
  <2>3. ThreadTypes'
    BY <1>0, <1>5, <2>0 DEF Allocate, ThreadTypes, SenderPcs
  <2> QED
    BY <1>5, <2>1, <2>2, <2>3, TypesByParts
       DEF Allocate, infoVars, otherInfoVars, sessionVars, schedulerVars, rtVars
<1>6. CASE CoreSendPacket
  <2>1. CountTypes'
    BY <1>0, <1>2, <1>40, <1>6 DEF CoreSendPacket, CountTypes, otherInfoVars
  <2>2. SessionTypes'
    BY <1>0, <1>2, <1>6, Queued DEF CoreSendPacket, SessionTypes
  <2>3. ThreadTypes'
    BY <1>0, <1>2, <1>6 DEF CoreSendPacket, ThreadTypes, SenderPcs, IoPcs, WorkerPcs, Resting
  <2> QED
    BY <1>6, <2>1, <2>2, <2>3, TypesByParts
       DEF CoreSendPacket, infoVars, otherInfoVars, sessionVars, schedulerVars, rtVars
<1>7. CASE SendSucceeds
  <2>1. CountTypes'
    BY <1>0, <1>2, <1>7 DEF SendSucceeds, CountTypes, Free, AddRefCount, otherInfoVars
  <2>2. ThreadTypes'
    BY <1>0, <1>2, <1>7 DEF SendSucceeds, ThreadTypes, SenderPcs, IoPcs, WorkerPcs, Resting
  <2> QED
    BY <1>7, <2>1, <2>2, TypesByParts
       DEF SendSucceeds, infoVars, otherInfoVars, sessionVars, schedulerVars, rtVars
<1>8. CASE SendFails
  <2>1. ThreadTypes'
    BY <1>0, <1>2, <1>8 DEF SendFails, ThreadTypes, SenderPcs, IoPcs, WorkerPcs, Resting
  <2> QED
    BY <1>8, <2>1, TypesByParts
       DEF SendFails, infoVars, otherInfoVars, sessionVars, schedulerVars, rtVars
<1>9. CASE MarkFailedErased
  <2>1. InfoTypes'
    BY <1>0, <1>2, <1>9 DEF MarkFailedErased, InfoTypes, infoVars, otherInfoVars, sessionVars
  <2>2. ThreadTypes'
    BY <1>0, <1>2, <1>9 DEF MarkFailedErased, ThreadTypes, SenderPcs, IoPcs, WorkerPcs, Resting
  <2> QED
    BY <1>9, <2>1, <2>2, TypesByParts
       DEF MarkFailedErased, infoVars, otherInfoVars, sessionVars, schedulerVars, rtVars
<1>10. CASE EraseFailed
  <2>1. InfoTypes'
    BY <1>0, <1>2, <1>10 DEF EraseFailed, InfoTypes, infoVars, otherInfoVars, sessionVars
  <2>2. CountTypes'
    BY <1>0, <1>2, <1>10 DEF EraseFailed, CountTypes, Free, AddRefCount, otherInfoVars
  <2>3. SessionTypes'
    BY <1>0, <1>2, <1>10 DEF EraseFailed, SessionTypes, DoDisconnect
  <2>4. ThreadTypes'
    BY <1>0, <1>2, <1>10 DEF EraseFailed, ThreadTypes, SenderPcs, IoPcs, WorkerPcs, Resting
  <2> QED
    BY <1>10, <2>1, <2>2, <2>3, <2>4, TypesByParts
       DEF EraseFailed, infoVars, otherInfoVars, sessionVars, schedulerVars, rtVars
<1>11. CASE TryGetFrontAndPop
  <2>1. SessionTypes'
    BY <1>0, <1>2, <1>11, FrontTaken DEF TryGetFrontAndPop, SessionTypes
  <2>2. ThreadTypes'
    BY <1>0, <1>2, <1>11, FrontTaken DEF TryGetFrontAndPop, ThreadTypes, SenderPcs, IoPcs, WorkerPcs, Resting
  <2> QED
    BY <1>11, <2>1, <2>2, TypesByParts
       DEF TryGetFrontAndPop, infoVars, otherInfoVars, sessionVars, schedulerVars, rtVars
<1>12. CASE MarkSentForRttSample
  <2>1. CountTypes'
    BY <1>0, <1>2, <1>12 DEF MarkSentForRttSample, CountTypes, Free, AddRefCount, otherInfoVars
  <2>2. ThreadTypes'
    BY <1>0, <1>2, <1>12 DEF MarkSentForRttSample, ThreadTypes, SenderPcs, IoPcs, WorkerPcs, Resting
  <2> QED
    BY <1>12, <2>1, <2>2, TypesByParts
       DEF MarkSentForRttSample, infoVars, otherInfoVars, sessionVars, schedulerVars, rtVars
<1>13. CASE PushRetransmissionSchedule
  <2>1. CountTypes'
    BY <1>0, <1>2, <1>13 DEF PushRetransmissionSchedule, CountTypes, Free, AddRefCount, otherInfoVars
  <2>2. HeapTypes'
    <3>1. CASE UNCHANGED heap
      BY <1>0, <1>13, <3>1 DEF PushRetransmissionSchedule, HeapTypes
    <3>2. CASE heap' # heap
      <4>1. io.info \in Kept
        BY <1>1, <1>2, <1>13 DEF PushRetransmissionSchedule, PlaceInv
      <4>2. PICK deadline \in clock + 1 .. MaxClock :
                heap' = heap \cup {[info |-> io.info, version |-> scheduleVersion[io.info] + 1,
                                    deadline |-> deadline]}
        BY <1>13, <3>2 DEF PushRetransmissionSchedule
      <4>3. deadline \in 1 .. MaxClock
        BY <1>0, <1>1 DEF HeapTypes
      <4>4. IsFiniteSet(heap')
        BY <1>1, <4>1, <4>2, Scheduled
      <4>5. scheduleVersion[io.info] + 1 \in Nat
        BY <1>0, <1>1, <4>1 DEF CountTypes
      <4>6. heap' \subseteq [info : Kept, version : Nat, deadline : 1 .. MaxClock]
        BY <1>0, <4>1, <4>2, <4>3, <4>5 DEF HeapTypes
      <4> QED
        BY <1>0, <1>13, <4>4, <4>6 DEF PushRetransmissionSchedule, HeapTypes
    <3> QED
      BY <3>1, <3>2
  <2>3. ThreadTypes'
    BY <1>0, <1>2, <1>13 DEF PushRetransmissionSchedule, ThreadTypes, SenderPcs, IoPcs, WorkerPcs, Resting
  <2> QED
    BY <1>13, <2>1, <2>2, <2>3, TypesByParts
       DEF PushRetransmissionSchedule, infoVars, otherInfoVars, sessionVars, schedulerVars, rtVars
<1>14. CASE SignalRetransmissionWakeEvent
  <2>1. HeapTypes'
    BY <1>0, <1>2, <1>14 DEF SignalRetransmissionWakeEvent, HeapTypes, schedulerVars
  <2>2. ThreadTypes'
    BY <1>0, <1>2, <1>14 DEF SignalRetransmissionWakeEvent, ThreadTypes, SenderPcs, IoPcs, WorkerPcs, Resting
  <2> QED
    BY <1>14, <2>1, <2>2, TypesByParts
       DEF SignalRetransmissionWakeEvent, infoVars, otherInfoVars, sessionVars, schedulerVars, rtVars
<1>15. CASE Transmit
  <2>1. CountTypes'
    BY <1>0, <1>2, <1>15 DEF Transmit, CountTypes, Free, AddRefCount, otherInfoVars
  <2>2. ThreadTypes'
    BY <1>0, <1>2, <1>15 DEF Transmit, ThreadTypes, SenderPcs, IoPcs, WorkerPcs, Resting
  <2> QED
    BY <1>15, <2>1, <2>2, TypesByParts
       DEF Transmit, infoVars, otherInfoVars, sessionVars, schedulerVars, rtVars
<1>16. ASSUME NEW i \in Infos, FindAndEraseSendPacketInfo(i) PROVE Types'
  <2>1. InfoTypes'
    BY <1>0, <1>2, <1>16 DEF FindAndEraseSendPacketInfo, InfoTypes, infoVars, otherInfoVars, sessionVars
  <2>2. ThreadTypes'
    BY <1>0, <1>2, <1>16 DEF FindAndEraseSendPacketInfo, ThreadTypes, SenderPcs, IoPcs, WorkerPcs, Resting
  <2> QED
    BY <1>16, <2>1, <2>2, TypesByParts
       DEF FindAndEraseSendPacketInfo, infoVars, otherInfoVars, sessionVars, schedulerVars, rtVars
<1>17. CASE MarkSendPacketInfoErased
  <2>1. InfoTypes'
    BY <1>0, <1>2, <1>17 DEF MarkSendPacketInfoErased, InfoTypes, infoVars, otherInfoVars, sessionVars
  <2>2. ThreadTypes'
    BY <1>0, <1>2, <1>17 DEF MarkSendPacketInfoErased, ThreadTypes, SenderPcs, IoPcs, WorkerPcs, Resting
  <2> QED
    BY <1>17, <2>1, <2>2, TypesByParts
       DEF MarkSendPacketInfoErased, infoVars, otherInfoVars, sessionVars, schedulerVars, rtVars
<1>18. CASE TryGetRttSample
  <2>1. InfoTypes'
    BY <1>0, <1>2, <1>18 DEF TryGetRttSample, InfoTypes, infoVars, otherInfoVars, sessionVars
  <2>2. CountTypes'
    BY <1>0, <1>2, <1>18 DEF TryGetRttSample, CountTypes, Free, AddRefCount, otherInfoVars
  <2>3. ThreadTypes'
    BY <1>0, <1>2, <1>18 DEF TryGetRttSample, ThreadTypes, SenderPcs, IoPcs, WorkerPcs, Resting
  <2> QED
    BY <1>18, <2>1, <2>2, <2>3, TypesByParts
       DEF TryGetRttSample, infoVars, otherInfoVars, sessionVars, schedulerVars, rtVars
<1>19. CASE Scan
  <2>1. InfoTypes'
    BY <1>0, <1>19, Scanned DEF Scan, InfoTypes, sessionVars, infoVars, otherInfoVars
  <2>2. CountTypes'
    <3>1. refCount' = [i \in Infos |-> refCount[i] - Entries(Freed, i)]
      BY <1>19, Scanned
    <3>2. \A i : Entries(Freed, i) \in Nat
      BY <1>19, Scanned
    <3>3. refCount' \in [Infos -> Int]
      BY <1>0, <3>1, <3>2 DEF CountTypes
    <3> QED
      BY <1>0, <1>19, <3>3 DEF Scan, CountTypes
  <2>3. HeapTypes'
    BY <1>0, <1>19, Scanned DEF Scan, HeapTypes
  <2>4. RtTypes'
    <3>1. NextDeadline \in 0 .. MaxClock
      <4>1. CASE Future = {}
        BY <1>1, <4>1 DEF NextDeadline
      <4>2. CASE Future # {}
        <5> DEFINE deadlines == {e.deadline : e \in Future}
        <5>1. deadlines \in SUBSET (1 .. MaxClock) /\ deadlines # {}
          BY <1>0, <4>2 DEF Future, HeapTypes
        <5>2. 1 .. MaxClock \subseteq Nat /\ 1 .. MaxClock \subseteq 0 .. MaxClock
          BY <1>1
        <5>3. Min(deadlines) \in deadlines
          BY <5>1, <5>2, MinIs
        <5> QED
          BY <4>2, <5>1, <5>2, <5>3 DEF NextDeadline
      <4> QED
        BY <4>1, <4>2
    <3>2. dueList' \in Seq(Kept) /\ rtPc' \in RtPcs /\ armed' \in 0 .. MaxClock
      BY <1>0, <1>19, <3>1, Scanned DEF RtTypes, RtPcs
    <3> QED
      BY <1>0, <1>19, <3>2 DEF Scan, RtTypes
  <2> QED
    BY <1>19, <2>1, <2>2, <2>3, <2>4, TypesByParts
       DEF Scan, infoVars, otherInfoVars, sessionVars, schedulerVars, rtVars
<1>20. CASE WakeUp
  <2>1. HeapTypes'
    BY <1>0, <1>1, <1>20 DEF WakeUp, HeapTypes, schedulerVars
  <2>2. RtTypes'
    BY <1>0, <1>1, <1>20 DEF WakeUp, RtTypes, RtPcs, rtVars
  <2> QED
    BY <1>20, <2>1, <2>2, TypesByParts
       DEF WakeUp, infoVars, otherInfoVars, sessionVars, schedulerVars, rtVars
<1>21. CASE ProcessRetransmission
  <2>1. CountTypes'
    <3>1. refCount' \in [Infos -> Int]
      BY <1>0, <1>3, <1>40, <1>21 DEF ProcessRetransmission, NextDue, CountTypes
    <3>2. retransmissionCount' \in [Infos -> Nat]
      <4>1. \/ retransmissionCount' = retransmissionCount
            \/ retransmissionCount' = [retransmissionCount EXCEPT ![Head(dueList)] = @ + 1]
        BY <1>21 DEF ProcessRetransmission
      <4>2. retransmissionCount \in [Infos -> Nat]
        BY <1>0 DEF CountTypes
      <4>3. Head(dueList) \in Infos
        BY <1>3, <1>21 DEF ProcessRetransmission
      <4> QED
        BY <4>1, <4>2, <4>3
    <3> QED
      BY <1>0, <1>21, <3>1, <3>2 DEF ProcessRetransmission, CountTypes
  <2>2. RtTypes'
    BY <1>0, <1>2, <1>21, <1>4 DEF ProcessRetransmission, RtTypes, RtPcs, rtVars
  <2> QED
    BY <1>21, <2>1, <2>2, TypesByParts
       DEF ProcessRetransmission, infoVars, otherInfoVars, sessionVars, schedulerVars, rtVars
<1>22. CASE CheckOwner
  <2>1. CountTypes'
    BY <1>0, <1>2, <1>3, <1>40, <1>22 DEF CheckOwner, CountTypes, NextDue, otherInfoVars
  <2>2. RtTypes'
    BY <1>0, <1>2, <1>22, <1>4 DEF CheckOwner, RtTypes, RtPcs, rtVars
  <2> QED
    BY <1>22, <2>1, <2>2, TypesByParts
       DEF CheckOwner, infoVars, otherInfoVars, sessionVars, schedulerVars, rtVars
<1>23. CASE DisconnectOwner
  <2>1. SessionTypes'
    BY <1>0, <1>2, <1>23 DEF DisconnectOwner, SessionTypes, DoDisconnect
  <2>2. CountTypes'
    BY <1>0, <1>2, <1>3, <1>40, <1>23 DEF DisconnectOwner, CountTypes, NextDue, otherInfoVars
  <2>3. RtTypes'
    BY <1>0, <1>2, <1>23, <1>4 DEF DisconnectOwner, RtTypes, RtPcs, rtVars
  <2> QED
    BY <1>23, <2>1, <2>2, <2>3, TypesByParts
       DEF DisconnectOwner, infoVars, otherInfoVars, sessionVars, schedulerVars, rtVars
<1>24. CASE PushAgain
  <2>1. SessionTypes'
    BY <1>0, <1>2, <1>24, Queued, <1>3 DEF PushAgain, SessionTypes
  <2>2. CountTypes'
    BY <1>0, <1>2, <1>3, <1>40, <1>24 DEF PushAgain, CountTypes, NextDue, otherInfoVars
  <2>3. RtTypes'
    BY <1>0, <1>2, <1>24, <1>4 DEF PushAgain, RtTypes, RtPcs, rtVars
  <2> QED
    BY <1>24, <2>1, <2>2, <2>3, TypesByParts
       DEF PushAgain, infoVars, otherInfoVars, sessionVars, schedulerVars, rtVars
<1>25. CASE PushedAgain
  <2>1. CountTypes'
    BY <1>0, <1>2, <1>3, <1>40, <1>25 DEF PushedAgain, CountTypes, NextDue, otherInfoVars
  <2>2. RtTypes'
    BY <1>0, <1>2, <1>25, <1>4 DEF PushedAgain, RtTypes, RtPcs, rtVars
  <2> QED
    BY <1>25, <2>1, <2>2, TypesByParts
       DEF PushedAgain, infoVars, otherInfoVars, sessionVars, schedulerVars, rtVars
<1>26. CASE OtherDisconnects
  <2>1. SessionTypes'
    BY <1>0, <1>2, <1>26 DEF OtherDisconnects, SessionTypes
  <2> QED
    BY <1>26, <2>1, TypesByParts
       DEF OtherDisconnects, infoVars, otherInfoVars, sessionVars, schedulerVars, rtVars
<1>27. CASE InitializeSession
  <2>1. SessionTypes'
    <3>1. <<>> \in Seq(Infos) /\ generation' \in 0 .. MaxGeneration
      BY <1>0, <1>1, <1>27 DEF InitializeSession, SessionTypes
    <3> QED
      BY <1>27, <3>1 DEF InitializeSession, SessionTypes
  <2>2. CountTypes'
    <3>1. \A i : Occurrences(queue, i) \in Nat
      BY Counted
    <3>2. refCount' = [i \in Infos |-> refCount[i] - Occurrences(queue, i)]
      BY <1>27 DEF InitializeSession, Occurrences
    <3>3. refCount' \in [Infos -> Int]
      BY <1>0, <3>1, <3>2 DEF CountTypes
    <3> QED
      BY <1>0, <1>27, <3>3 DEF InitializeSession, CountTypes, otherInfoVars
  <2> QED
    BY <1>27, <2>1, <2>2, TypesByParts
       DEF InitializeSession, infoVars, otherInfoVars, sessionVars, schedulerVars, rtVars
<1>28. CASE TryConnect
  <2>1. SessionTypes'
    BY <1>0, <1>2, <1>28 DEF TryConnect, SessionTypes
  <2> QED
    BY <1>28, <2>1, TypesByParts
       DEF TryConnect, infoVars, otherInfoVars, sessionVars, schedulerVars, rtVars
<1>29. ASSUME NEW i \in Infos, ClearSendPacketInfoMap(i) PROVE Types'
  <2>1. InfoTypes'
    BY <1>0, <1>2, <1>29 DEF ClearSendPacketInfoMap, InfoTypes, infoVars, otherInfoVars, sessionVars
  <2>2. CountTypes'
    BY <1>0, <1>2, <1>29 DEF ClearSendPacketInfoMap, CountTypes, Free, AddRefCount, otherInfoVars
  <2> QED
    BY <1>29, <2>1, <2>2, TypesByParts
       DEF ClearSendPacketInfoMap, infoVars, otherInfoVars, sessionVars, schedulerVars, rtVars
<1>30. CASE Tick
  <2>1. HeapTypes'
    BY <1>0, <1>1, <1>30 DEF Tick, HeapTypes, schedulerVars
  <2> QED
    BY <1>30, <2>1, TypesByParts
       DEF Tick, infoVars, otherInfoVars, sessionVars, schedulerVars, rtVars
<1>31. CASE UNCHANGED vars
  BY <1>31, TypesByParts DEF vars, infoVars, otherInfoVars, sessionVars, schedulerVars, rtVars
<1> QED
  BY NextCases, <1>5, <1>6, <1>7, <1>8, <1>9, <1>10, <1>11, <1>12, <1>13, <1>14, <1>15, <1>16, <1>17, <1>18, <1>19, <1>20, <1>21, <1>22, <1>23, <1>24, <1>25, <1>26, <1>27, <1>28, <1>29, <1>30, <1>31

LEMMA PlaceInitial == ASSUME Init PROVE PlaceInv
BY DEF Init, PlaceInv, Resting

\* Done with a due packet, the thread goes to the next one or scans again.
LEMMA DoneWithDue ==
    ASSUME Types, PlaceInv, rtPc \notin {"scan", "wait"}, NextDue
    PROVE  /\ rtPc' \in {"scan", "process"} /\ (dueList' = <<>> <=> rtPc' = "scan")
           /\ dueList' = Tail(dueList)
BY DueTaken DEF NextDue

LEMMA PlaceStep ==
    ASSUME RetransmissionAssumption, Types, PlaceInv, [Next]_vars
    PROVE  PlaceInv'
<1>0. /\ sender \in [pc : SenderPcs, info : Infos \cup {None}]
      /\ io \in [pc : IoPcs, info : Infos \cup {None}]
      /\ worker \in [pc : WorkerPcs, info : Infos \cup {None}]
  BY DEF Types, ThreadTypes
<1>1. None = 0 /\ None \notin Infos
  BY Bounds
<1>2. allocated \in Nat
  BY Bounds DEF Types, InfoTypes
<1> USE DEF PlaceInv, Resting
<1>3. CASE Allocate
  BY <1>0, <1>1, <1>2, <1>3
     DEF Allocate, infoVars, otherInfoVars, sessionVars, schedulerVars, rtVars
<1>4. CASE CoreSendPacket
  BY <1>0, <1>1, <1>4
     DEF CoreSendPacket, infoVars, otherInfoVars, sessionVars, schedulerVars, rtVars
<1>5. CASE SendSucceeds
  BY <1>0, <1>1, <1>5
     DEF SendSucceeds, infoVars, otherInfoVars, sessionVars, schedulerVars, rtVars
<1>6. CASE SendFails
  BY <1>0, <1>1, <1>6
     DEF SendFails, infoVars, otherInfoVars, sessionVars, schedulerVars, rtVars
<1>7. CASE MarkFailedErased
  BY <1>0, <1>1, <1>7
     DEF MarkFailedErased, infoVars, otherInfoVars, sessionVars, schedulerVars, rtVars
<1>8. CASE EraseFailed
  BY <1>0, <1>1, <1>8
     DEF EraseFailed, infoVars, otherInfoVars, sessionVars, schedulerVars, rtVars
<1>9. CASE TryGetFrontAndPop
  BY <1>0, <1>1, <1>9, FrontTaken
     DEF TryGetFrontAndPop, infoVars, otherInfoVars, sessionVars, schedulerVars, rtVars
<1>10. CASE MarkSentForRttSample
  BY <1>0, <1>1, <1>10
     DEF MarkSentForRttSample, infoVars, otherInfoVars, sessionVars, schedulerVars, rtVars
<1>11. CASE PushRetransmissionSchedule
  BY <1>0, <1>1, <1>11
     DEF PushRetransmissionSchedule, infoVars, otherInfoVars, sessionVars, schedulerVars, rtVars
<1>12. CASE SignalRetransmissionWakeEvent
  BY <1>0, <1>1, <1>12
     DEF SignalRetransmissionWakeEvent, infoVars, otherInfoVars, sessionVars, schedulerVars, rtVars
<1>13. CASE Transmit
  BY <1>0, <1>1, <1>13
     DEF Transmit, infoVars, otherInfoVars, sessionVars, schedulerVars, rtVars
<1>14. ASSUME NEW i \in Infos, FindAndEraseSendPacketInfo(i) PROVE PlaceInv'
  BY <1>0, <1>1, <1>14
     DEF FindAndEraseSendPacketInfo, infoVars, otherInfoVars, sessionVars, schedulerVars, rtVars
<1>15. CASE MarkSendPacketInfoErased
  BY <1>0, <1>1, <1>15
     DEF MarkSendPacketInfoErased, infoVars, otherInfoVars, sessionVars, schedulerVars, rtVars
<1>16. CASE TryGetRttSample
  BY <1>0, <1>1, <1>16
     DEF TryGetRttSample, infoVars, otherInfoVars, sessionVars, schedulerVars, rtVars
<1>17. CASE Scan
  BY <1>0, <1>1, <1>17, Scanned
     DEF Scan, infoVars, otherInfoVars, sessionVars, schedulerVars, rtVars
<1>18. CASE WakeUp
  BY <1>0, <1>1, <1>18
     DEF WakeUp, infoVars, otherInfoVars, sessionVars, schedulerVars, rtVars
<1>19. CASE ProcessRetransmission
  BY <1>0, <1>1, <1>19, DoneWithDue
     DEF ProcessRetransmission, infoVars, otherInfoVars, sessionVars, schedulerVars, rtVars
<1>20. CASE CheckOwner
  BY <1>0, <1>1, <1>20, DoneWithDue
     DEF CheckOwner, infoVars, otherInfoVars, sessionVars, schedulerVars, rtVars
<1>21. CASE DisconnectOwner
  BY <1>0, <1>1, <1>21, DoneWithDue
     DEF DisconnectOwner, infoVars, otherInfoVars, sessionVars, schedulerVars, rtVars
<1>22. CASE PushAgain
  BY <1>0, <1>1, <1>22, DoneWithDue
     DEF PushAgain, infoVars, otherInfoVars, sessionVars, schedulerVars, rtVars
<1>23. CASE PushedAgain
  BY <1>0, <1>1, <1>23, DoneWithDue
     DEF PushedAgain, infoVars, otherInfoVars, sessionVars, schedulerVars, rtVars
<1>24. CASE OtherDisconnects
  BY <1>0, <1>1, <1>24
     DEF OtherDisconnects, infoVars, otherInfoVars, sessionVars, schedulerVars, rtVars
<1>25. CASE InitializeSession
  BY <1>0, <1>1, <1>25
     DEF InitializeSession, infoVars, otherInfoVars, sessionVars, schedulerVars, rtVars
<1>26. CASE TryConnect
  BY <1>0, <1>1, <1>26
     DEF TryConnect, infoVars, otherInfoVars, sessionVars, schedulerVars, rtVars
<1>27. ASSUME NEW i \in Infos, ClearSendPacketInfoMap(i) PROVE PlaceInv'
  BY <1>0, <1>1, <1>27
     DEF ClearSendPacketInfoMap, infoVars, otherInfoVars, sessionVars, schedulerVars, rtVars
<1>28. CASE Tick
  BY <1>0, <1>1, <1>28
     DEF Tick, infoVars, otherInfoVars, sessionVars, schedulerVars, rtVars
<1>29. CASE UNCHANGED vars
  BY <1>29 DEF vars, infoVars, otherInfoVars, sessionVars, schedulerVars, rtVars
<1> QED
  BY NextCases, <1>3, <1>4, <1>5, <1>6, <1>7, <1>8, <1>9, <1>10, <1>11, <1>12, <1>13, <1>14, <1>15, <1>16, <1>17, <1>18, <1>19, <1>20, <1>21, <1>22, <1>23, <1>24, <1>25, <1>26, <1>27, <1>28, <1>29

LEMMA VersionInitial == ASSUME Init PROVE VersionInv
BY DEF Init, VersionInv

LEMMA VersionStep ==
    ASSUME RetransmissionAssumption, Types, PlaceInv, VersionInv, [Next]_vars
    PROVE  VersionInv'
<1>1. (heap' \subseteq heap /\ scheduleVersion' = scheduleVersion) \/ PushRetransmissionSchedule
  <2>1. Scan => heap' \subseteq heap
    BY DEF Scan
  <2> QED
    BY <2>1, NextCases
       DEF Allocate, CoreSendPacket, SendSucceeds, SendFails, MarkFailedErased, EraseFailed,
           TryGetFrontAndPop, MarkSentForRttSample, SignalRetransmissionWakeEvent, Transmit,
           FindAndEraseSendPacketInfo, MarkSendPacketInfoErased, TryGetRttSample, Scan, WakeUp,
           ProcessRetransmission, CheckOwner, DisconnectOwner, PushAgain, PushedAgain,
           OtherDisconnects, InitializeSession, TryConnect, ClearSendPacketInfoMap, Tick,
           vars, infoVars, otherInfoVars, sessionVars, schedulerVars, rtVars
<1>2. CASE heap' \subseteq heap /\ scheduleVersion' = scheduleVersion
  BY <1>2 DEF VersionInv
<1>3. CASE PushRetransmissionSchedule /\ ~(heap' \subseteq heap /\ scheduleVersion' = scheduleVersion)
  <2> DEFINE i == io.info
  <2>1. i \in Infos /\ scheduleVersion \in [Infos -> Nat] /\ \A e \in heap : e.info \in Infos /\ e.version \in Nat
    BY <1>3, HeldAreInfos, Bounds DEF PushRetransmissionSchedule, Types, CountTypes, HeapTypes
  <2>2. scheduleVersion' = [scheduleVersion EXCEPT ![i] = @ + 1]
    BY <1>3 DEF PushRetransmissionSchedule
  <2>3. PICK deadline : heap' = heap \cup {[info |-> i, version |-> scheduleVersion[i] + 1,
                                            deadline |-> deadline]}
    BY <1>3 DEF PushRetransmissionSchedule
  <2> HIDE DEF i
  <2>4. ASSUME NEW e \in heap' PROVE e.version <= scheduleVersion'[e.info]
    <3>1. CASE e \in heap
      BY <2>1, <2>2, <3>1 DEF VersionInv
    <3>2. CASE e \notin heap
      <4>1. e.info = i /\ e.version = scheduleVersion[i] + 1
        BY <2>3, <3>2
      <4> QED
        BY <2>1, <2>2, <4>1
    <3> QED
      BY <3>1, <3>2
  <2> QED
    BY <2>4 DEF VersionInv
<1> QED
  BY <1>1, <1>2, <1>3

-----------------------------------------------------------------------------
(* What each step moves.                                                   *)

LEMMA HoldersAre ==
    ASSUME NEW i
    PROVE  /\ Holders(i) = SenderHas(i) + IoHas(i) + WorkerHas(i) + MapHas(i) + QueueHas(i)
                               + DueHas(i) + HeapHas(i)
           /\ Holders(i)' = SenderHas(i)' + IoHas(i)' + WorkerHas(i)' + MapHas(i)' + QueueHas(i)'
                               + DueHas(i)' + HeapHas(i)'
<1>1. /\ Holders(i) = (SenderHas(i) + IoHas(i) + WorkerHas(i))
                           + (IF i \in sendPacketInfoMap THEN 1 ELSE 0)
                           + Occurrences(queue, i) + Occurrences(dueList, i) + Entries(heap, i)
      /\ Holders(i)' = (SenderHas(i)' + IoHas(i)' + WorkerHas(i)')
                           + (IF i \in sendPacketInfoMap' THEN 1 ELSE 0)
                           + Occurrences(queue', i) + Occurrences(dueList', i) + Entries(heap', i)
  <2>1. /\ Holders(i) = Cardinality(Holding(sender.info, io.info, worker.info, i))
                           + (IF i \in sendPacketInfoMap THEN 1 ELSE 0)
                           + Occurrences(queue, i) + Occurrences(dueList, i) + Entries(heap, i)
        /\ Holders(i)' = Cardinality(Holding(sender'.info, io'.info, worker'.info, i))
                           + (IF i \in sendPacketInfoMap' THEN 1 ELSE 0)
                           + Occurrences(queue', i) + Occurrences(dueList', i) + Entries(heap', i)
    BY DEF Holders, Holding, Entries
  <2> QED
    BY <2>1, ThreeHolders DEF SenderHas, IoHas, WorkerHas
<1> QED
  BY <1>1 DEF MapHas, QueueHas, DueHas, HeapHas, One

LEMMA HasTypes ==
    ASSUME Types, NEW i
    PROVE  /\ {SenderHas(i), IoHas(i), WorkerHas(i), MapHas(i), SenderGives(i), IoGives(i)}
                  \subseteq {0, 1}
           /\ {QueueHas(i), DueHas(i), HeapHas(i)} \subseteq Nat
BY Counted
   DEF SenderHas, IoHas, WorkerHas, MapHas, SenderGives, IoGives, QueueHas, DueHas, HeapHas, One

LEMMA HasTypesNext ==
    ASSUME Types', NEW i
    PROVE  /\ {SenderHas(i)', IoHas(i)', WorkerHas(i)', MapHas(i)', SenderGives(i)', IoGives(i)'}
                  \subseteq {0, 1}
           /\ {QueueHas(i)', DueHas(i)', HeapHas(i)'} \subseteq Nat
BY CountedNext
   DEF SenderHas, IoHas, WorkerHas, MapHas, SenderGives, IoGives, QueueHas, DueHas, HeapHas, One

LEMMA SumOfThree ==
    ASSUME NEW a \in Nat, NEW b \in Nat, NEW c \in Nat
    PROVE  a + b + c \in Nat /\ (a + b + c = 0 => a = 0 /\ b = 0 /\ c = 0)
OBVIOUS

\* Nobody has an info that no holder is counted for.
LEMMA HeldByNone ==
    ASSUME Types, NEW i, Holders(i) = 0
    PROVE  /\ SenderHas(i) = 0 /\ IoHas(i) = 0 /\ WorkerHas(i) = 0 /\ MapHas(i) = 0
           /\ QueueHas(i) = 0 /\ DueHas(i) = 0 /\ HeapHas(i) = 0
<1>1. /\ SenderHas(i) \in Nat /\ IoHas(i) \in Nat /\ WorkerHas(i) \in Nat
      /\ MapHas(i) \in Nat /\ QueueHas(i) \in Nat /\ DueHas(i) \in Nat /\ HeapHas(i) \in Nat
  BY HasTypes
<1>2. SenderHas(i) + IoHas(i) + WorkerHas(i) + MapHas(i) + QueueHas(i) + DueHas(i) + HeapHas(i) = 0
  BY HoldersAre
<1> DEFINE threads == SenderHas(i) + IoHas(i) + WorkerHas(i)
           lists == QueueHas(i) + DueHas(i) + HeapHas(i)
<1>3. threads \in Nat /\ (threads = 0 => SenderHas(i) = 0 /\ IoHas(i) = 0 /\ WorkerHas(i) = 0)
  BY <1>1, SumOfThree
<1>4. lists \in Nat /\ (lists = 0 => QueueHas(i) = 0 /\ DueHas(i) = 0 /\ HeapHas(i) = 0)
  BY <1>1, SumOfThree
<1>5. threads + MapHas(i) + lists = 0
  BY <1>1, <1>2
<1> HIDE DEF threads, lists
<1>6. threads = 0 /\ MapHas(i) = 0 /\ lists = 0
  BY <1>1, <1>3, <1>4, <1>5, SumOfThree
<1> QED
  BY <1>3, <1>4, <1>6

\* What is still due is among what is due.
LEMMA StillDueTypes ==
    ASSUME Types, PlaceInv, NEW i
    PROVE  StillDueHas(i) \in Nat /\ StillDueHas(i) <= DueHas(i)
<1>1. CASE rtPc \in {"pushed", "disconnect"}
  <2>1. Tail(dueList) \in Seq(Kept)
    BY <1>1, DueTaken
  <2>2. Occurrences(Tail(dueList), i) \in Nat
    BY <2>1, OccurrencesAre
  <2>3. Occurrences(dueList, i) = Occurrences(Tail(dueList), i) + One(Head(dueList) = i)
    BY <1>1, DueTaken
  <2>4. Occurrences(Tail(dueList), i) <= Occurrences(dueList, i)
    BY <2>2, <2>3 DEF One
  <2> QED
    BY <1>1, <2>2, <2>4 DEF StillDueHas, StillDue, DueHas
<1>2. CASE rtPc \notin {"pushed", "disconnect"}
  BY <1>2, Counted DEF StillDueHas, StillDue, DueHas
<1> QED
  BY <1>1, <1>2

LEMMA MovesAllocate ==
    ASSUME RetransmissionAssumption, Types, PlaceInv, VersionInv, NEW i \in Infos, Allocate
    PROVE  /\ UNCHANGED <<IoHas(i), WorkerHas(i), QueueHas(i), DueHas(i), HeapHas(i),
                           IoGives(i), StillDueHas(i)>>
           /\ SenderHas(i) = 0 /\ SenderGives(i) = 0
           /\ SenderHas(i)' = One(i = allocated + 1) /\ SenderGives(i)' = SenderHas(i)'
           /\ i = allocated + 1 => MapHas(i)' = One(i \notin Replies)
           /\ i # allocated + 1 => MapHas(i)' = MapHas(i)
<1>1. UNCHANGED <<IoHas(i), WorkerHas(i), QueueHas(i), DueHas(i), HeapHas(i), IoGives(i),
                    StillDueHas(i)>>
  BY DEF Allocate, IoHas, WorkerHas, QueueHas, DueHas, HeapHas, IoGives, StillDueHas, StillDue,
         schedulerVars, rtVars
<1>2. sender.pc = "idle" /\ sender.info = None /\ i # None
  BY Bounds DEF Allocate, PlaceInv
<1>3. sender' = [pc |-> "send", info |-> allocated + 1]
  BY DEF Allocate
<1>4. sendPacketInfoMap' = IF allocated + 1 \in Replies THEN sendPacketInfoMap
                           ELSE sendPacketInfoMap \cup {allocated + 1}
  BY DEF Allocate
<1>5. i \in sendPacketInfoMap => i \notin Replies
  BY DEF Types, InfoTypes, Kept
<1>6. SenderHas(i) = 0 /\ SenderGives(i) = 0
  BY <1>2 DEF SenderHas, SenderGives, One
<1>7. SenderHas(i)' = One(i = allocated + 1) /\ SenderGives(i)' = SenderHas(i)'
  BY <1>3 DEF SenderHas, SenderGives, One
<1>8. /\ i = allocated + 1 => MapHas(i)' = One(i \notin Replies)
      /\ i # allocated + 1 => MapHas(i)' = MapHas(i)
  BY <1>4, <1>5 DEF MapHas, One
<1> QED
  BY <1>1, <1>6, <1>7, <1>8

LEMMA MovesCoreSendPacket ==
    ASSUME RetransmissionAssumption, Types, PlaceInv, VersionInv, NEW i \in Infos, CoreSendPacket
    PROVE  /\ UNCHANGED <<SenderHas(i), IoHas(i), WorkerHas(i), MapHas(i), DueHas(i),
                           HeapHas(i), IoGives(i), StillDueHas(i)>>
           /\ SenderGives(i) = SenderHas(i) /\ SenderGives(i)' = 0
           /\ \/ refCount' = refCount /\ QueueHas(i)' = QueueHas(i)
              \/ AddRefCount(sender.info) /\ QueueHas(i)' = QueueHas(i) + SenderHas(i)
<1>1. UNCHANGED <<IoHas(i), WorkerHas(i), MapHas(i), DueHas(i), HeapHas(i), IoGives(i),
                   StillDueHas(i)>>
  BY DEF CoreSendPacket, IoHas, WorkerHas, MapHas, DueHas, HeapHas, IoGives, StillDueHas,
         StillDue, schedulerVars, rtVars
<1>2. sender.pc = "send" /\ sender.info \in Infos
  BY HeldAreInfos DEF CoreSendPacket
<1>3. sender'.info = sender.info /\ sender'.pc # "send"
  <2>1. sender \in [pc : SenderPcs, info : Infos \cup {None}]
    BY DEF Types, ThreadTypes
  <2> QED
    BY <2>1 DEF CoreSendPacket
<1>4. SenderHas(i)' = SenderHas(i) /\ SenderGives(i) = SenderHas(i) /\ SenderGives(i)' = 0
  BY <1>2, <1>3 DEF SenderHas, SenderGives, One
<1>5. \/ refCount' = refCount /\ queue' = queue
      \/ AddRefCount(sender.info) /\ queue' = Append(queue, sender.info)
  BY DEF CoreSendPacket
<1>6. Occurrences(Append(queue, sender.info), i) = Occurrences(queue, i) + One(sender.info = i)
  BY <1>2, Queued
<1> QED
  BY <1>1, <1>4, <1>5, <1>6 DEF QueueHas, SenderHas

LEMMA MovesSendSucceeds ==
    ASSUME RetransmissionAssumption, Types, PlaceInv, VersionInv, NEW i \in Infos, SendSucceeds
    PROVE  /\ UNCHANGED <<IoHas(i), WorkerHas(i), MapHas(i), QueueHas(i), DueHas(i),
                           HeapHas(i), SenderGives(i), IoGives(i), StillDueHas(i)>>
           /\ SenderHas(i)' = 0 /\ SenderHas(i) = One(sender.info = i)
BY HeldAreInfos, Bounds
   DEF SendSucceeds, SenderHas, IoHas, WorkerHas, MapHas, QueueHas, DueHas, HeapHas, SenderGives, IoGives, StillDueHas, StillDue, infoVars, otherInfoVars, sessionVars, schedulerVars, rtVars, Resting, One, PlaceInv, Types, ThreadTypes

LEMMA MovesSendFails ==
    ASSUME RetransmissionAssumption, Types, PlaceInv, VersionInv, NEW i \in Infos, SendFails
    PROVE  /\ UNCHANGED <<SenderHas(i), IoHas(i), WorkerHas(i), MapHas(i), QueueHas(i),
                           DueHas(i), HeapHas(i), SenderGives(i), IoGives(i), StillDueHas(i)>>
BY HeldAreInfos, Bounds
   DEF SendFails, SenderHas, IoHas, WorkerHas, MapHas, QueueHas, DueHas, HeapHas, SenderGives, IoGives, StillDueHas, StillDue, infoVars, otherInfoVars, sessionVars, schedulerVars, rtVars, Resting, One, PlaceInv, Types, ThreadTypes

LEMMA MovesMarkFailedErased ==
    ASSUME RetransmissionAssumption, Types, PlaceInv, VersionInv, NEW i \in Infos, MarkFailedErased
    PROVE  /\ UNCHANGED <<SenderHas(i), IoHas(i), WorkerHas(i), MapHas(i), QueueHas(i),
                           DueHas(i), HeapHas(i), SenderGives(i), IoGives(i), StillDueHas(i)>>
BY HeldAreInfos, Bounds
   DEF MarkFailedErased, SenderHas, IoHas, WorkerHas, MapHas, QueueHas, DueHas, HeapHas, SenderGives, IoGives, StillDueHas, StillDue, infoVars, otherInfoVars, sessionVars, schedulerVars, rtVars, Resting, One, PlaceInv, Types, ThreadTypes

LEMMA MovesEraseFailed ==
    ASSUME RetransmissionAssumption, Types, PlaceInv, VersionInv, NEW i \in Infos, EraseFailed
    PROVE  /\ UNCHANGED <<IoHas(i), WorkerHas(i), QueueHas(i), DueHas(i), HeapHas(i),
                           SenderGives(i), IoGives(i), StillDueHas(i)>>
           /\ SenderHas(i)' = 0
           /\ SenderHas(i) = 1 => MapHas(i)' = 0
           /\ SenderHas(i) = 0 => MapHas(i)' = MapHas(i)
BY HeldAreInfos, Bounds
   DEF EraseFailed, SenderHas, IoHas, WorkerHas, MapHas, QueueHas, DueHas, HeapHas, SenderGives, IoGives, StillDueHas, StillDue, infoVars, otherInfoVars, sessionVars, schedulerVars, rtVars, Resting, One, PlaceInv, Types, ThreadTypes

LEMMA MovesTryGetFrontAndPop ==
    ASSUME RetransmissionAssumption, Types, PlaceInv, VersionInv, NEW i \in Infos, TryGetFrontAndPop
    PROVE  /\ UNCHANGED <<SenderHas(i), WorkerHas(i), MapHas(i), DueHas(i), HeapHas(i),
                           SenderGives(i), StillDueHas(i)>>
           /\ IoHas(i) = 0 /\ IoGives(i) = 0 /\ IoGives(i)' = IoHas(i)'
           /\ QueueHas(i) = QueueHas(i)' + IoHas(i)'
BY HeldAreInfos, Bounds, FrontTaken
   DEF TryGetFrontAndPop, SenderHas, IoHas, WorkerHas, MapHas, QueueHas, DueHas, HeapHas, SenderGives, IoGives, StillDueHas, StillDue, infoVars, otherInfoVars, sessionVars, schedulerVars, rtVars, Resting, One, PlaceInv, Types, ThreadTypes

LEMMA MovesMarkSentForRttSample ==
    ASSUME RetransmissionAssumption, Types, PlaceInv, VersionInv, NEW i \in Infos, MarkSentForRttSample
    PROVE  /\ UNCHANGED <<SenderHas(i), WorkerHas(i), MapHas(i), QueueHas(i), DueHas(i),
                           HeapHas(i), SenderGives(i), StillDueHas(i)>>
           /\ IoGives(i) = IoHas(i)
           /\ \/ Free(io.info) /\ IoHas(i)' = 0 /\ IoGives(i)' = 0
              \/ refCount' = refCount /\ IoHas(i)' = IoHas(i) /\ IoGives(i)' = 0
              \/ refCount' = refCount /\ IoHas(i)' = IoHas(i) /\ IoGives(i)' = IoHas(i)
BY HeldAreInfos, Bounds
   DEF MarkSentForRttSample, SenderHas, IoHas, WorkerHas, MapHas, QueueHas, DueHas, HeapHas, SenderGives, IoGives, StillDueHas, StillDue, infoVars, otherInfoVars, sessionVars, schedulerVars, rtVars, Resting, One, PlaceInv, Types, ThreadTypes

LEMMA MovesPushRetransmissionSchedule ==
    ASSUME RetransmissionAssumption, Types, PlaceInv, VersionInv, NEW i \in Infos, PushRetransmissionSchedule
    PROVE  /\ UNCHANGED <<SenderHas(i), WorkerHas(i), MapHas(i), QueueHas(i), DueHas(i),
                           SenderGives(i), StillDueHas(i)>>
           /\ IoGives(i) = IoHas(i) /\ IoGives(i)' = 0
           /\ \/ Free(io.info) /\ IoHas(i)' = 0 /\ HeapHas(i)' = HeapHas(i)
              \/ AddRefCount(io.info) /\ IoHas(i)' = IoHas(i)
                     /\ HeapHas(i)' = HeapHas(i) + IoHas(i)
<1>1. UNCHANGED <<SenderHas(i), WorkerHas(i), MapHas(i), QueueHas(i), DueHas(i), SenderGives(i),
                   StillDueHas(i)>>
  BY DEF PushRetransmissionSchedule, SenderHas, WorkerHas, MapHas, QueueHas, DueHas, SenderGives,
         StillDueHas, StillDue, sessionVars, rtVars
<1>2. io.pc = "push" /\ IoGives(i) = IoHas(i)
  BY DEF PushRetransmissionSchedule, IoGives, IoHas
<1>3. io.info \in Infos /\ i # None
  BY HeldAreInfos, Bounds DEF PushRetransmissionSchedule
<1>4. CASE io.info \in erased /\ Free(io.info) /\ io' = Resting /\ UNCHANGED heap
  <2>1. IoHas(i)' = 0 /\ IoGives(i)' = 0 /\ HeapHas(i)' = HeapHas(i)
    BY <1>3, <1>4 DEF IoHas, IoGives, HeapHas, Resting, One
  <2> QED
    BY <1>1, <1>2, <1>4, <2>1
<1>5. CASE /\ AddRefCount(io.info) /\ io' = [io EXCEPT !.pc = "signal"]
           /\ \E deadline \in clock + 1 .. MaxClock :
                 heap' = heap \cup {[info |-> io.info, version |-> scheduleVersion[io.info] + 1,
                                     deadline |-> deadline]}
  <2>1. PICK deadline \in clock + 1 .. MaxClock :
            heap' = heap \cup {[info |-> io.info, version |-> scheduleVersion[io.info] + 1,
                                deadline |-> deadline]}
    BY <1>5
  <2> DEFINE e == [info |-> io.info, version |-> scheduleVersion[io.info] + 1,
                   deadline |-> deadline]
  <2>2. e.info = io.info /\ e.version = scheduleVersion[io.info] + 1 /\ heap' = heap \cup {e}
    BY <2>1
  <2> HIDE DEF e
  <2>3. Entries(heap', i) = Entries(heap, i) + One(io.info = i)
    BY <1>3, <2>2, Scheduled
  <2>4. io \in [pc : IoPcs, info : Infos \cup {None}]
    BY DEF Types, ThreadTypes
  <2>5. IoHas(i)' = IoHas(i) /\ IoGives(i)' = 0
    BY <1>5, <2>4 DEF IoHas, IoGives, One
  <2>6. HeapHas(i)' = HeapHas(i) + IoHas(i)
    BY <2>3 DEF HeapHas, IoHas
  <2> QED
    BY <1>1, <1>2, <1>5, <2>5, <2>6
<1> QED
  BY <1>4, <1>5 DEF PushRetransmissionSchedule

LEMMA MovesSignalRetransmissionWakeEvent ==
    ASSUME RetransmissionAssumption, Types, PlaceInv, VersionInv, NEW i \in Infos, SignalRetransmissionWakeEvent
    PROVE  /\ UNCHANGED <<SenderHas(i), IoHas(i), WorkerHas(i), MapHas(i), QueueHas(i),
                           DueHas(i), HeapHas(i), SenderGives(i), IoGives(i), StillDueHas(i)>>
BY HeldAreInfos, Bounds
   DEF SignalRetransmissionWakeEvent, SenderHas, IoHas, WorkerHas, MapHas, QueueHas, DueHas, HeapHas, SenderGives, IoGives, StillDueHas, StillDue, infoVars, otherInfoVars, sessionVars, schedulerVars, rtVars, Resting, One, PlaceInv, Types, ThreadTypes

LEMMA MovesTransmit ==
    ASSUME RetransmissionAssumption, Types, PlaceInv, VersionInv, NEW i \in Infos, Transmit
    PROVE  /\ UNCHANGED <<SenderHas(i), WorkerHas(i), MapHas(i), QueueHas(i), DueHas(i),
                           HeapHas(i), SenderGives(i), IoGives(i), StillDueHas(i)>>
           /\ IoHas(i)' = 0
BY HeldAreInfos, Bounds
   DEF Transmit, SenderHas, IoHas, WorkerHas, MapHas, QueueHas, DueHas, HeapHas, SenderGives, IoGives, StillDueHas, StillDue, infoVars, otherInfoVars, sessionVars, schedulerVars, rtVars, Resting, One, PlaceInv, Types, ThreadTypes

LEMMA MovesFindAndEraseSendPacketInfo ==
    ASSUME RetransmissionAssumption, Types, PlaceInv, VersionInv, NEW i \in Infos, NEW j \in Infos, FindAndEraseSendPacketInfo(j)
    PROVE  /\ UNCHANGED <<SenderHas(i), IoHas(i), QueueHas(i), DueHas(i), HeapHas(i),
                           SenderGives(i), IoGives(i), StillDueHas(i)>>
           /\ WorkerHas(i) = 0
           /\ MapHas(i) = MapHas(i)' + WorkerHas(i)'
BY HeldAreInfos, Bounds
   DEF FindAndEraseSendPacketInfo, SenderHas, IoHas, WorkerHas, MapHas, QueueHas, DueHas, HeapHas, SenderGives, IoGives, StillDueHas, StillDue, infoVars, otherInfoVars, sessionVars, schedulerVars, rtVars, Resting, One, PlaceInv, Types, ThreadTypes

LEMMA MovesMarkSendPacketInfoErased ==
    ASSUME RetransmissionAssumption, Types, PlaceInv, VersionInv, NEW i \in Infos, MarkSendPacketInfoErased
    PROVE  /\ UNCHANGED <<SenderHas(i), IoHas(i), WorkerHas(i), MapHas(i), QueueHas(i),
                           DueHas(i), HeapHas(i), SenderGives(i), IoGives(i), StillDueHas(i)>>
BY HeldAreInfos, Bounds
   DEF MarkSendPacketInfoErased, SenderHas, IoHas, WorkerHas, MapHas, QueueHas, DueHas, HeapHas, SenderGives, IoGives, StillDueHas, StillDue, infoVars, otherInfoVars, sessionVars, schedulerVars, rtVars, Resting, One, PlaceInv, Types, ThreadTypes

LEMMA MovesTryGetRttSample ==
    ASSUME RetransmissionAssumption, Types, PlaceInv, VersionInv, NEW i \in Infos, TryGetRttSample
    PROVE  /\ UNCHANGED <<SenderHas(i), IoHas(i), MapHas(i), QueueHas(i), DueHas(i),
                           HeapHas(i), SenderGives(i), IoGives(i), StillDueHas(i)>>
           /\ WorkerHas(i)' = 0
BY HeldAreInfos, Bounds
   DEF TryGetRttSample, SenderHas, IoHas, WorkerHas, MapHas, QueueHas, DueHas, HeapHas, SenderGives, IoGives, StillDueHas, StillDue, infoVars, otherInfoVars, sessionVars, schedulerVars, rtVars, Resting, One, PlaceInv, Types, ThreadTypes

LEMMA MovesWakeUp ==
    ASSUME RetransmissionAssumption, Types, PlaceInv, VersionInv, NEW i \in Infos, WakeUp
    PROVE  /\ UNCHANGED <<SenderHas(i), IoHas(i), WorkerHas(i), MapHas(i), QueueHas(i),
                           DueHas(i), HeapHas(i), SenderGives(i), IoGives(i), StillDueHas(i)>>
BY HeldAreInfos, Bounds
   DEF WakeUp, SenderHas, IoHas, WorkerHas, MapHas, QueueHas, DueHas, HeapHas, SenderGives, IoGives, StillDueHas, StillDue, infoVars, otherInfoVars, sessionVars, schedulerVars, rtVars, Resting, One, PlaceInv, Types, ThreadTypes

LEMMA MovesOtherDisconnects ==
    ASSUME RetransmissionAssumption, Types, PlaceInv, VersionInv, NEW i \in Infos, OtherDisconnects
    PROVE  /\ UNCHANGED <<SenderHas(i), IoHas(i), WorkerHas(i), MapHas(i), QueueHas(i),
                           DueHas(i), HeapHas(i), SenderGives(i), IoGives(i), StillDueHas(i)>>
BY HeldAreInfos, Bounds
   DEF OtherDisconnects, SenderHas, IoHas, WorkerHas, MapHas, QueueHas, DueHas, HeapHas, SenderGives, IoGives, StillDueHas, StillDue, infoVars, otherInfoVars, sessionVars, schedulerVars, rtVars, Resting, One, PlaceInv, Types, ThreadTypes

LEMMA MovesInitializeSession ==
    ASSUME RetransmissionAssumption, Types, PlaceInv, VersionInv, NEW i \in Infos, InitializeSession
    PROVE  /\ UNCHANGED <<SenderHas(i), IoHas(i), WorkerHas(i), MapHas(i), DueHas(i),
                           HeapHas(i), SenderGives(i), IoGives(i), StillDueHas(i)>>
           /\ QueueHas(i)' = 0
           /\ refCount'[i] = refCount[i] - QueueHas(i)
<1>1. UNCHANGED <<SenderHas(i), IoHas(i), WorkerHas(i), MapHas(i), DueHas(i), HeapHas(i),
                   SenderGives(i), IoGives(i), StillDueHas(i)>>
  BY DEF InitializeSession, SenderHas, IoHas, WorkerHas, MapHas, DueHas, HeapHas, SenderGives,
         IoGives, StillDueHas, StillDue, schedulerVars, rtVars
<1>2. QueueHas(i)' = 0
  BY OccurrencesEmpty DEF InitializeSession, QueueHas
<1>3. refCount' = [k \in Infos |-> refCount[k] - Occurrences(queue, k)]
  BY DEF InitializeSession, Occurrences
<1>4. refCount'[i] = refCount[i] - QueueHas(i)
  BY <1>3 DEF QueueHas
<1> QED
  BY <1>1, <1>2, <1>4

LEMMA MovesTryConnect ==
    ASSUME RetransmissionAssumption, Types, PlaceInv, VersionInv, NEW i \in Infos, TryConnect
    PROVE  /\ UNCHANGED <<SenderHas(i), IoHas(i), WorkerHas(i), MapHas(i), QueueHas(i),
                           DueHas(i), HeapHas(i), SenderGives(i), IoGives(i), StillDueHas(i)>>
BY HeldAreInfos, Bounds
   DEF TryConnect, SenderHas, IoHas, WorkerHas, MapHas, QueueHas, DueHas, HeapHas, SenderGives, IoGives, StillDueHas, StillDue, infoVars, otherInfoVars, sessionVars, schedulerVars, rtVars, Resting, One, PlaceInv, Types, ThreadTypes

LEMMA MovesClearSendPacketInfoMap ==
    ASSUME RetransmissionAssumption, Types, PlaceInv, VersionInv, NEW i \in Infos, NEW j \in Infos, ClearSendPacketInfoMap(j)
    PROVE  /\ UNCHANGED <<SenderHas(i), IoHas(i), WorkerHas(i), QueueHas(i), DueHas(i),
                           HeapHas(i), SenderGives(i), IoGives(i), StillDueHas(i)>>
           /\ MapHas(i) = MapHas(i)' + One(i = j)
BY HeldAreInfos, Bounds
   DEF ClearSendPacketInfoMap, SenderHas, IoHas, WorkerHas, MapHas, QueueHas, DueHas, HeapHas, SenderGives, IoGives, StillDueHas, StillDue, infoVars, otherInfoVars, sessionVars, schedulerVars, rtVars, Resting, One, PlaceInv, Types, ThreadTypes

LEMMA MovesTick ==
    ASSUME RetransmissionAssumption, Types, PlaceInv, VersionInv, NEW i \in Infos, Tick
    PROVE  /\ UNCHANGED <<SenderHas(i), IoHas(i), WorkerHas(i), MapHas(i), QueueHas(i),
                           DueHas(i), HeapHas(i), SenderGives(i), IoGives(i), StillDueHas(i)>>
BY HeldAreInfos, Bounds
   DEF Tick, SenderHas, IoHas, WorkerHas, MapHas, QueueHas, DueHas, HeapHas, SenderGives, IoGives, StillDueHas, StillDue, infoVars, otherInfoVars, sessionVars, schedulerVars, rtVars, Resting, One, PlaceInv, Types, ThreadTypes

\* Done with a due packet.
LEMMA MovesNextDue ==
    ASSUME Types, PlaceInv, rtPc \notin {"scan", "wait"}, NextDue, NEW i
    PROVE  /\ DueHas(i)' = DueHas(i) - One(Head(dueList) = i)
           /\ StillDueHas(i)' = DueHas(i)'
           /\ rtPc \in {"pushed", "disconnect"} => StillDueHas(i)' = StillDueHas(i)
           /\ rtPc \notin {"pushed", "disconnect"} =>
                  StillDueHas(i)' = StillDueHas(i) - One(Head(dueList) = i)
<1>1. rtPc' \in {"scan", "process"} /\ dueList' = Tail(dueList)
  BY DoneWithDue
<1>2. Occurrences(dueList, i) = Occurrences(Tail(dueList), i) + One(Head(dueList) = i)
  BY DueTaken
<1>3. Occurrences(dueList, i) \in Nat
  BY Counted
<1>4. Tail(dueList) \in Seq(Kept)
  BY DueTaken
<1>5. Occurrences(Tail(dueList), i) \in Nat
  BY <1>4, OccurrencesAre
<1>6. DueHas(i)' = DueHas(i) - One(Head(dueList) = i)
  BY <1>1, <1>2, <1>5 DEF DueHas, One
<1>7. StillDueHas(i)' = DueHas(i)'
  BY <1>1 DEF StillDueHas, StillDue, DueHas
<1>8. rtPc \in {"pushed", "disconnect"} => StillDueHas(i)' = StillDueHas(i)
  BY <1>1, <1>7 DEF StillDueHas, StillDue, DueHas
<1>9. rtPc \notin {"pushed", "disconnect"} => StillDueHas(i) = DueHas(i)
  BY DEF StillDueHas, StillDue, DueHas
<1> QED
  BY <1>6, <1>7, <1>8, <1>9

\* A due packet that is queued again, or whose owner is to be disconnected.
LEMMA StillDueIs ==
    ASSUME Types, PlaceInv, rtPc \notin {"scan", "wait"}, NEW i
    PROVE  /\ rtPc \notin {"pushed", "disconnect"} => StillDueHas(i) = DueHas(i)
           /\ rtPc \in {"pushed", "disconnect"} =>
                  StillDueHas(i) = DueHas(i) - One(Head(dueList) = i)
           /\ UNCHANGED dueList /\ rtPc' \in {"pushed", "disconnect"} =>
                  StillDueHas(i)' = DueHas(i) - One(Head(dueList) = i)
           /\ UNCHANGED dueList /\ rtPc' \notin {"pushed", "disconnect"} =>
                  StillDueHas(i)' = DueHas(i)
<1>1. Occurrences(dueList, i) = Occurrences(Tail(dueList), i) + One(Head(dueList) = i)
  BY DueTaken
<1>2. Tail(dueList) \in Seq(Kept)
  BY DueTaken
<1>3. Occurrences(Tail(dueList), i) \in Nat
  BY <1>2, OccurrencesAre
<1>4. Occurrences(Tail(dueList), i) = DueHas(i) - One(Head(dueList) = i)
  BY <1>1, <1>3 DEF DueHas, One
<1> QED
  BY <1>4 DEF StillDueHas, StillDue, DueHas

\* The step of the retransmission thread that keeps, queues or lets go of the packet.
LEMMA MovesDue ==
    ASSUME RetransmissionAssumption, Types, PlaceInv, NEW i \in Infos,
           ProcessRetransmission \/ CheckOwner \/ DisconnectOwner \/ PushAgain \/ PushedAgain
    PROVE  /\ UNCHANGED <<SenderHas(i), IoHas(i), WorkerHas(i), MapHas(i), HeapHas(i),
                          SenderGives(i), IoGives(i)>>
           /\ Head(dueList) \in Kept /\ DueHas(i) - One(Head(dueList) = i) \in Nat
           /\ \/ /\ refCount' = refCount /\ QueueHas(i)' = QueueHas(i) /\ DueHas(i)' = DueHas(i)
                 /\ StillDueHas(i)' <= StillDueHas(i)
              \/ /\ Free(Head(dueList)) /\ QueueHas(i)' = QueueHas(i)
                 /\ DueHas(i)' = DueHas(i) - One(Head(dueList) = i)
                 /\ StillDueHas(i)' <= StillDueHas(i)
              \/ /\ AddRefCount(Head(dueList)) /\ DueHas(i)' = DueHas(i)
                 /\ QueueHas(i)' = QueueHas(i) + One(Head(dueList) = i)
                 /\ StillDueHas(i)' = StillDueHas(i) - One(Head(dueList) = i)
<1>1. rtPc \notin {"scan", "wait"}
  BY DEF ProcessRetransmission, CheckOwner, DisconnectOwner, PushAgain, PushedAgain
<1>2. Head(dueList) \in Kept /\ Head(dueList) \in Infos
  BY <1>1, DueTaken, Bounds
<1>3. One(Head(dueList) = i) \in {0, 1}
  BY DEF One
<1>4. /\ DueHas(i) \in Nat
      /\ DueHas(i) - One(Head(dueList) = i) \in Nat
  <2>1. Tail(dueList) \in Seq(Kept)
    BY <1>1, DueTaken
  <2>2. Occurrences(Tail(dueList), i) \in Nat
    BY <2>1, OccurrencesAre
  <2>3. Occurrences(dueList, i) = Occurrences(Tail(dueList), i) + One(Head(dueList) = i)
    BY <1>1, DueTaken
  <2> QED
    BY <1>3, <2>2, <2>3 DEF DueHas
<1>5. UNCHANGED <<SenderHas(i), IoHas(i), WorkerHas(i), MapHas(i), HeapHas(i), SenderGives(i),
                  IoGives(i)>>
  <2>1. UNCHANGED <<sender, io, worker, sendPacketInfoMap, heap>>
    BY DEF ProcessRetransmission, CheckOwner, DisconnectOwner, PushAgain, PushedAgain,
           sessionVars, schedulerVars
  <2> QED
    BY <2>1 DEF SenderHas, IoHas, WorkerHas, MapHas, HeapHas, SenderGives, IoGives
<1>6. CASE NextDue /\ UNCHANGED queue
  <2>1. Free(Head(dueList)) /\ QueueHas(i)' = QueueHas(i)
    BY <1>6 DEF NextDue, QueueHas
  <2>2. DueHas(i)' = DueHas(i) - One(Head(dueList) = i) /\ StillDueHas(i)' <= StillDueHas(i)
    BY <1>1, <1>3, <1>4, <1>6, MovesNextDue, StillDueIs
  <2> QED
    BY <1>2, <1>4, <1>5, <2>1, <2>2
<1>7. CASE /\ UNCHANGED <<refCount, dueList, queue>> /\ rtPc' \notin {"scan", "wait"}
           /\ rtPc \in {"pushed", "disconnect"} => rtPc' \in {"pushed", "disconnect"}
  <2>1. refCount' = refCount /\ QueueHas(i)' = QueueHas(i) /\ DueHas(i)' = DueHas(i)
    BY <1>7 DEF QueueHas, DueHas
  <2>2. StillDueHas(i)' <= StillDueHas(i)
    BY <1>1, <1>3, <1>4, <1>7, StillDueIs
  <2> QED
    BY <1>2, <1>4, <1>5, <2>1, <2>2
<1>8. CASE /\ queue' = Append(queue, Head(dueList)) /\ AddRefCount(Head(dueList))
           /\ rtPc = "push" /\ rtPc' = "pushed" /\ UNCHANGED dueList
  <2>1. DueHas(i)' = DueHas(i)
    BY <1>8 DEF DueHas
  <2>2. QueueHas(i)' = QueueHas(i) + One(Head(dueList) = i)
    BY <1>2, <1>8, Queued DEF QueueHas
  <2>3. StillDueHas(i)' = StillDueHas(i) - One(Head(dueList) = i)
    BY <1>1, <1>8, StillDueIs
  <2> QED
    BY <1>2, <1>4, <1>5, <1>8, <2>1, <2>2, <2>3
<1>9. \/ NextDue /\ UNCHANGED queue
      \/ /\ UNCHANGED <<refCount, dueList, queue>> /\ rtPc' \notin {"scan", "wait"}
         /\ rtPc \in {"pushed", "disconnect"} => rtPc' \in {"pushed", "disconnect"}
      \/ /\ queue' = Append(queue, Head(dueList)) /\ AddRefCount(Head(dueList))
         /\ rtPc = "push" /\ rtPc' = "pushed" /\ UNCHANGED dueList
  BY DEF ProcessRetransmission, CheckOwner, DisconnectOwner, PushAgain, PushedAgain, sessionVars
<1> QED
  BY <1>6, <1>7, <1>8, <1>9

\* A scan.
LEMMA MovesScan ==
    ASSUME RetransmissionAssumption, Types, PlaceInv, NEW i \in Infos, Scan
    PROVE  /\ UNCHANGED <<SenderHas(i), IoHas(i), WorkerHas(i), MapHas(i), QueueHas(i),
                          SenderGives(i), IoGives(i)>>
           /\ DueHas(i) = 0 /\ StillDueHas(i) = 0 /\ StillDueHas(i)' = DueHas(i)'
           /\ Entries(Freed, i) \in Nat
           /\ HeapHas(i) = HeapHas(i)' + DueHas(i)' + Entries(Freed, i)
           /\ refCount'[i] = refCount[i] - Entries(Freed, i)
           /\ i \in canUseRttSample' => i \in canUseRttSample /\ DueHas(i)' = 0
<1>1. UNCHANGED <<SenderHas(i), IoHas(i), WorkerHas(i), MapHas(i), QueueHas(i), SenderGives(i),
                  IoGives(i)>>
  BY DEF Scan, SenderHas, IoHas, WorkerHas, MapHas, QueueHas, SenderGives, IoGives, sessionVars
<1>2. DueHas(i) = 0 /\ StillDueHas(i) = 0
  <2>1. dueList = <<>> /\ rtPc = "scan"
    BY Scanned DEF Scan
  <2> QED
    BY <2>1, OccurrencesEmpty DEF DueHas, StillDueHas, StillDue
<1>3. StillDueHas(i)' = DueHas(i)'
  <2>1. rtPc' \in {"wait", "process"}
    BY Scanned
  <2> QED
    BY <2>1 DEF DueHas, StillDueHas, StillDue
<1>4. /\ Entries(Freed, i) \in Nat
      /\ HeapHas(i) = HeapHas(i)' + DueHas(i)' + Entries(Freed, i)
  BY Scanned DEF HeapHas, DueHas
<1>5. refCount'[i] = refCount[i] - Entries(Freed, i)
  <2>1. refCount' = [k \in Infos |-> refCount[k] - Entries(Freed, k)]
    BY Scanned
  <2> QED
    BY <2>1
<1>6. i \in canUseRttSample' => i \in canUseRttSample /\ DueHas(i)' = 0
  BY Scanned DEF DueHas
<1> QED
  BY <1>1, <1>2, <1>3, <1>4, <1>5, <1>6

-----------------------------------------------------------------------------
(* The count is exact.                                                     *)

LEMMA NothingHeld ==
    ASSUME RetransmissionAssumption, Init, NEW i \in Infos
    PROVE  Holders(i) = 0
<1>1. i # None
  BY Bounds
<1>2. SenderHas(i) = 0 /\ IoHas(i) = 0 /\ WorkerHas(i) = 0 /\ MapHas(i) = 0
  BY <1>1 DEF Init, Resting, SenderHas, IoHas, WorkerHas, MapHas, One
<1>3. QueueHas(i) = 0 /\ DueHas(i) = 0 /\ HeapHas(i) = 0
  BY OccurrencesEmpty, EntriesAre, FS_EmptySet DEF Init, QueueHas, DueHas, HeapHas
<1> QED
  BY <1>2, <1>3, HoldersAre

LEMMA CountInitial == ASSUME RetransmissionAssumption, Init PROVE CountInv
BY NothingHeld DEF Init, CountInv, Exact

LEMMA CountStep ==
    ASSUME RetransmissionAssumption, Types, PlaceInv, VersionInv, CountInv, [Next]_vars, Types'
    PROVE  CountInv'
<1> SUFFICES ASSUME NEW i \in Infos PROVE Exact(i)'
  BY DEF CountInv, Infos
<1>1. refCount[i] = Holders(i) /\ (i > allocated => Holders(i) = 0 /\ transmissions[i] = 0)
  BY DEF CountInv, Exact
<1>2. /\ Holders(i) = SenderHas(i) + IoHas(i) + WorkerHas(i) + MapHas(i) + QueueHas(i)
                          + DueHas(i) + HeapHas(i)
      /\ Holders(i)' = SenderHas(i)' + IoHas(i)' + WorkerHas(i)' + MapHas(i)' + QueueHas(i)'
                          + DueHas(i)' + HeapHas(i)'
  BY HoldersAre
<1>3. /\ SenderHas(i) \in {0, 1} /\ IoHas(i) \in {0, 1} /\ WorkerHas(i) \in {0, 1}
      /\ MapHas(i) \in {0, 1} /\ QueueHas(i) \in Nat /\ DueHas(i) \in Nat /\ HeapHas(i) \in Nat
  BY HasTypes
<1>4. /\ SenderHas(i)' \in {0, 1} /\ IoHas(i)' \in {0, 1} /\ WorkerHas(i)' \in {0, 1}
      /\ MapHas(i)' \in {0, 1} /\ QueueHas(i)' \in Nat /\ DueHas(i)' \in Nat /\ HeapHas(i)' \in Nat
  BY HasTypesNext
<1>5. \A x \in Infos : /\ Free(x) => refCount'[i] = refCount[i] - One(x = i)
                       /\ AddRefCount(x) => refCount'[i] = refCount[i] + One(x = i)
  BY DEF Types, CountTypes, Free, AddRefCount, One
<1>6. /\ sender.pc # "idle" => sender.info \in Infos
      /\ io.pc # "idle" => io.info \in Infos
      /\ worker.pc # "idle" => worker.info \in Infos
  BY HeldAreInfos
<1>7. allocated \in Nat /\ i \in Nat
  BY Bounds DEF Types, InfoTypes
<1>8. /\ SenderHas(i) = One(sender.info = i) /\ IoHas(i) = One(io.info = i)
      /\ WorkerHas(i) = One(worker.info = i)
  BY DEF SenderHas, IoHas, WorkerHas
<1>9. \A c : One(c) \in {0, 1}
  BY DEF One
<1>10. CASE Allocate
  <2>1. allocated' = allocated + 1 /\ transmissions' = transmissions
    BY <1>10 DEF Allocate, infoVars, otherInfoVars, sessionVars, schedulerVars, rtVars
  <2>2. refCount'[i] = IF i # allocated + 1 THEN refCount[i] ELSE IF i \in Replies THEN 1 ELSE 2
    BY <1>10, <1>7 DEF Allocate, infoVars, otherInfoVars, sessionVars, schedulerVars, rtVars, Types, CountTypes
  <2> QED
    BY <1>1, <1>2, <1>3, <1>4, <1>7, <1>9, <1>10, <2>1, <2>2, MovesAllocate DEF Exact, One
<1>11. CASE CoreSendPacket
  <2>1. allocated' = allocated /\ transmissions' = transmissions
    BY <1>11 DEF CoreSendPacket, infoVars, otherInfoVars, sessionVars, schedulerVars, rtVars
  <2>2. AddRefCount(sender.info) => refCount'[i] = refCount[i] + SenderHas(i)
    BY <1>11, <1>5, <1>6, <1>8 DEF CoreSendPacket, infoVars, otherInfoVars, sessionVars, schedulerVars, rtVars
  <2>3. UNCHANGED <<SenderHas(i), IoHas(i), WorkerHas(i), MapHas(i), DueHas(i), HeapHas(i)>>
    BY <1>11, MovesCoreSendPacket
  <2>4. \/ refCount'[i] = refCount[i] /\ QueueHas(i)' = QueueHas(i)
        \/ refCount'[i] = refCount[i] + SenderHas(i) /\ QueueHas(i)' = QueueHas(i) + SenderHas(i)
    BY <1>11, <2>2, MovesCoreSendPacket
  <2> QED
    BY <1>1, <1>2, <1>3, <2>1, <2>3, <2>4 DEF Exact
<1>12. CASE SendSucceeds
  <2>1. allocated' = allocated /\ transmissions' = transmissions
    BY <1>12 DEF SendSucceeds, infoVars, otherInfoVars, sessionVars, schedulerVars, rtVars
  <2>2. refCount'[i] = refCount[i] - SenderHas(i)
    BY <1>12, <1>5, <1>6, <1>8 DEF SendSucceeds, infoVars, otherInfoVars, sessionVars, schedulerVars, rtVars
  <2> QED
    BY <1>1, <1>2, <1>3, <1>4, <1>7, <1>9, <1>12, <2>1, <2>2, MovesSendSucceeds DEF Exact
<1>13. CASE SendFails
  <2>1. allocated' = allocated /\ transmissions' = transmissions
    BY <1>13 DEF SendFails, infoVars, otherInfoVars, sessionVars, schedulerVars, rtVars
  <2>2. refCount'[i] = refCount[i]
    BY <1>13 DEF SendFails, infoVars, otherInfoVars, sessionVars, schedulerVars, rtVars
  <2> QED
    BY <1>1, <1>2, <1>3, <1>4, <1>7, <1>9, <1>13, <2>1, <2>2, MovesSendFails DEF Exact
<1>14. CASE MarkFailedErased
  <2>1. allocated' = allocated /\ transmissions' = transmissions
    BY <1>14 DEF MarkFailedErased, infoVars, otherInfoVars, sessionVars, schedulerVars, rtVars
  <2>2. refCount'[i] = refCount[i]
    BY <1>14 DEF MarkFailedErased, infoVars, otherInfoVars, sessionVars, schedulerVars, rtVars
  <2> QED
    BY <1>1, <1>2, <1>3, <1>4, <1>7, <1>9, <1>14, <2>1, <2>2, MovesMarkFailedErased DEF Exact
<1>15. CASE EraseFailed
  <2>1. allocated' = allocated /\ transmissions' = transmissions
    BY <1>15 DEF EraseFailed, infoVars, otherInfoVars, sessionVars, schedulerVars, rtVars
  <2>2. refCount'[i] = refCount[i] - SenderHas(i) * (1 + MapHas(i))
    BY <1>15, <1>6, <1>8 DEF EraseFailed, infoVars, otherInfoVars, sessionVars, schedulerVars, rtVars, Types, CountTypes, MapHas, One, DoDisconnect
  <2> QED
    BY <1>1, <1>2, <1>3, <1>4, <1>7, <1>9, <1>15, <2>1, <2>2, MovesEraseFailed DEF Exact
<1>16. CASE TryGetFrontAndPop
  <2>1. allocated' = allocated /\ transmissions' = transmissions
    BY <1>16 DEF TryGetFrontAndPop, infoVars, otherInfoVars, sessionVars, schedulerVars, rtVars
  <2>2. refCount'[i] = refCount[i]
    BY <1>16 DEF TryGetFrontAndPop, infoVars, otherInfoVars, sessionVars, schedulerVars, rtVars
  <2> QED
    BY <1>1, <1>2, <1>3, <1>4, <1>7, <1>9, <1>16, <2>1, <2>2, MovesTryGetFrontAndPop DEF Exact
<1>17. CASE MarkSentForRttSample
  <2>1. allocated' = allocated /\ transmissions' = transmissions
    BY <1>17 DEF MarkSentForRttSample, infoVars, otherInfoVars, sessionVars, schedulerVars, rtVars
  <2>2. Free(io.info) => refCount'[i] = refCount[i] - IoHas(i)
    BY <1>17, <1>5, <1>6, <1>8 DEF MarkSentForRttSample, infoVars, otherInfoVars, sessionVars, schedulerVars, rtVars
  <2> QED
    BY <1>1, <1>2, <1>3, <1>4, <1>7, <1>9, <1>17, <2>1, <2>2, MovesMarkSentForRttSample DEF Exact
<1>18. CASE PushRetransmissionSchedule
  <2>1. allocated' = allocated /\ transmissions' = transmissions
    BY <1>18 DEF PushRetransmissionSchedule, infoVars, otherInfoVars, sessionVars, schedulerVars, rtVars
  <2>2. /\ Free(io.info) => refCount'[i] = refCount[i] - IoHas(i)
        /\ AddRefCount(io.info) => refCount'[i] = refCount[i] + IoHas(i)
    BY <1>18, <1>5, <1>6, <1>8 DEF PushRetransmissionSchedule, infoVars, otherInfoVars, sessionVars, schedulerVars, rtVars
  <2> QED
    BY <1>1, <1>2, <1>3, <1>4, <1>7, <1>9, <1>18, <2>1, <2>2, MovesPushRetransmissionSchedule DEF Exact
<1>19. CASE SignalRetransmissionWakeEvent
  <2>1. allocated' = allocated /\ transmissions' = transmissions
    BY <1>19 DEF SignalRetransmissionWakeEvent, infoVars, otherInfoVars, sessionVars, schedulerVars, rtVars
  <2>2. refCount'[i] = refCount[i]
    BY <1>19 DEF SignalRetransmissionWakeEvent, infoVars, otherInfoVars, sessionVars, schedulerVars, rtVars
  <2> QED
    BY <1>1, <1>2, <1>3, <1>4, <1>7, <1>9, <1>19, <2>1, <2>2, MovesSignalRetransmissionWakeEvent DEF Exact
<1>20. CASE Transmit
  <2>1. allocated' = allocated /\ (IoHas(i) = 0 => transmissions'[i] = transmissions[i])
    BY <1>20, <1>6, <1>8 DEF Transmit, Types, CountTypes, One
  <2>2. refCount'[i] = refCount[i] - IoHas(i)
    BY <1>20, <1>5, <1>6, <1>8 DEF Transmit, infoVars, otherInfoVars, sessionVars, schedulerVars, rtVars
  <2>3. /\ UNCHANGED <<SenderHas(i), WorkerHas(i), MapHas(i), QueueHas(i), DueHas(i), HeapHas(i)>>
        /\ IoHas(i)' = 0
    BY <1>20, MovesTransmit
  <2>4. refCount'[i] = Holders(i)'
    BY <1>1, <1>2, <1>3, <2>2, <2>3
  <2>5. Holders(i) = 0 => Holders(i)' = 0 /\ IoHas(i) = 0
    BY <1>2, <1>3, <2>3
  <2> QED
    BY <1>1, <2>1, <2>4, <2>5 DEF Exact
<1>21. ASSUME NEW j \in Infos, FindAndEraseSendPacketInfo(j) PROVE Exact(i)'
  <2>1. allocated' = allocated /\ transmissions' = transmissions
    BY <1>21 DEF FindAndEraseSendPacketInfo, infoVars, otherInfoVars, sessionVars, schedulerVars, rtVars
  <2>2. refCount'[i] = refCount[i]
    BY <1>21 DEF FindAndEraseSendPacketInfo, infoVars, otherInfoVars, sessionVars, schedulerVars, rtVars
  <2> QED
    BY <1>1, <1>2, <1>3, <1>4, <1>7, <1>9, <1>21, <2>1, <2>2, MovesFindAndEraseSendPacketInfo DEF Exact
<1>22. CASE MarkSendPacketInfoErased
  <2>1. allocated' = allocated /\ transmissions' = transmissions
    BY <1>22 DEF MarkSendPacketInfoErased, infoVars, otherInfoVars, sessionVars, schedulerVars, rtVars
  <2>2. refCount'[i] = refCount[i]
    BY <1>22 DEF MarkSendPacketInfoErased, infoVars, otherInfoVars, sessionVars, schedulerVars, rtVars
  <2> QED
    BY <1>1, <1>2, <1>3, <1>4, <1>7, <1>9, <1>22, <2>1, <2>2, MovesMarkSendPacketInfoErased DEF Exact
<1>23. CASE TryGetRttSample
  <2>1. allocated' = allocated /\ transmissions' = transmissions
    BY <1>23 DEF TryGetRttSample, infoVars, otherInfoVars, sessionVars, schedulerVars, rtVars
  <2>2. refCount'[i] = refCount[i] - WorkerHas(i)
    BY <1>23, <1>5, <1>6, <1>8 DEF TryGetRttSample, infoVars, otherInfoVars, sessionVars, schedulerVars, rtVars
  <2> QED
    BY <1>1, <1>2, <1>3, <1>4, <1>7, <1>9, <1>23, <2>1, <2>2, MovesTryGetRttSample DEF Exact
<1>24. CASE Scan
  <2>1. allocated' = allocated /\ transmissions' = transmissions
    BY <1>24 DEF Scan, infoVars, otherInfoVars, sessionVars, schedulerVars, rtVars
  <2>2. UNCHANGED <<SenderHas(i), IoHas(i), WorkerHas(i), MapHas(i), QueueHas(i)>>
    BY <1>24, MovesScan
  <2>3. /\ DueHas(i) = 0 /\ HeapHas(i) = HeapHas(i)' + DueHas(i)' + Entries(Freed, i)
        /\ Entries(Freed, i) \in Nat /\ refCount'[i] = refCount[i] - Entries(Freed, i)
    BY <1>24, MovesScan
  <2>4. refCount'[i] = Holders(i)'
    BY <1>1, <1>2, <1>3, <1>4, <2>2, <2>3
  <2>5. Holders(i) = 0 => Holders(i)' = 0
    <3>1. HeapHas(i)' \in Nat /\ DueHas(i)' \in Nat
      BY <1>4
    <3>2. HeapHas(i) = 0 => HeapHas(i)' = 0 /\ DueHas(i)' = 0
      BY <2>3, <3>1
    <3>3. Holders(i) = 0 => /\ SenderHas(i) = 0 /\ IoHas(i) = 0 /\ WorkerHas(i) = 0
                            /\ MapHas(i) = 0 /\ QueueHas(i) = 0 /\ HeapHas(i) = 0
      BY HeldByNone
    <3> QED
      BY <1>2, <2>2, <3>2, <3>3
  <2> QED
    BY <1>1, <2>1, <2>4, <2>5 DEF Exact
<1>25. CASE WakeUp
  <2>1. allocated' = allocated /\ transmissions' = transmissions
    BY <1>25 DEF WakeUp, infoVars, otherInfoVars, sessionVars, schedulerVars, rtVars
  <2>2. refCount'[i] = refCount[i]
    BY <1>25 DEF WakeUp, infoVars, otherInfoVars, sessionVars, schedulerVars, rtVars
  <2> QED
    BY <1>1, <1>2, <1>3, <1>4, <1>7, <1>9, <1>25, <2>1, <2>2, MovesWakeUp DEF Exact
<1>26. CASE ProcessRetransmission \/ CheckOwner \/ DisconnectOwner \/ PushAgain \/ PushedAgain
  <2>1. allocated' = allocated /\ transmissions' = transmissions
    BY <1>26 DEF ProcessRetransmission, CheckOwner, DisconnectOwner, PushAgain, PushedAgain,
                 otherInfoVars
  <2>2. Head(dueList) \in Infos
    BY <1>26, MovesDue, Bounds
  <2>3. /\ UNCHANGED <<SenderHas(i), IoHas(i), WorkerHas(i), MapHas(i), HeapHas(i)>>
        /\ \/ /\ refCount' = refCount /\ QueueHas(i)' = QueueHas(i) /\ DueHas(i)' = DueHas(i)
           \/ /\ Free(Head(dueList)) /\ QueueHas(i)' = QueueHas(i)
              /\ DueHas(i)' = DueHas(i) - One(Head(dueList) = i)
           \/ /\ AddRefCount(Head(dueList)) /\ DueHas(i)' = DueHas(i)
              /\ QueueHas(i)' = QueueHas(i) + One(Head(dueList) = i)
        /\ DueHas(i) - One(Head(dueList) = i) \in Nat
    BY <1>26, MovesDue
  <2> QED
    BY <1>1, <1>2, <1>3, <1>5, <1>9, <2>1, <2>2, <2>3 DEF Exact
<1>27. CASE OtherDisconnects
  <2>1. allocated' = allocated /\ transmissions' = transmissions
    BY <1>27 DEF OtherDisconnects, infoVars, otherInfoVars, sessionVars, schedulerVars, rtVars
  <2>2. refCount'[i] = refCount[i]
    BY <1>27 DEF OtherDisconnects, infoVars, otherInfoVars, sessionVars, schedulerVars, rtVars
  <2> QED
    BY <1>1, <1>2, <1>3, <1>4, <1>7, <1>9, <1>27, <2>1, <2>2, MovesOtherDisconnects DEF Exact
<1>28. CASE InitializeSession
  <2>1. allocated' = allocated /\ transmissions' = transmissions
    BY <1>28 DEF InitializeSession, infoVars, otherInfoVars, sessionVars, schedulerVars, rtVars
  <2>2. UNCHANGED <<SenderHas(i), IoHas(i), WorkerHas(i), MapHas(i), DueHas(i), HeapHas(i)>>
    BY <1>28, MovesInitializeSession
  <2>3. QueueHas(i)' = 0 /\ refCount'[i] = refCount[i] - QueueHas(i)
    BY <1>28, MovesInitializeSession
  <2> QED
    BY <1>1, <1>2, <1>3, <2>1, <2>2, <2>3 DEF Exact
<1>29. CASE TryConnect
  <2>1. allocated' = allocated /\ transmissions' = transmissions
    BY <1>29 DEF TryConnect, infoVars, otherInfoVars, sessionVars, schedulerVars, rtVars
  <2>2. refCount'[i] = refCount[i]
    BY <1>29 DEF TryConnect, infoVars, otherInfoVars, sessionVars, schedulerVars, rtVars
  <2> QED
    BY <1>1, <1>2, <1>3, <1>4, <1>7, <1>9, <1>29, <2>1, <2>2, MovesTryConnect DEF Exact
<1>30. ASSUME NEW j \in Infos, ClearSendPacketInfoMap(j) PROVE Exact(i)'
  <2>1. allocated' = allocated /\ transmissions' = transmissions
    BY <1>30 DEF ClearSendPacketInfoMap, infoVars, otherInfoVars, sessionVars, schedulerVars, rtVars
  <2>2. refCount'[i] = refCount[i] - One(i = j)
    BY <1>30, <1>5 DEF ClearSendPacketInfoMap, infoVars, otherInfoVars, sessionVars, schedulerVars, rtVars, One
  <2> QED
    BY <1>1, <1>2, <1>3, <1>4, <1>7, <1>9, <1>30, <2>1, <2>2, MovesClearSendPacketInfoMap DEF Exact, One
<1>31. CASE Tick
  <2>1. allocated' = allocated /\ transmissions' = transmissions
    BY <1>31 DEF Tick, infoVars, otherInfoVars, sessionVars, schedulerVars, rtVars
  <2>2. refCount'[i] = refCount[i]
    BY <1>31 DEF Tick, infoVars, otherInfoVars, sessionVars, schedulerVars, rtVars
  <2> QED
    BY <1>1, <1>2, <1>3, <1>4, <1>7, <1>9, <1>31, <2>1, <2>2, MovesTick DEF Exact
<1>32. CASE UNCHANGED vars
  <2>1. UNCHANGED <<SenderHas(i), IoHas(i), WorkerHas(i), MapHas(i), QueueHas(i), DueHas(i),
                    HeapHas(i), refCount, allocated, transmissions>>
    BY <1>32 DEF vars, infoVars, otherInfoVars, sessionVars, schedulerVars, rtVars, SenderHas, IoHas, WorkerHas, MapHas, QueueHas, DueHas, HeapHas
  <2> QED
    BY <1>1, <1>2, <2>1 DEF Exact
<1> QED
  BY NextCases, <1>10, <1>11, <1>12, <1>13, <1>14, <1>15, <1>16, <1>17, <1>18, <1>19, <1>20, <1>21, <1>22, <1>23, <1>24, <1>25, <1>26, <1>27, <1>28, <1>29, <1>30, <1>31, <1>32

-----------------------------------------------------------------------------
(* One copy at a time.                                                     *)

LEMMA CopyInitial == ASSUME RetransmissionAssumption, Init PROVE CopyInv
<1>1. ASSUME NEW i \in Infos PROVE Single(i)
  <2>1. SenderGives(i) = 0 /\ IoGives(i) = 0
    BY DEF Init, Resting, SenderGives, IoGives, One
  <2>2. QueueHas(i) = 0 /\ StillDueHas(i) = 0 /\ HeapHas(i) = 0
    BY OccurrencesEmpty, EntriesAre, FS_EmptySet
       DEF Init, QueueHas, StillDueHas, StillDue, HeapHas
  <2> QED
    BY <2>1, <2>2 DEF Single
<1> QED
  BY <1>1 DEF CopyInv

LEMMA StillDueNext == ASSUME Types', PlaceInv', NEW i PROVE StillDueHas(i)' \in Int
<1>1. CASE rtPc' \in {"pushed", "disconnect"}
  <2>1. dueList' \in Seq(Kept) /\ dueList' # <<>>
    BY <1>1 DEF Types, RtTypes, PlaceInv
  <2>2. Tail(dueList') \in Seq(Kept)
    BY <2>1
  <2>3. Occurrences(Tail(dueList'), i) \in Nat
    BY <2>2, OccurrencesAre
  <2> QED
    BY <1>1, <2>3 DEF StillDueHas, StillDue
<1>2. CASE rtPc' \notin {"pushed", "disconnect"}
  BY <1>2, CountedNext DEF StillDueHas, StillDue
<1> QED
  BY <1>1, <1>2

LEMMA CopyStep ==
    ASSUME RetransmissionAssumption, Types, PlaceInv, VersionInv, CountInv, CopyInv, [Next]_vars,
           Types', PlaceInv'
    PROVE  CopyInv'
<1> SUFFICES ASSUME NEW i \in Infos PROVE Single(i)'
  BY DEF CopyInv, Infos
<1>1. SenderGives(i) + IoGives(i) + QueueHas(i) + StillDueHas(i) + HeapHas(i) <= 1
  BY DEF CopyInv, Single
<1>2. /\ SenderGives(i) \in {0, 1} /\ IoGives(i) \in {0, 1} /\ SenderHas(i) \in {0, 1}
      /\ IoHas(i) \in {0, 1} /\ QueueHas(i) \in Nat /\ HeapHas(i) \in Nat
  BY HasTypes
<1>3. /\ SenderGives(i)' \in {0, 1} /\ IoGives(i)' \in {0, 1} /\ SenderHas(i)' \in {0, 1}
      /\ IoHas(i)' \in {0, 1} /\ QueueHas(i)' \in Nat /\ HeapHas(i)' \in Nat /\ DueHas(i)' \in Nat
  BY HasTypesNext
<1>4. StillDueHas(i) \in Nat /\ StillDueHas(i) <= DueHas(i) /\ DueHas(i) \in Nat
  BY StillDueTypes, HasTypes
<1>5. ASSUME /\ SenderGives(i)' <= SenderGives(i) /\ IoGives(i)' <= IoGives(i)
             /\ QueueHas(i)' <= QueueHas(i) /\ StillDueHas(i)' <= StillDueHas(i)
             /\ HeapHas(i)' <= HeapHas(i) /\ StillDueHas(i)' \in Int
      PROVE  Single(i)'
  BY <1>1, <1>2, <1>3, <1>4, <1>5 DEF Single
<1>6. CASE Allocate
  <2>1. UNCHANGED <<IoGives(i), QueueHas(i), StillDueHas(i), HeapHas(i)>>
    BY <1>6, MovesAllocate
  <2>2. SenderGives(i)' = One(i = allocated + 1)
    BY <1>6, MovesAllocate
  <2>3. CASE i # allocated + 1
    BY <1>1, <1>2, <1>4, <2>1, <2>2, <2>3 DEF Single, One
  <2>4. CASE i = allocated + 1
    <3>1. Holders(i) = 0
      BY <2>4 , Bounds DEF CountInv, Exact, Types, InfoTypes
    <3>2. QueueHas(i) = 0 /\ DueHas(i) = 0 /\ HeapHas(i) = 0 /\ IoHas(i) = 0
      BY <3>1, HeldByNone
    <3>3. StillDueHas(i) = 0 /\ IoGives(i) = 0
      BY <1>4, <3>2 DEF IoGives, IoHas, One
    <3> QED
      BY <2>1, <2>2, <2>4, <3>2, <3>3 DEF Single, One
  <2> QED
    BY <2>3, <2>4
<1>7. CASE CoreSendPacket
  <2>1. UNCHANGED <<IoGives(i), StillDueHas(i), HeapHas(i)>>
    BY <1>7, MovesCoreSendPacket
  <2>2. /\ SenderGives(i) = SenderHas(i) /\ SenderGives(i)' = 0
        /\ QueueHas(i)' = QueueHas(i) \/ QueueHas(i)' = QueueHas(i) + SenderHas(i)
    BY <1>7, MovesCoreSendPacket
  <2> QED
    BY <1>1, <1>2, <1>4, <2>1, <2>2 DEF Single
<1>8. CASE SendSucceeds
  BY <1>2, <1>4, <1>5, <1>8, MovesSendSucceeds
<1>9. CASE SendFails
  BY <1>2, <1>4, <1>5, <1>9, MovesSendFails
<1>10. CASE MarkFailedErased
  BY <1>2, <1>4, <1>5, <1>10, MovesMarkFailedErased
<1>11. CASE EraseFailed
  BY <1>2, <1>4, <1>5, <1>11, MovesEraseFailed
<1>12. CASE TryGetFrontAndPop
  <2>1. UNCHANGED <<SenderGives(i), StillDueHas(i), HeapHas(i)>>
    BY <1>12, MovesTryGetFrontAndPop
  <2>2. IoGives(i) = 0 /\ IoGives(i)' = IoHas(i)' /\ QueueHas(i) = QueueHas(i)' + IoHas(i)'
    BY <1>12, MovesTryGetFrontAndPop
  <2> QED
    BY <1>1, <1>2, <1>3, <1>4, <2>1, <2>2 DEF Single
<1>13. CASE MarkSentForRttSample
  BY <1>2, <1>4, <1>5, <1>13, MovesMarkSentForRttSample
<1>14. CASE PushRetransmissionSchedule
  <2>1. UNCHANGED <<SenderGives(i), QueueHas(i), StillDueHas(i)>>
    BY <1>14, MovesPushRetransmissionSchedule
  <2>2. /\ IoGives(i) = IoHas(i) /\ IoGives(i)' = 0
        /\ HeapHas(i)' = HeapHas(i) \/ HeapHas(i)' = HeapHas(i) + IoHas(i)
    BY <1>14, MovesPushRetransmissionSchedule
  <2> QED
    BY <1>1, <1>2, <1>4, <2>1, <2>2 DEF Single
<1>15. CASE SignalRetransmissionWakeEvent
  BY <1>2, <1>4, <1>5, <1>15, MovesSignalRetransmissionWakeEvent
<1>16. CASE Transmit
  BY <1>2, <1>4, <1>5, <1>16, MovesTransmit
<1>17. ASSUME NEW j \in Infos, FindAndEraseSendPacketInfo(j) PROVE Single(i)'
  BY <1>2, <1>4, <1>5, <1>17, MovesFindAndEraseSendPacketInfo
<1>18. CASE MarkSendPacketInfoErased
  BY <1>2, <1>4, <1>5, <1>18, MovesMarkSendPacketInfoErased
<1>19. CASE TryGetRttSample
  BY <1>2, <1>4, <1>5, <1>19, MovesTryGetRttSample
<1>20. CASE Scan
  <2>1. UNCHANGED <<SenderGives(i), IoGives(i), QueueHas(i)>>
    BY <1>20, MovesScan
  <2>2. /\ StillDueHas(i) = 0 /\ StillDueHas(i)' = DueHas(i)' /\ Entries(Freed, i) \in Nat
        /\ HeapHas(i) = HeapHas(i)' + DueHas(i)' + Entries(Freed, i)
    BY <1>20, MovesScan
  <2>3. HeapHas(i)' + DueHas(i)' <= HeapHas(i)
    BY <1>3, <2>2
  <2> QED
    BY <1>1, <1>2, <1>3, <2>1, <2>2, <2>3 DEF Single
<1>21. CASE WakeUp
  BY <1>2, <1>4, <1>5, <1>21, MovesWakeUp
<1>22. CASE ProcessRetransmission \/ CheckOwner \/ DisconnectOwner \/ PushAgain \/ PushedAgain
  <2>1. UNCHANGED <<SenderGives(i), IoGives(i), HeapHas(i)>>
    BY <1>22, MovesDue
  <2>2. \/ QueueHas(i)' = QueueHas(i) /\ StillDueHas(i)' <= StillDueHas(i)
        \/ /\ QueueHas(i)' = QueueHas(i) + One(Head(dueList) = i)
           /\ StillDueHas(i)' = StillDueHas(i) - One(Head(dueList) = i)
    BY <1>22, MovesDue
  <2>3. One(Head(dueList) = i) \in {0, 1} /\ StillDueHas(i)' \in Int
    BY StillDueNext DEF One
  <2> QED
    BY <1>1, <1>2, <1>4, <2>1, <2>2, <2>3 DEF Single
<1>23. CASE OtherDisconnects
  BY <1>2, <1>4, <1>5, <1>23, MovesOtherDisconnects
<1>24. CASE InitializeSession
  BY <1>2, <1>4, <1>5, <1>24, MovesInitializeSession
<1>25. CASE TryConnect
  BY <1>2, <1>4, <1>5, <1>25, MovesTryConnect
<1>26. ASSUME NEW j \in Infos, ClearSendPacketInfoMap(j) PROVE Single(i)'
  BY <1>2, <1>4, <1>5, <1>26, MovesClearSendPacketInfoMap
<1>27. CASE Tick
  BY <1>2, <1>4, <1>5, <1>27, MovesTick
<1>28. CASE UNCHANGED vars
  <2>1. UNCHANGED <<SenderGives(i), IoGives(i), QueueHas(i), StillDueHas(i), HeapHas(i)>>
    BY <1>28 DEF vars, sessionVars, schedulerVars, rtVars, SenderGives, IoGives, QueueHas,
               StillDueHas, StillDue, HeapHas
  <2> QED
    BY <1>1, <2>1 DEF Single
<1> QED
  BY NextCases, <1>6, <1>7, <1>8, <1>9, <1>10, <1>11, <1>12, <1>13, <1>14, <1>15, <1>16, <1>17, <1>18, <1>19, <1>20, <1>21, <1>22, <1>23, <1>24, <1>25, <1>26, <1>27, <1>28

-----------------------------------------------------------------------------
(* No deadline is waited past.                                             *)

\* Acknowledgements stay, and transmissions only add up.
LEMMA Grows ==
    ASSUME RetransmissionAssumption, Types, [Next]_vars
    PROVE  /\ erased \subseteq erased'
           /\ \A i \in Infos : transmissions'[i] >= transmissions[i]
<1>1. erased \subseteq erased'
  BY NextCases
     DEF Allocate, CoreSendPacket, SendSucceeds, SendFails, MarkFailedErased, EraseFailed,
         TryGetFrontAndPop, MarkSentForRttSample, PushRetransmissionSchedule,
         SignalRetransmissionWakeEvent, Transmit, FindAndEraseSendPacketInfo,
         MarkSendPacketInfoErased, TryGetRttSample, Scan, WakeUp, ProcessRetransmission,
         CheckOwner, DisconnectOwner, PushAgain, PushedAgain, OtherDisconnects,
         InitializeSession, TryConnect, ClearSendPacketInfoMap, Tick, vars, infoVars
<1>2. \/ transmissions' = transmissions
      \/ transmissions' = [transmissions EXCEPT ![io.info] = @ + 1]
  BY NextCases
     DEF Allocate, CoreSendPacket, SendSucceeds, SendFails, MarkFailedErased, EraseFailed,
         TryGetFrontAndPop, MarkSentForRttSample, PushRetransmissionSchedule,
         SignalRetransmissionWakeEvent, Transmit, FindAndEraseSendPacketInfo,
         MarkSendPacketInfoErased, TryGetRttSample, Scan, WakeUp, ProcessRetransmission,
         CheckOwner, DisconnectOwner, PushAgain, PushedAgain, OtherDisconnects,
         InitializeSession, TryConnect, ClearSendPacketInfoMap, Tick, vars, infoVars,
         otherInfoVars
<1>3. transmissions \in [Infos -> Nat]
  BY DEF Types, CountTypes
<1>4. ASSUME NEW i \in Infos PROVE transmissions'[i] >= transmissions[i]
  <2>1. transmissions[i] \in Nat
    BY <1>3
  <2>2. transmissions'[i] = transmissions[i] \/ transmissions'[i] = transmissions[i] + 1
    BY <1>2, <1>3
  <2> QED
    BY <2>1, <2>2
<1> QED
  BY <1>1, <1>4

LEMMA WakeInitial == ASSUME Init PROVE NoLostWakeup
BY DEF Init, NoLostWakeup

\* An entry that is no longer current never is again, and a scan arms the earliest one that is.
LEMMA WakeStep ==
    ASSUME RetransmissionAssumption, Types, PlaceInv, NoLostWakeup, [Next]_vars
    PROVE  NoLostWakeup'
<1>1. io \in [pc : IoPcs, info : Infos \cup {None}]
  BY DEF Types, ThreadTypes
<1>2. ProcessRetransmission \/ CheckOwner \/ DisconnectOwner \/ PushAgain \/ PushedAgain
          => rtPc' # "wait"
  <2>1. NextDue => rtPc' # "wait"
    BY DEF NextDue
  <2> QED
    BY <2>1 DEF ProcessRetransmission, CheckOwner, DisconnectOwner, PushAgain, PushedAgain
<1>3. WakeUp => rtPc' # "wait"
  BY DEF WakeUp
<1>4. SignalRetransmissionWakeEvent => wakeEvent'
  BY DEF SignalRetransmissionWakeEvent
<1>5. PushRetransmissionSchedule =>
          \/ io'.pc = "signal"
          \/ /\ UNCHANGED <<rtPc, wakeEvent, armed, heap, scheduleVersion, erased>>
             /\ io.pc # "signal"
  BY <1>1 DEF PushRetransmissionSchedule, rtVars
<1>6. \/ /\ UNCHANGED <<rtPc, wakeEvent, armed, heap, scheduleVersion>>
         /\ erased \subseteq erased' /\ (io.pc = "signal" => io' = io)
      \/ Scan \/ rtPc' # "wait" \/ wakeEvent' \/ io'.pc = "signal"
  BY <1>2, <1>3, <1>4, <1>5, NextCases
     DEF Allocate, CoreSendPacket, SendSucceeds, SendFails, MarkFailedErased, EraseFailed,
         TryGetFrontAndPop, MarkSentForRttSample, Transmit, FindAndEraseSendPacketInfo,
         MarkSendPacketInfoErased, TryGetRttSample, OtherDisconnects, InitializeSession,
         TryConnect, ClearSendPacketInfoMap, Tick, vars, infoVars, otherInfoVars,
         sessionVars, schedulerVars, rtVars
<1>7. CASE /\ UNCHANGED <<rtPc, wakeEvent, armed, heap, scheduleVersion>>
           /\ erased \subseteq erased' /\ (io.pc = "signal" => io' = io)
  BY <1>7 DEF NoLostWakeup, Stale
<1>8. CASE Scan
  <2> SUFFICES ASSUME rtPc' = "wait", NEW e \in heap', ~Stale(e)'
               PROVE  armed' # None /\ armed' <= e.deadline
    BY DEF NoLostWakeup
  <2>1. Due = {} /\ armed' = NextDeadline /\ heap' \subseteq heap
    BY <1>8, Scanned
  <2>2. ~Stale(e)
    BY <1>8 DEF Scan, Stale
  <2>3. \A f \in heap : f.deadline \in Nat /\ f.deadline # 0
    BY Bounds DEF Types, HeapTypes
  <2>4. e \in Future
    BY <2>1, <2>2, <2>3, Bounds DEF Due, Future, Types, HeapTypes
  <2> DEFINE deadlines == {f.deadline : f \in Future}
  <2>5. deadlines \subseteq Nat /\ e.deadline \in deadlines /\ 0 \notin deadlines
    BY <2>3, <2>4 DEF Future
  <2>6. NextDeadline = Min(deadlines)
    BY <2>4 DEF NextDeadline
  <2> HIDE DEF deadlines
  <2>7. Min(deadlines) \in deadlines /\ Min(deadlines) <= e.deadline
    BY <2>5, MinIs
  <2> QED
    BY <2>1, <2>5, <2>6, <2>7, Bounds
<1>9. CASE rtPc' # "wait" \/ wakeEvent' \/ io'.pc = "signal"
  BY <1>9 DEF NoLostWakeup
<1> QED
  BY <1>6, <1>7, <1>8, <1>9

-----------------------------------------------------------------------------
(* What is not acknowledged is in the map.                                 *)

LEMMA MapInitial == ASSUME RetransmissionAssumption, Init PROVE MapInv
<1>1. \A i \in Kept : i \in Nat /\ i # 0
  BY Bounds
<1> QED
  BY <1>1 DEF Init, MapInv

LEMMA MapStep ==
    ASSUME RetransmissionAssumption, Types, PlaceInv, MapInv, [Next]_vars
    PROVE  MapInv'
<1> DEFINE Mapped(i) == i <= allocated =>
              i \in sendPacketInfoMap \/ i \in erased \/ (worker.pc = "mark" /\ worker.info = i)
<1> SUFFICES ASSUME NEW i \in Kept PROVE Mapped(i)'
  BY DEF MapInv, Kept, Infos
<1>1. Mapped(i)
  BY DEF MapInv
<1>2. erased \subseteq erased'
  BY Grows
<1>3. CASE Allocate
  <2>1. allocated \in Nat /\ i \in Nat /\ i \notin Replies
    BY Bounds DEF Types, InfoTypes, Kept
  <2> QED
    BY <1>1, <1>2, <1>3, <2>1 DEF Allocate
<1>4. CASE EraseFailed
  BY <1>1, <1>2, <1>4
     DEF EraseFailed, PlaceInv, otherInfoVars
<1>5. ASSUME NEW j \in Infos, FindAndEraseSendPacketInfo(j) PROVE Mapped(i)'
  BY <1>1, <1>2, <1>5 DEF FindAndEraseSendPacketInfo, infoVars
<1>6. CASE MarkSendPacketInfoErased
  BY <1>1, <1>2, <1>6 DEF MarkSendPacketInfoErased, otherInfoVars, sessionVars
<1>7. CASE TryGetRttSample
  BY <1>1, <1>2, <1>7 DEF TryGetRttSample, sessionVars
<1>8. ASSUME NEW j \in Infos, ClearSendPacketInfoMap(j) PROVE Mapped(i)'
  BY <1>1, <1>2, <1>8 DEF ClearSendPacketInfoMap, otherInfoVars, Drained
<1>9. CASE UNCHANGED <<allocated, sendPacketInfoMap, worker>>
  BY <1>1, <1>2, <1>9
<1> QED
  BY NextCases, <1>3, <1>4, <1>5, <1>6, <1>7, <1>8, <1>9
     DEF CoreSendPacket, SendSucceeds, SendFails, MarkFailedErased, TryGetFrontAndPop,
         MarkSentForRttSample, PushRetransmissionSchedule, SignalRetransmissionWakeEvent,
         Transmit, Scan, WakeUp, ProcessRetransmission, CheckOwner, DisconnectOwner,
         PushAgain, PushedAgain, OtherDisconnects, InitializeSession, TryConnect, Tick, vars,
         infoVars, otherInfoVars, sessionVars

-----------------------------------------------------------------------------
(* Nothing goes to the client of another generation.                       *)

LEMMA OwnerInitial == ASSUME RetransmissionAssumption, Init PROVE OwnerInv
<1>1. \A i \in Infos : i \in Nat /\ i # 0
  BY Bounds
<1> QED
  BY <1>1 DEF Init, OwnerInv, Owned, Resting, SentOnlyToOwner

\* Only one step makes an owner invalid.
LEMMA OwnersStay ==
    ASSUME RetransmissionAssumption, Types, [Next]_vars
    PROVE  \/ UNCHANGED <<allocated, owner, generation>>
           \/ /\ Allocate /\ UNCHANGED generation /\ allocated' = allocated + 1
              /\ \A i \in Infos : i # allocated + 1 => owner'[i] = owner[i]
              /\ owner'[allocated + 1] = generation
           \/ InitializeSession /\ UNCHANGED <<allocated, owner>>
<1>1. UNCHANGED <<allocated, owner, generation>> \/ Allocate \/ InitializeSession
  BY NextCases
     DEF CoreSendPacket, SendSucceeds, SendFails, MarkFailedErased, EraseFailed,
         TryGetFrontAndPop, MarkSentForRttSample, PushRetransmissionSchedule,
         SignalRetransmissionWakeEvent, Transmit, FindAndEraseSendPacketInfo,
         MarkSendPacketInfoErased, TryGetRttSample, Scan, WakeUp, ProcessRetransmission,
         CheckOwner, DisconnectOwner, PushAgain, PushedAgain, OtherDisconnects, TryConnect,
         ClearSendPacketInfoMap, Tick, vars, infoVars, otherInfoVars, sessionVars
<1>2. CASE Allocate
  <2>1. allocated + 1 \in Infos
    <3>1. allocated < MaxInfos
      BY <1>2 DEF Allocate
    <3>2. allocated \in Nat
      BY Bounds DEF Types, InfoTypes
    <3> QED
      BY <3>1, <3>2, Bounds
  <2> QED
    BY <1>2, <2>1 DEF Allocate, Types, InfoTypes
<1>3. CASE InitializeSession
  BY <1>3 DEF InitializeSession, otherInfoVars
<1> QED
  BY <1>1, <1>2, <1>3

\* A reply that nobody is about to send is not sent again.
LEMMA ReplyStaysGone ==
    ASSUME RetransmissionAssumption, Types, PlaceInv, VersionInv, [Next]_vars,
           NEW i \in Infos, i \in Replies, i <= allocated,
           SenderHas(i) = 0, IoHas(i) = 0, QueueHas(i) = 0
    PROVE  SenderHas(i)' = 0 /\ IoHas(i)' = 0 /\ QueueHas(i)' = 0
<1>1. CASE Allocate
  <2>1. i # allocated + 1
    BY Bounds DEF Types, InfoTypes
  <2> QED
    BY <1>1, <2>1, MovesAllocate DEF One
<1>2. CASE CoreSendPacket
  <2>1. QueueHas(i)' = QueueHas(i) \/ QueueHas(i)' = QueueHas(i) + SenderHas(i)
    BY <1>2, MovesCoreSendPacket
  <2> QED
    BY <1>2, <2>1, MovesCoreSendPacket
<1>3. CASE SendSucceeds \/ SendFails \/ MarkFailedErased \/ EraseFailed
  BY <1>3, MovesSendSucceeds, MovesSendFails, MovesMarkFailedErased, MovesEraseFailed
<1>4. CASE TryGetFrontAndPop
  <2>1. Head(queue) # i
    <3>1. queue \in Seq(Infos) /\ queue # <<>>
      BY <1>4 DEF Types, SessionTypes, TryGetFrontAndPop
    <3>2. \A k \in DOMAIN queue : queue[k] # i
      BY <3>1, OccurrencesAre DEF QueueHas
    <3> QED
      BY <3>1, <3>2
  <2>2. Occurrences(queue, i) = Occurrences(Tail(queue), i) + One(Head(queue) = i)
    BY <1>4, FrontTaken DEF TryGetFrontAndPop
  <2>3. Occurrences(Tail(queue), i) \in Nat
    BY <1>4, FrontTaken, OccurrencesAre DEF TryGetFrontAndPop
  <2>4. QueueHas(i)' = 0 /\ IoHas(i)' = 0
    BY <1>4, <2>1, <2>2, <2>3 DEF TryGetFrontAndPop, QueueHas, IoHas, One
  <2> QED
    BY <1>4, <2>4, MovesTryGetFrontAndPop
<1>5. CASE MarkSentForRttSample
  BY <1>5, MovesMarkSentForRttSample
<1>6. CASE PushRetransmissionSchedule
  BY <1>6, MovesPushRetransmissionSchedule
<1>7. CASE SignalRetransmissionWakeEvent \/ Transmit
  BY <1>7, MovesSignalRetransmissionWakeEvent, MovesTransmit
<1>8. ASSUME NEW j \in Infos, FindAndEraseSendPacketInfo(j) \/ ClearSendPacketInfoMap(j)
      PROVE  SenderHas(i)' = 0 /\ IoHas(i)' = 0 /\ QueueHas(i)' = 0
  BY <1>8, MovesFindAndEraseSendPacketInfo, MovesClearSendPacketInfoMap
<1>9. CASE MarkSendPacketInfoErased \/ TryGetRttSample
  BY <1>9, MovesMarkSendPacketInfoErased, MovesTryGetRttSample
<1>10. CASE Scan
  BY <1>10, MovesScan
<1>11. CASE WakeUp \/ OtherDisconnects \/ TryConnect \/ Tick
  BY <1>11, MovesWakeUp, MovesOtherDisconnects, MovesTryConnect, MovesTick
<1>12. CASE ProcessRetransmission \/ CheckOwner \/ DisconnectOwner \/ PushAgain \/ PushedAgain
  <2>1. Head(dueList) # i
    BY <1>12, MovesDue DEF Kept
  <2>2. QueueHas(i)' = QueueHas(i) \/ QueueHas(i)' = QueueHas(i) + One(Head(dueList) = i)
    BY <1>12, MovesDue
  <2> QED
    BY <1>12, <2>1, <2>2, MovesDue DEF One
<1>13. CASE InitializeSession
  BY <1>13, MovesInitializeSession
<1>14. CASE UNCHANGED vars
  BY <1>14 DEF vars, sessionVars, SenderHas, IoHas, QueueHas
<1> QED
  BY NextCases, <1>1, <1>2, <1>3, <1>4, <1>5, <1>6, <1>7, <1>8, <1>9, <1>10, <1>11, <1>12,
     <1>13, <1>14

LEMMA OwnedStep ==
    ASSUME RetransmissionAssumption, Types, PlaceInv, VersionInv, MapInv, OwnerInv, [Next]_vars,
           NEW i \in Infos
    PROVE  Owned(i)'
<1>1. Owned(i)
  BY DEF OwnerInv
<1>2. erased \subseteq erased'
  BY Grows
<1>3. i <= allocated /\ i \in Replies /\ SenderHas(i) = 0 /\ IoHas(i) = 0 /\ QueueHas(i) = 0
          => SenderHas(i)' = 0 /\ IoHas(i)' = 0 /\ QueueHas(i)' = 0
  BY ReplyStaysGone
<1>4. CASE UNCHANGED <<allocated, owner, generation>>
  BY <1>1, <1>2, <1>3, <1>4 DEF Owned, IsOwnerValid
<1>5. CASE /\ UNCHANGED generation /\ allocated' = allocated + 1
           /\ \A j \in Infos : j # allocated + 1 => owner'[j] = owner[j]
           /\ owner'[allocated + 1] = generation
  <2>1. i \in Nat /\ allocated \in Nat
    BY Bounds DEF Types, InfoTypes
  <2>2. CASE i = allocated + 1
    BY <1>5, <2>2 DEF Owned, IsOwnerValid
  <2>3. CASE i # allocated + 1
    BY <1>1, <1>2, <1>3, <1>5, <2>1, <2>3 DEF Owned, IsOwnerValid
  <2> QED
    BY <2>2, <2>3
<1>6. CASE InitializeSession /\ UNCHANGED <<allocated, owner>>
  <2>1. sendPacketInfoMap = {} /\ Drained
    BY <1>6 DEF InitializeSession
  <2>2. CASE i \in Kept
    BY <1>2, <1>6, <2>1, <2>2 DEF MapInv, Drained, Owned
  <2>3. CASE i \notin Kept
    <3>1. i \in Replies
      BY <2>3 DEF Kept
    <3>2. sender.info # i /\ io.info # i
      BY <2>1, Bounds DEF Drained, PlaceInv
    <3>3. SenderHas(i)' = 0 /\ IoHas(i)' = 0 /\ QueueHas(i)' = 0
      BY <1>6, <3>2, MovesInitializeSession DEF SenderHas, IoHas, One
    <3> QED
      BY <3>1, <3>3 DEF Owned
  <2> QED
    BY <2>2, <2>3
<1> QED
  BY <1>4, <1>5, <1>6, OwnersStay

\* What is marked as sent is its session's, and stays so while the worker has it.
LEMMA SentStep ==
    ASSUME RetransmissionAssumption, Types, PlaceInv, VersionInv, CountInv, OwnerInv, [Next]_vars
    PROVE  SentOnlyToOwner'
<1> DEFINE sent == {"push", "signal", "copy"}
<1>1. io \in [pc : IoPcs, info : Infos \cup {None}]
  BY DEF Types, ThreadTypes
<1>2. ASSUME io.pc # "idle" PROVE io.info \in Infos /\ io.info <= allocated
  <2>1. io.info \in Infos
    BY <1>2, HeldAreInfos
  <2>2. IoHas(io.info) = 1
    BY DEF IoHas, One
  <2>3. Holders(io.info) # 0
    BY <2>2, HeldByNone
  <2>4. ~(io.info > allocated)
    BY <2>1, <2>3 DEF CountInv, Exact
  <2> QED
    BY <2>1, <2>4, Bounds DEF Types, InfoTypes
<1>3. CASE MarkSentForRttSample
  <2>1. io.pc = "taken" /\ UNCHANGED <<owner, generation>>
    BY <1>3 DEF MarkSentForRttSample, sessionVars
  <2>2. io'.pc \in sent => io'.info = io.info /\ io.info \notin erased
    BY <1>1, <1>3 DEF MarkSentForRttSample, Resting
  <2>3. io.info \in Infos /\ io.info <= allocated
    BY <1>2, <2>1
  <2>4. IoHas(io.info) # 0
    BY DEF IoHas, One
  <2>5. io.info \notin erased => IsOwnerValid(io.info)
    BY <2>3, <2>4 DEF OwnerInv, Owned
  <2> QED
    BY <2>1, <2>2, <2>5 DEF SentOnlyToOwner, IsOwnerValid
<1>4. CASE ~MarkSentForRttSample
  <2>1. io'.pc \in sent => io'.info = io.info /\ io.pc \in sent
    <3>1. UNCHANGED io \/ TryGetFrontAndPop \/ PushRetransmissionSchedule
              \/ SignalRetransmissionWakeEvent \/ Transmit
      BY <1>4, NextCases
         DEF Allocate, CoreSendPacket, SendSucceeds, SendFails, MarkFailedErased, EraseFailed,
             FindAndEraseSendPacketInfo, MarkSendPacketInfoErased, TryGetRttSample, Scan,
             WakeUp, ProcessRetransmission, CheckOwner, DisconnectOwner, PushAgain,
             PushedAgain, OtherDisconnects, InitializeSession, TryConnect,
             ClearSendPacketInfoMap, Tick, vars
    <3>2. TryGetFrontAndPop => io'.pc = "taken"
      BY DEF TryGetFrontAndPop
    <3>3. Transmit => io'.pc = "idle"
      BY DEF Transmit, Resting
    <3>4. SignalRetransmissionWakeEvent => io.pc = "signal" /\ io'.info = io.info
      BY <1>1 DEF SignalRetransmissionWakeEvent
    <3>5. PushRetransmissionSchedule =>
              io.pc = "push" /\ (io'.pc = "idle" \/ io'.info = io.info)
      BY <1>1 DEF PushRetransmissionSchedule, Resting
    <3> QED
      BY <3>1, <3>2, <3>3, <3>4, <3>5
  <2>2. InitializeSession => io.pc = "idle"
    BY DEF InitializeSession, Drained
  <2>3. io.pc # "idle" => io.info # allocated + 1
    BY <1>2, Bounds DEF Types, InfoTypes
  <2>4. io.pc # "idle" /\ IsOwnerValid(io.info) => owner'[io.info] = generation'
    <3>1. io.pc # "idle" => UNCHANGED generation /\ owner'[io.info] = owner[io.info]
      BY <1>2, <2>2, <2>3, OwnersStay
    <3> QED
      BY <3>1, <1>2 DEF IsOwnerValid
  <2> QED
    BY <2>1, <2>4 DEF OwnerInv, SentOnlyToOwner, IsOwnerValid
<1> QED
  BY <1>3, <1>4

LEMMA OwnerStep ==
    ASSUME RetransmissionAssumption, Types, PlaceInv, VersionInv, CountInv, MapInv, OwnerInv,
           [Next]_vars
    PROVE  OwnerInv'
BY OwnedStep, SentStep DEF OwnerInv, Infos

-----------------------------------------------------------------------------
(* What is sampled went out once.                                          *)

LEMMA SampleInitial == ASSUME Init PROVE SampleInv
BY DEF Init, SampleInv, OnceOut, SampledOut, Resting

\* The packets that may give a sample: a new one joins them, a scan takes away what is due.
LEMMA SamplesStay ==
    ASSUME RetransmissionAssumption, Types, PlaceInv, VersionInv, [Next]_vars, NEW i \in Infos
    PROVE  /\ i \in canUseRttSample' /\ i \notin canUseRttSample => Allocate /\ i = allocated + 1
           /\ i \in canUseRttSample /\ i \notin canUseRttSample' => i \notin erased'
<1>1. CASE UNCHANGED canUseRttSample
  BY <1>1
<1>2. CASE Allocate
  BY <1>2 DEF Allocate
<1>3. CASE Scan
  <2>1. canUseRttSample' = canUseRttSample \ {e.info : e \in Due}
    BY <1>3, Scanned
  <2>2. \A e \in Due : e.info \notin erased
    BY DEF Due, Stale
  <2>3. erased' = erased
    BY <1>3 DEF Scan
  <2> QED
    BY <2>1, <2>2, <2>3
<1> QED
  BY <1>1, <1>2, <1>3, NextCases
     DEF CoreSendPacket, SendSucceeds, SendFails, MarkFailedErased, EraseFailed,
         TryGetFrontAndPop, MarkSentForRttSample, PushRetransmissionSchedule,
         SignalRetransmissionWakeEvent, Transmit, FindAndEraseSendPacketInfo,
         MarkSendPacketInfoErased, TryGetRttSample, WakeUp, ProcessRetransmission,
         CheckOwner, DisconnectOwner, PushAgain, PushedAgain, OtherDisconnects,
         InitializeSession, TryConnect, ClearSendPacketInfoMap, Tick, vars, infoVars,
         otherInfoVars

LEMMA OnceOutStep ==
    ASSUME RetransmissionAssumption, Types, PlaceInv, VersionInv, CountInv, SampleInv,
           [Next]_vars, Types', NEW i \in Infos
    PROVE  OnceOut(i)'
<1> SUFFICES ASSUME i \in canUseRttSample'
             PROVE  (transmissions[i] + SenderGives(i) + IoHas(i) + QueueHas(i) <= 1
                         /\ DueHas(i) = 0)'
  BY DEF OnceOut
<1> DEFINE before == transmissions[i] + SenderGives(i) + IoHas(i) + QueueHas(i) <= 1
                         /\ DueHas(i) = 0
<1>1. /\ SenderGives(i) \in {0, 1} /\ IoHas(i) \in {0, 1} /\ SenderHas(i) \in {0, 1}
      /\ QueueHas(i) \in Nat /\ DueHas(i) \in Nat /\ transmissions[i] \in Nat
  BY HasTypes DEF Types, CountTypes
<1>2. /\ SenderGives(i)' \in {0, 1} /\ IoHas(i)' \in {0, 1}
      /\ QueueHas(i)' \in Nat /\ DueHas(i)' \in Nat
  BY HasTypesNext
<1>3. CASE Allocate
  <2>1. UNCHANGED <<IoHas(i), QueueHas(i), DueHas(i), transmissions>>
    BY <1>3, MovesAllocate DEF Allocate
  <2>2. SenderGives(i)' = One(i = allocated + 1)
    BY <1>3, MovesAllocate
  <2>3. CASE i = allocated + 1
    <3>1. Holders(i) = 0 /\ transmissions[i] = 0
      BY <2>3, Bounds DEF CountInv, Exact, Types, InfoTypes
    <3>2. QueueHas(i) = 0 /\ DueHas(i) = 0 /\ IoHas(i) = 0
      BY <3>1, HeldByNone
    <3> QED
      BY <1>2, <2>1, <3>1, <3>2
  <2>4. CASE i # allocated + 1
    <3>1. before
      BY <2>4, SamplesStay DEF SampleInv, OnceOut
    <3>2. SenderGives(i)' = 0
      BY <2>2, <2>4 DEF One
    <3> QED
      BY <1>1, <2>1, <3>1, <3>2
  <2> QED
    BY <2>3, <2>4
<1> DEFINE after == transmissions'[i] + SenderGives(i)' + IoHas(i)' + QueueHas(i)' <= 1
                        /\ DueHas(i)' = 0
<1>4. SUFFICES ASSUME ~Allocate PROVE after
  BY <1>3
<1>5. before
  BY <1>4, SamplesStay DEF SampleInv, OnceOut
<1>6. Transmit \/ transmissions' = transmissions
  BY NextCases
     DEF Allocate, CoreSendPacket, SendSucceeds, SendFails, MarkFailedErased, EraseFailed,
         TryGetFrontAndPop, MarkSentForRttSample, PushRetransmissionSchedule,
         SignalRetransmissionWakeEvent, FindAndEraseSendPacketInfo, MarkSendPacketInfoErased,
         TryGetRttSample, Scan, WakeUp, ProcessRetransmission, CheckOwner, DisconnectOwner,
         PushAgain, PushedAgain, OtherDisconnects, InitializeSession, TryConnect,
         ClearSendPacketInfoMap, Tick, vars, infoVars, otherInfoVars
<1>7. ASSUME /\ SenderGives(i)' <= SenderGives(i) /\ IoHas(i)' <= IoHas(i)
             /\ QueueHas(i)' <= QueueHas(i) /\ DueHas(i)' = DueHas(i)
             /\ transmissions' = transmissions
      PROVE  after
  BY <1>1, <1>2, <1>5, <1>7
<1>8. CASE CoreSendPacket
  <2>1. UNCHANGED <<IoHas(i), DueHas(i)>> /\ transmissions' = transmissions
    BY <1>8, MovesCoreSendPacket DEF CoreSendPacket, otherInfoVars
  <2>2. /\ SenderGives(i) = SenderHas(i) /\ SenderGives(i)' = 0
        /\ QueueHas(i)' = QueueHas(i) \/ QueueHas(i)' = QueueHas(i) + SenderHas(i)
    BY <1>8, MovesCoreSendPacket
  <2> QED
    BY <1>1, <1>5, <2>1, <2>2
<1>9. CASE TryGetFrontAndPop
  <2>1. UNCHANGED <<SenderGives(i), DueHas(i)>> /\ transmissions' = transmissions
    BY <1>9, MovesTryGetFrontAndPop DEF TryGetFrontAndPop, infoVars
  <2>2. IoHas(i) = 0 /\ QueueHas(i) = QueueHas(i)' + IoHas(i)'
    BY <1>9, MovesTryGetFrontAndPop
  <2> QED
    BY <1>1, <1>2, <1>5, <2>1, <2>2
<1>10. CASE Transmit
  <2>1. UNCHANGED <<SenderGives(i), QueueHas(i), DueHas(i)>> /\ IoHas(i)' = 0
    BY <1>10, MovesTransmit
  <2>2. transmissions'[i] = transmissions[i] + IoHas(i)
    BY <1>1, <1>10 DEF Transmit, IoHas, One, Types, CountTypes
  <2> QED
    BY <1>1, <1>5, <2>1, <2>2
<1>11. CASE SendSucceeds \/ SendFails \/ MarkFailedErased \/ EraseFailed
  <2>1. transmissions' = transmissions
    BY <1>11 DEF SendSucceeds, SendFails, MarkFailedErased, EraseFailed, infoVars, otherInfoVars
  <2>2. UNCHANGED <<SenderGives(i), IoHas(i), QueueHas(i), DueHas(i)>>
    BY <1>11, MovesSendSucceeds, MovesSendFails, MovesMarkFailedErased, MovesEraseFailed
  <2> QED
    BY <1>5, <2>1, <2>2
<1>12. CASE MarkSentForRttSample
  <2>1. transmissions' = transmissions
    BY <1>12 DEF MarkSentForRttSample
  <2>2. UNCHANGED <<SenderGives(i), QueueHas(i), DueHas(i)>>
    BY <1>12, MovesMarkSentForRttSample
  <2>3. IoHas(i)' = IoHas(i) \/ IoHas(i)' = 0
    BY <1>12, MovesMarkSentForRttSample
  <2> QED
    BY <1>1, <1>5, <2>1, <2>2, <2>3
<1>13. CASE PushRetransmissionSchedule
  <2>1. transmissions' = transmissions
    BY <1>13 DEF PushRetransmissionSchedule
  <2>2. UNCHANGED <<SenderGives(i), QueueHas(i), DueHas(i)>>
    BY <1>13, MovesPushRetransmissionSchedule
  <2>3. IoHas(i)' = IoHas(i) \/ IoHas(i)' = 0
    BY <1>13, MovesPushRetransmissionSchedule
  <2> QED
    BY <1>1, <1>5, <2>1, <2>2, <2>3
<1>14. CASE SignalRetransmissionWakeEvent \/ MarkSendPacketInfoErased \/ TryGetRttSample
  <2>1. transmissions' = transmissions
    BY <1>14 DEF SignalRetransmissionWakeEvent, MarkSendPacketInfoErased, TryGetRttSample,
              infoVars, otherInfoVars
  <2>2. UNCHANGED <<SenderGives(i), IoHas(i), QueueHas(i), DueHas(i)>>
    BY <1>14, MovesSignalRetransmissionWakeEvent, MovesMarkSendPacketInfoErased,
       MovesTryGetRttSample
  <2> QED
    BY <1>5, <2>1, <2>2
<1>15. ASSUME NEW j \in Infos, FindAndEraseSendPacketInfo(j) \/ ClearSendPacketInfoMap(j)
       PROVE  after
  <2>1. transmissions' = transmissions
    BY <1>15 DEF FindAndEraseSendPacketInfo, ClearSendPacketInfoMap, infoVars, otherInfoVars
  <2>2. UNCHANGED <<SenderGives(i), IoHas(i), QueueHas(i), DueHas(i)>>
    BY <1>15, MovesFindAndEraseSendPacketInfo, MovesClearSendPacketInfoMap
  <2> QED
    BY <1>5, <2>1, <2>2
<1>16. CASE Scan
  <2>1. transmissions' = transmissions
    BY <1>16 DEF Scan
  <2>2. UNCHANGED <<SenderGives(i), IoHas(i), QueueHas(i)>> /\ DueHas(i)' = 0
    BY <1>16, MovesScan
  <2> QED
    BY <1>5, <2>1, <2>2
<1>17. CASE WakeUp \/ OtherDisconnects \/ TryConnect \/ Tick
  <2>1. transmissions' = transmissions
    BY <1>17 DEF WakeUp, OtherDisconnects, TryConnect, Tick, infoVars
  <2>2. UNCHANGED <<SenderGives(i), IoHas(i), QueueHas(i), DueHas(i)>>
    BY <1>17, MovesWakeUp, MovesOtherDisconnects, MovesTryConnect, MovesTick
  <2> QED
    BY <1>5, <2>1, <2>2
<1>18. CASE ProcessRetransmission \/ CheckOwner \/ DisconnectOwner \/ PushAgain \/ PushedAgain
  <2>1. transmissions' = transmissions
    BY <1>18 DEF ProcessRetransmission, CheckOwner, DisconnectOwner, PushAgain, PushedAgain,
              otherInfoVars
  <2>2. UNCHANGED <<SenderGives(i), IoHas(i)>> /\ DueHas(i) - One(Head(dueList) = i) \in Nat
    BY <1>18, MovesDue
  <2>3. One(Head(dueList) = i) = 0
    BY <1>5, <2>2 DEF One
  <2>4. /\ QueueHas(i)' = QueueHas(i) \/ QueueHas(i)' = QueueHas(i) + One(Head(dueList) = i)
        /\ DueHas(i)' = DueHas(i) \/ DueHas(i)' = DueHas(i) - One(Head(dueList) = i)
    BY <1>18, MovesDue
  <2> QED
    BY <1>1, <1>5, <2>1, <2>2, <2>3, <2>4
<1>19. CASE InitializeSession
  <2>1. transmissions' = transmissions
    BY <1>19 DEF InitializeSession, otherInfoVars
  <2>2. UNCHANGED <<SenderGives(i), IoHas(i), DueHas(i)>> /\ QueueHas(i)' = 0
    BY <1>19, MovesInitializeSession
  <2> QED
    BY <1>1, <1>5, <2>1, <2>2
<1>20. CASE UNCHANGED vars
  <2>1. UNCHANGED <<SenderGives(i), IoHas(i), QueueHas(i), DueHas(i), transmissions>>
    BY <1>20 DEF vars, infoVars, sessionVars, rtVars, SenderGives, IoHas, QueueHas, DueHas
  <2> QED
    BY <1>5, <2>1
<1> HIDE DEF after
<1> QED
  BY NextCases, <1>4, <1>8, <1>9, <1>10, <1>11, <1>12, <1>13, <1>14, <1>15, <1>16, <1>17,
     <1>18, <1>19, <1>20

LEMMA SampleStep ==
    ASSUME RetransmissionAssumption, Types, PlaceInv, VersionInv, CountInv, SampleInv,
           [Next]_vars, Types'
    PROVE  SampleInv'
<1>1. /\ erased \subseteq erased'
      /\ \A j \in Infos : transmissions'[j] >= transmissions[j]
  BY Grows
<1>2. /\ \A j \in Infos : transmissions[j] \in Nat /\ transmissions'[j] \in Nat
      /\ worker.pc # "idle" => worker.info \in Infos /\ transmissions[worker.info] >= 1
  BY HeldAreInfos DEF Types, CountTypes, SampleInv
<1>3. ASSUME NEW i \in Infos PROVE SampledOut(i)'
  <2>1. \/ sampled' = sampled
        \/ TryGetRttSample
    BY NextCases
       DEF Allocate, CoreSendPacket, SendSucceeds, SendFails, MarkFailedErased, EraseFailed,
           TryGetFrontAndPop, MarkSentForRttSample, PushRetransmissionSchedule,
           SignalRetransmissionWakeEvent, Transmit, FindAndEraseSendPacketInfo,
           MarkSendPacketInfoErased, Scan, WakeUp, ProcessRetransmission, CheckOwner,
           DisconnectOwner, PushAgain, PushedAgain, OtherDisconnects, InitializeSession,
           TryConnect, ClearSendPacketInfoMap, Tick, vars, infoVars, otherInfoVars
  <2>2. CASE i \in sampled
    <3>1. i \in canUseRttSample /\ i \in erased /\ transmissions[i] >= 1
      BY <2>2 DEF SampleInv, SampledOut
    <3>2. i \in erased' /\ i \in canUseRttSample'
      BY <1>1, <3>1, SamplesStay
    <3> QED
      BY <1>1, <1>2, <3>1, <3>2 DEF SampledOut
  <2>3. CASE i \notin sampled /\ TryGetRttSample
    <3>1. i \in sampled' => i = worker.info /\ i \in canUseRttSample
      BY <2>3 DEF TryGetRttSample
    <3>2. worker.info \in erased /\ worker.pc # "idle"
      BY <2>3 DEF TryGetRttSample, PlaceInv
    <3>3. UNCHANGED <<canUseRttSample, erased, transmissions>>
      BY <2>3 DEF TryGetRttSample
    <3> QED
      BY <1>2, <3>1, <3>2, <3>3 DEF SampledOut
  <2> QED
    BY <2>1, <2>2, <2>3 DEF SampledOut
<1>4. worker'.pc # "idle" => transmissions'[worker'.info] >= 1
  <2>1. worker \in [pc : WorkerPcs, info : Infos \cup {None}]
    BY DEF Types, ThreadTypes
  <2>2. CASE UNCHANGED worker
    BY <1>1, <1>2, <2>2
  <2>3. ASSUME NEW j \in Infos, FindAndEraseSendPacketInfo(j)
        PROVE  transmissions'[worker'.info] >= 1
    BY <1>2, <2>3 DEF FindAndEraseSendPacketInfo, infoVars
  <2>4. CASE MarkSendPacketInfoErased
    <3>1. worker'.info = worker.info /\ worker.pc # "idle"
      BY <2>1, <2>4 DEF MarkSendPacketInfoErased
    <3> QED
      BY <1>1, <1>2, <3>1
  <2>5. TryGetRttSample => worker'.pc = "idle"
    BY DEF TryGetRttSample, Resting
  <2> QED
    BY <2>2, <2>3, <2>4, <2>5, NextCases
       DEF Allocate, CoreSendPacket, SendSucceeds, SendFails, MarkFailedErased, EraseFailed,
           TryGetFrontAndPop, MarkSentForRttSample, PushRetransmissionSchedule,
           SignalRetransmissionWakeEvent, Transmit, Scan, WakeUp, ProcessRetransmission,
           CheckOwner, DisconnectOwner, PushAgain, PushedAgain, OtherDisconnects,
           InitializeSession, TryConnect, ClearSendPacketInfoMap, Tick, vars
<1>5. \A i \in Infos : OnceOut(i)'
  BY OnceOutStep
<1> QED
  BY <1>3, <1>4, <1>5 DEF SampleInv, Infos

-----------------------------------------------------------------------------
(* The theorems.                                                           *)

Inv == /\ Types /\ PlaceInv /\ VersionInv /\ CountInv /\ CopyInv
       /\ SampleInv /\ MapInv /\ OwnerInv /\ NoLostWakeup

LEMMA InvInitial == ASSUME RetransmissionAssumption, Init PROVE Inv
BY TypesInitial, PlaceInitial, VersionInitial, CountInitial, CopyInitial, SampleInitial,
   MapInitial, OwnerInitial, WakeInitial DEF Inv

LEMMA InvStep == ASSUME RetransmissionAssumption, Inv, [Next]_vars PROVE Inv'
<1>1. Types /\ PlaceInv /\ VersionInv /\ CountInv
  BY DEF Inv
<1>2. Types' /\ PlaceInv' /\ VersionInv'
  BY <1>1, TypesStep, PlaceStep, VersionStep
<1>3. CountInv'
  BY <1>1, <1>2, CountStep
<1>4. CopyInv' /\ SampleInv'
  BY <1>1, <1>2, CopyStep, SampleStep DEF Inv
<1>5. MapInv' /\ OwnerInv' /\ NoLostWakeup'
  BY <1>1, MapStep, OwnerStep, WakeStep DEF Inv
<1> QED
  BY <1>2, <1>3, <1>4, <1>5 DEF Inv

LEMMA Invariant == ASSUME RetransmissionAssumption PROVE Spec => []Inv
<1>1. Init => Inv
  BY InvInitial
<1>2. Inv /\ [Next]_vars => Inv'
  BY InvStep
<1> QED
  BY <1>1, <1>2, PTL DEF Spec

\* Every variable keeps its type; in particular no reference count falls below zero.
THEOREM TypeCorrect == ASSUME RetransmissionAssumption PROVE Spec => []TypeOK
<1>1. Inv => TypeOK
  <2> SUFFICES ASSUME Inv PROVE TypeOK
    OBVIOUS
  <2>1. Types /\ PlaceInv /\ CountInv
    BY DEF Inv
  <2>2. refCount \in [Infos -> Nat]
    <3>1. \A i \in Infos : Holders(i) \in Nat
      BY <2>1, HoldersAre, HasTypes
    <3>2. \A i \in Infos : refCount[i] \in Nat
      BY <2>1, <3>1 DEF CountInv, Exact
    <3> QED
      BY <2>1, <3>2 DEF Types, CountTypes
  <2>3. dueList \in Seq(Infos)
    <3>1. dueList \in Seq(Kept) /\ Kept \subseteq Infos
      BY <2>1, Bounds DEF Types, RtTypes
    <3> QED
      BY <3>1
  <2>4. \A thread \in {sender, io, worker} :
            thread.info \in Infos \cup {None} /\ (thread.info = None <=> thread.pc = "idle")
    BY <2>1 DEF Types, ThreadTypes, PlaceInv
  <2>5. heap \subseteq [info : Infos, version : Nat, deadline : 1 .. MaxClock]
    BY <2>1, Bounds DEF Types, HeapTypes
  <2> QED
    BY <2>1, <2>2, <2>3, <2>4, <2>5
       DEF TypeOK, Types, InfoTypes, CountTypes, SessionTypes, HeapTypes, RtTypes, RtPcs, Kept
<1> QED
  BY <1>1, Invariant, PTL

\* The count of every SendPacketInfo is the number of places that hold it, through every
\* failed send, acknowledgement, retransmission and clearing of the session: none is used
\* after it was freed, and none is lost.
THEOREM CountsExact == ASSUME RetransmissionAssumption PROVE Spec => []RefCountExact
<1>1. Inv => RefCountExact
  BY DEF Inv, CountInv, Exact, RefCountExact
<1> QED
  BY <1>1, Invariant, PTL

\* A packet is in one place only from which it can go out: the queue, the list of what is
\* due, the heap, or the worker that packs it.
THEOREM OneCopy == ASSUME RetransmissionAssumption PROVE Spec => []OneCopyAtATime
<1>1. Inv => OneCopyAtATime
  <2> SUFFICES ASSUME Inv, NEW i \in Infos
               PROVE  Occurrences(queue, i) + Occurrences(StillDue, i)
                          + Cardinality({e \in heap : e.info = i})
                          + (IF io.info = i /\ io.pc \in {"taken", "push"} THEN 1 ELSE 0) <= 1
    BY DEF OneCopyAtATime
  <2>1. Types /\ PlaceInv
    BY DEF Inv
  <2>2. SenderGives(i) + IoGives(i) + QueueHas(i) + StillDueHas(i) + HeapHas(i) <= 1
    BY DEF Inv, CopyInv, Single
  <2>3. /\ SenderGives(i) \in {0, 1} /\ IoGives(i) \in {0, 1}
        /\ QueueHas(i) \in Nat /\ StillDueHas(i) \in Nat /\ HeapHas(i) \in Nat
    BY <2>1, HasTypes, StillDueTypes
  <2>4. QueueHas(i) + StillDueHas(i) + HeapHas(i) + IoGives(i) <= 1
    BY <2>2, <2>3
  <2> QED
    BY <2>4 DEF QueueHas, StillDueHas, HeapHas, Entries, IoGives, One
<1> QED
  BY <1>1, Invariant, PTL

\* The round trip is measured on packets that have gone out exactly once: Karn's rule.
THEOREM SamplesUnambiguous == ASSUME RetransmissionAssumption PROVE Spec => []SampleUnambiguous
<1>1. Inv => SampleUnambiguous
  <2> SUFFICES ASSUME Inv, NEW i \in sampled PROVE transmissions[i] = 1
    BY DEF SampleUnambiguous
  <2>1. Types /\ i \in Infos
    BY DEF Inv, Types, InfoTypes
  <2>2. i \in canUseRttSample /\ transmissions[i] >= 1
    BY <2>1 DEF Inv, SampleInv, SampledOut
  <2>3. transmissions[i] + SenderGives(i) + IoHas(i) + QueueHas(i) <= 1
    BY <2>1, <2>2 DEF Inv, SampleInv, OnceOut
  <2>4. /\ SenderGives(i) \in {0, 1} /\ IoHas(i) \in {0, 1} /\ QueueHas(i) \in Nat
        /\ transmissions[i] \in Nat
    BY <2>1, HasTypes DEF Types, CountTypes
  <2> QED
    BY <2>2, <2>3, <2>4
<1> QED
  BY <1>1, Invariant, PTL

\* A packet sent to the client of one generation does not reach the client of another, though
\* the retransmission thread may put it into the queue of the session that is there by then.
THEOREM OnlyToOwner == ASSUME RetransmissionAssumption PROVE Spec => []SentOnlyToOwner
<1>1. Inv => SentOnlyToOwner
  BY DEF Inv, OwnerInv
<1> QED
  BY <1>1, Invariant, PTL

\* The retransmission thread never waits past the deadline of an entry that may fire.
THEOREM NoWakeupLost == ASSUME RetransmissionAssumption PROVE Spec => []NoLostWakeup
<1>1. Inv => NoLostWakeup
  BY DEF Inv
<1> QED
  BY <1>1, Invariant, PTL
=============================================================================
