-------------------------- MODULE ServerParts_proofs ---------------------------
(***************************************************************************)
(* Theorems of the server's components, one section each: the invariants   *)
(* that make the broker, the pool of sessions, their kernel objects and    *)
(* the threads around them correct, for every value of the constants.      *)
(*                                                                         *)
(* Each section has the inductive invariant in named parts, what every     *)
(* action does to them, and the theorems, whose names say what they show.  *)
(***************************************************************************)
EXTENDS ServerParts, SequenceTheorems, FiniteSetTheorems, TLAPS

-------------------------------------------------------------------------------
(* The pending queue: a ring that senders, worker and release share.        *)

\* An index less than twice the capacity wraps at most once.
LEMMA Wrap ==
    ASSUME NEW c \in Nat, c > 0, NEW n \in Nat, n < 2 * c
    PROVE  n % c = IF n < c THEN n ELSE n - c
BY SMT

\* Where the i-th item of the ring is.
Cell(i) == (head + i - 1) % capacity

LEMMA CellIs ==
    ASSUME capacity \in Nat \ {0}, head \in Nat, head < capacity,
           NEW i \in 1 .. capacity
    PROVE  Cell(i) = IF head + i - 1 < capacity THEN head + i - 1 ELSE head + i - 1 - capacity
BY SMT DEF Cell


\* The indices of the ring, which has no cells before the first reservation.
RingInv ==
    /\ count <= capacity
    /\ capacity = 0 => head = 0 /\ tail = 0
    /\ capacity > 0 => head < capacity /\ tail < capacity /\ tail = (head + count) % capacity

\* Whoever has written the cell at the tail holds the mutex, and there is room for it.
PushInv ==
    /\ \A t, u \in pqSenders : pqPc[t] = "stored" /\ pqPc[u] = "stored" => t = u
    /\ \A t \in pqSenders : pqPc[t] = "stored" => count < capacity /\ buffer[tail] = packet[t]
    /\ \A t \in pqSenders : pqPc[t] # "idle" => packet[t] \in PQ!Packets

\* A slot in the pool has an empty ring and no senders.
PooledInv ==
    /\ life = "pooled" => count = 0 /\ \A t \in pqSenders : pqPc[t] = "idle"
    /\ life # "pooled" => capacity = pqCapacity

PendingInv == PQ!TypeOK /\ RingInv /\ PushInv /\ PooledInv

LEMMA InitPending ==
    ASSUME PQ!PendingQueueAssumption, PQ!Init
    PROVE  PendingInv
BY SMT DEF PQ!PendingQueueAssumption, PQ!Init, PendingInv, PQ!TypeOK, RingInv, PushInv,
           PooledInv, PQ!Packets, PQ!NoPacket

\* One step around the ring.
LEMMA AdvancedIs ==
    ASSUME capacity \in Nat \ {0}, NEW i \in 0 .. capacity - 1
    PROVE  PQ!Advanced(i) = IF i + 1 = capacity THEN 0 ELSE i + 1
BY SMT DEF PQ!Advanced

\* How far the tail is from the head, without the remainder.
LEMMA TailIs ==
    ASSUME PQ!TypeOK, RingInv, capacity > 0
    PROVE  tail = IF head + count < capacity THEN head + count ELSE head + count - capacity
<1>1. head \in Nat /\ count \in Nat /\ capacity \in Nat /\ head + count < 2 * capacity
  BY DEF PQ!TypeOK, RingInv
<1> QED
  BY <1>1, Wrap DEF RingInv

LEMMA StepPending ==
    ASSUME PQ!PendingQueueAssumption, ~pqLate, PendingInv, [PQ!Next]_(PQ!vars)
    PROVE  PendingInv'
<1> USE DEF PendingInv, PQ!PendingQueueAssumption
<1>1. ASSUME NEW t \in pqSenders, PQ!SendPacket(t) PROVE PendingInv'
  <2>1. RingInv'
    BY <1>1 DEF PQ!SendPacket, RingInv, PQ!ring
  <2>2. made + 1 \in PQ!Packets
    BY <1>1 DEF PQ!SendPacket, PQ!TypeOK, PQ!Packets
  <2>3. PQ!TypeOK'
    BY <1>1, <2>2 DEF PQ!SendPacket, PQ!TypeOK, PQ!ring, PQ!slotVars
  <2>4. PushInv' /\ PooledInv'
    BY <1>1, <2>2 DEF PQ!SendPacket, PQ!TypeOK, PushInv, PooledInv, PQ!ring, PQ!slotVars
  <2> QED
    BY <2>1, <2>3, <2>4
<1>2. ASSUME NEW t \in pqSenders, PQ!PushStores(t) PROVE PendingInv'
  BY <1>2, SMT DEF PQ!PushStores, PQ!IsFull, PQ!Unlocked, PQ!TypeOK, RingInv, PushInv,
                   PooledInv, PQ!slotVars,
                   PQ!Packets, PQ!NoPacket
<1>3. ASSUME NEW t \in pqSenders, PQ!PushCounts(t) PROVE PendingInv'
  <2>1. capacity \in Nat \ {0} /\ tail \in 0 .. capacity - 1 /\ count < capacity
    BY <1>3 DEF PQ!PushCounts, PQ!TypeOK, RingInv, PushInv
  <2>2. tail' = IF tail + 1 = capacity THEN 0 ELSE tail + 1
    BY <1>3, <2>1, AdvancedIs DEF PQ!PushCounts
  <2>3. (head + count + 1) % capacity
            = IF head + count + 1 < capacity THEN head + count + 1 ELSE head + count + 1 - capacity
    <3>1. head \in Nat /\ count \in Nat /\ head + count + 1 < 2 * capacity /\ capacity > 0
      BY <2>1 DEF PQ!TypeOK, RingInv
    <3> QED
      BY <2>1, <3>1, Wrap
  <2>4. tail = IF head + count < capacity THEN head + count ELSE head + count - capacity
    BY <2>1, TailIs
  <2>5. RingInv'
    BY <1>3, <2>1, <2>2, <2>3, <2>4 DEF PQ!PushCounts, PQ!TypeOK, RingInv
  <2>6. PQ!TypeOK'
    BY <1>3, <2>1, <2>2 DEF PQ!PushCounts, PQ!TypeOK, PQ!slotVars
  <2>7. PushInv' /\ PooledInv'
    BY <1>3 DEF PQ!PushCounts, PushInv, PooledInv, PQ!TypeOK, PQ!slotVars
  <2> QED
    BY <2>5, <2>6, <2>7
<1>4. ASSUME NEW t \in pqSenders, PQ!PushFails(t) PROVE PendingInv'
  <2>1. RingInv'
    BY <1>4 DEF PQ!PushFails, RingInv, PQ!ring
  <2>2. packet[t] \in PQ!Packets
    BY <1>4 DEF PQ!PushFails, PushInv
  <2>3. PQ!TypeOK'
    BY <1>4, <2>2 DEF PQ!PushFails, PQ!TypeOK, PQ!ring
  <2>4. PushInv' /\ PooledInv'
    BY <1>4 DEF PQ!PushFails, PQ!TypeOK, PushInv, PooledInv, PQ!ring
  <2> QED
    BY <2>1, <2>3, <2>4
<1>5. CASE PQ!Pop
  <2>1. capacity \in Nat \ {0} /\ head \in 0 .. capacity - 1 /\ count \in 1 .. capacity
    BY <1>5 DEF PQ!Pop, PQ!IsEmpty, PQ!TypeOK, RingInv
  <2>2. head' = IF head + 1 = capacity THEN 0 ELSE head + 1
    BY <1>5, <2>1, AdvancedIs DEF PQ!Pop
  <2>3. tail = IF head + count < capacity THEN head + count ELSE head + count - capacity
    BY <2>1, TailIs
  <2>4. /\ head' \in Nat /\ head' < capacity
        /\ (head' + count') % capacity
            = IF head' + count' < capacity THEN head' + count' ELSE head' + count' - capacity
    <3>1. /\ head' + count' \in Nat /\ head' + count' < 2 * capacity /\ capacity > 0
          /\ count' = count - 1
      BY <1>5, <2>1, <2>2 DEF PQ!Pop
    <3> QED
      BY <2>1, <2>2, <3>1, Wrap
  <2>5. RingInv'
    BY <1>5, <2>1, <2>2, <2>3, <2>4 DEF PQ!Pop, PQ!TypeOK, RingInv
  <2>6. buffer[head] \in PQ!Packets \cup {PQ!NoPacket}
    BY <2>1 DEF PQ!TypeOK
  <2>7. PQ!TypeOK'
    BY <1>5, <2>1, <2>2, <2>6 DEF PQ!Pop, PQ!TypeOK, PQ!slotVars, PQ!senderVars
  <2>8. PushInv' /\ PooledInv'
    BY <1>5 DEF PQ!Pop, PQ!Unlocked, PushInv, PooledInv, PQ!TypeOK, PQ!slotVars, PQ!senderVars
  <2> QED
    BY <2>5, <2>7, <2>8
<1>6. CASE PQ!Reserve
  <2>1. RingInv'
    <3>1. CASE pqCapacity > 0
      <4>1. 0 % pqCapacity = 0
        BY <3>1, Wrap
      <4> QED
        BY <1>6, <3>1, <4>1 DEF PQ!Reserve, PQ!Resize, RingInv
    <3> QED
      BY <1>6, <3>1 DEF PQ!Reserve, PQ!Resize, RingInv
  <2>2. PQ!TypeOK'
    BY <1>6, SMT DEF PQ!Reserve, PQ!Resize, PQ!TypeOK, PQ!senderVars, PQ!Packets, PQ!NoPacket
  <2>3. PushInv' /\ PooledInv'
    BY <1>6 DEF PQ!Reserve, PQ!Resize, PushInv, PooledInv, PQ!senderVars
  <2> QED
    BY <2>1, <2>2, <2>3
<1>7. CASE PQ!DoDisconnect
  BY <1>7 DEF PQ!DoDisconnect, PQ!TypeOK, RingInv, PushInv, PooledInv, PQ!ring, PQ!senderVars
<1>8. CASE PQ!Reset
  <2>1. RingInv'
    <3>1. CASE capacity > 0
      <4>1. tail \in Nat /\ tail < capacity /\ capacity \in Nat /\ tail < 2 * capacity
        BY <3>1 DEF PQ!TypeOK, RingInv
      <4>2. tail % capacity = tail
        BY <3>1, <4>1, Wrap
      <4> QED
        BY <1>8, <3>1, <4>1, <4>2 DEF PQ!Reset, PQ!ClearPendingQueue, PQ!TypeOK, RingInv
    <3> QED
      BY <1>8, <3>1 DEF PQ!Reset, PQ!ClearPendingQueue, PQ!TypeOK, RingInv
  <2>2. \A i \in 1 .. count : PQ!Contents[i] \in PQ!Packets \cup {PQ!NoPacket}
    <3> SUFFICES ASSUME NEW i \in 1 .. count
                 PROVE  buffer[Cell(i)] \in PQ!Packets \cup {PQ!NoPacket}
      BY DEF PQ!Contents, Cell
    <3>1. capacity \in Nat \ {0} /\ head \in Nat /\ head < capacity /\ i \in 1 .. capacity
      BY DEF PQ!TypeOK, RingInv
    <3>2. Cell(i) \in 0 .. capacity - 1
      BY <3>1, CellIs
    <3> QED
      BY <3>2 DEF PQ!TypeOK
  <2>3. PQ!TypeOK'
    BY <1>8, <2>2 DEF PQ!Reset, PQ!ClearPendingQueue, PQ!TypeOK, PQ!senderVars
  <2>4. PushInv' /\ PooledInv'
    BY <1>8 DEF PQ!Reset, PQ!ClearPendingQueue, PQ!Unlocked, PushInv, PooledInv, PQ!TypeOK,
                PQ!senderVars
  <2> QED
    BY <2>1, <2>3, <2>4
<1>9. CASE UNCHANGED PQ!vars
  BY <1>9 DEF PQ!vars, PQ!ring, PQ!slotVars, PQ!senderVars, PQ!TypeOK, RingInv, PushInv, PooledInv
<1> QED
  BY <1>1, <1>2, <1>3, <1>4, <1>5, <1>6, <1>7, <1>8, <1>9 DEF PQ!Next

\* Whatever the senders, the logic worker and the release do, the ring stays whole:
\* its indices lie in the buffer and delimit what it counts.
THEOREM RingStaysWhole ==
    ASSUME PQ!PendingQueueAssumption, ~pqLate
    PROVE  PQ!Spec => [](PQ!TypeOK /\ PQ!RingWhole)
<1>1. PQ!Init => PendingInv
  BY InitPending
<1>2. PendingInv /\ [PQ!Next]_(PQ!vars) => PendingInv'
  BY StepPending
<1>3. PendingInv => PQ!TypeOK /\ PQ!RingWhole
  BY DEF PendingInv, RingInv, PQ!RingWhole
<1> QED
  BY <1>1, <1>2, <1>3, PTL DEF PQ!Spec

(* The refinement: what the ring holds, as a sequence of its own arguments, *)
(* and what the three operations make of it.                                *)

ItemsOf(c, h, n, b) == [i \in 1 .. n |-> b[(h + i - 1) % c]]

\* That s is n cells of b from cell h on, without the remainder.
IsItems(s, S, c, h, n, b) ==
    /\ s \in Seq(S) /\ Len(s) = n
    /\ \A i \in 1 .. n : s[i] = b[IF h + i - 1 < c THEN h + i - 1 ELSE h + i - 1 - c]

LEMMA ItemsAre ==
    ASSUME NEW S, NEW c \in Nat, c > 0, NEW h \in 0 .. c - 1, NEW n \in 0 .. c,
           NEW b \in [0 .. c - 1 -> S]
    PROVE  IsItems(ItemsOf(c, h, n, b), S, c, h, n, b)
<1>1. ASSUME NEW i \in 1 .. n
      PROVE  /\ (h + i - 1) % c = IF h + i - 1 < c THEN h + i - 1 ELSE h + i - 1 - c
             /\ b[(h + i - 1) % c] \in S
  BY <1>1, SMT
<1> QED
  BY <1>1 DEF ItemsOf, IsItems

LEMMA ItemsEqual ==
    ASSUME NEW S, NEW s \in Seq(S), NEW u \in Seq(S), Len(s) = Len(u),
           \A i \in 1 .. Len(s) : s[i] = u[i]
    PROVE  s = u
OBVIOUS

\* The c cells of d are those of b, except cell t.
SameBut(t, c, d, b) == \A k \in 0 .. c - 1 : k # t => d[k] = b[k]

\* Writing the cell behind the last item changes no item ...
LEMMA ItemsStored ==
    ASSUME NEW c \in Nat, c > 0, NEW h \in 0 .. c - 1, NEW n \in 0 .. c - 1,
           NEW t, t = IF h + n < c THEN h + n ELSE h + n - c,
           NEW b, NEW d, SameBut(t, c, d, b)
    PROVE  ItemsOf(c, h, n, d) = ItemsOf(c, h, n, b)
<1>1. ASSUME NEW i \in 1 .. n PROVE d[(h + i - 1) % c] = b[(h + i - 1) % c]
  <2>1. /\ (h + i - 1) % c \in 0 .. c - 1
        /\ (h + i - 1) % c = IF h + i - 1 < c THEN h + i - 1 ELSE h + i - 1 - c
    BY <1>1, SMT
  <2>2. (h + i - 1) % c # t
    BY <1>1, <2>1
  <2> QED
    BY <2>1, <2>2 DEF SameBut
<1> QED
  BY <1>1 DEF ItemsOf

\* ... and counting it appends what it holds.
LEMMA ItemsPut ==
    ASSUME NEW S, NEW c \in Nat, c > 0, NEW h \in 0 .. c - 1, NEW n \in 0 .. c - 1,
           NEW b \in [0 .. c - 1 -> S]
    PROVE  ItemsOf(c, h, n + 1, b) = Append(ItemsOf(c, h, n, b), b[(h + n) % c])
<1> DEFINE s == ItemsOf(c, h, n, b)
           u == ItemsOf(c, h, n + 1, b)
           x == b[(h + n) % c]
<1>1. (h + n) % c = (IF h + n < c THEN h + n ELSE h + n - c) /\ (h + n) % c \in 0 .. c - 1
  BY SMT
<1>2. x = b[IF h + n < c THEN h + n ELSE h + n - c] /\ x \in S
  BY <1>1
<1>3. IsItems(s, S, c, h, n, b)
  <2>1. n \in 0 .. c
    OBVIOUS
  <2> QED
    BY <2>1, ItemsAre
<1>4. IsItems(u, S, c, h, n + 1, b)
  <2>1. n + 1 \in 0 .. c
    OBVIOUS
  <2> QED
    BY <2>1, ItemsAre
<1> HIDE DEF s, u, x
<1>5. /\ Append(s, x) \in Seq(S) /\ Len(Append(s, x)) = n + 1
      /\ \A i \in 1 .. n : Append(s, x)[i] = s[i]
      /\ Append(s, x)[n + 1] = x
  BY <1>2, <1>3 DEF IsItems
<1>6. ASSUME NEW i \in 1 .. n + 1 PROVE u[i] = Append(s, x)[i]
  <2>1. CASE i \in 1 .. n
    BY <1>3, <1>4, <1>5, <2>1 DEF IsItems
  <2>2. CASE i = n + 1
    BY <1>2, <1>4, <1>5, <2>2 DEF IsItems
  <2> QED
    BY <1>6, <2>1, <2>2
<1>7. u = Append(s, x)
  BY <1>4, <1>5, <1>6, ItemsEqual DEF IsItems
<1> QED
  BY <1>7 DEF s, u, x

\* Moving the head takes the first item away.
LEMMA ItemsGot ==
    ASSUME NEW S, NEW c \in Nat, c > 0, NEW h \in 0 .. c - 1, NEW n \in 1 .. c,
           NEW b \in [0 .. c - 1 -> S]
    PROVE  /\ ItemsOf(c, h, n, b) # <<>> /\ Head(ItemsOf(c, h, n, b)) = b[h]
           /\ ItemsOf(c, (h + 1) % c, n - 1, b) = Tail(ItemsOf(c, h, n, b))
<1> DEFINE g == (h + 1) % c
           s == ItemsOf(c, h, n, b)
           u == ItemsOf(c, g, n - 1, b)
<1>1. g = (IF h + 1 = c THEN 0 ELSE h + 1) /\ g \in 0 .. c - 1
  BY SMT
<1> HIDE DEF g
<1>2. IsItems(s, S, c, h, n, b)
  <2>1. n \in 0 .. c
    OBVIOUS
  <2> QED
    BY <2>1, ItemsAre
<1>3. IsItems(u, S, c, g, n - 1, b)
  BY <1>1, ItemsAre
<1> HIDE DEF s, u
<1>4. /\ Tail(s) \in Seq(S) /\ Len(Tail(s)) = n - 1 /\ s # <<>> /\ Head(s) = s[1]
      /\ \A i \in 1 .. n - 1 : Tail(s)[i] = s[i + 1]
  BY <1>2 DEF IsItems
<1>5. s[1] = b[h]
  BY <1>2 DEF IsItems
<1>6. ASSUME NEW i \in 1 .. n - 1 PROVE u[i] = Tail(s)[i]
  <2>1. (IF g + i - 1 < c THEN g + i - 1 ELSE g + i - 1 - c)
            = IF h + (i + 1) - 1 < c THEN h + (i + 1) - 1 ELSE h + (i + 1) - 1 - c
    BY <1>1, <1>6
  <2>2. Tail(s)[i] = s[i + 1] /\ i + 1 \in 1 .. n
    BY <1>4, <1>6
  <2> QED
    BY <1>2, <1>3, <1>6, <2>1, <2>2 DEF IsItems
<1>7. u = Tail(s)
  BY <1>3, <1>4, <1>6, ItemsEqual DEF IsItems
<1> QED
  BY <1>4, <1>5, <1>7 DEF s, u, g

\* What each step makes of the items.
LEMMA ItemsStep ==
    ASSUME PQ!PendingQueueAssumption, ~pqLate, PendingInv, PendingInv'
    PROVE  /\ \A t \in pqSenders :
                PQ!SendPacket(t) \/ PQ!PushStores(t) \/ PQ!PushFails(t) =>
                    PQ!Contents' = PQ!Contents
           /\ \A t \in pqSenders :
                PQ!PushCounts(t) =>
                    /\ PQ!Contents' = Append(PQ!Contents, packet[t])
                    /\ Len(PQ!Contents) < pqCapacity
           /\ PQ!Pop => /\ PQ!Contents # <<>> /\ PQ!Contents' = Tail(PQ!Contents)
                     /\ out' = Append(out, Head(PQ!Contents))
           /\ PQ!Reserve => PQ!Contents = <<>> /\ PQ!Contents' = <<>>
           /\ PQ!Reset => PQ!Contents' = <<>>
           /\ PQ!DoDisconnect \/ UNCHANGED PQ!vars => PQ!Contents' = PQ!Contents
<1> DEFINE S == PQ!Packets \cup {PQ!NoPacket}
<1> USE DEF PendingInv
<1>1. /\ PQ!Contents = ItemsOf(capacity, head, count, buffer)
      /\ PQ!Contents' = ItemsOf(capacity', head', count', buffer')
  BY DEF PQ!Contents, ItemsOf
<1>2. ASSUME UNCHANGED PQ!ring PROVE PQ!Contents' = PQ!Contents
  BY <1>2 DEF PQ!ring, PQ!Contents
<1>3. ASSUME NEW t \in pqSenders, PQ!SendPacket(t) \/ PQ!PushFails(t)
      PROVE  PQ!Contents' = PQ!Contents
  BY <1>2, <1>3 DEF PQ!SendPacket, PQ!PushFails
<1>4. ASSUME NEW t \in pqSenders, PQ!PushStores(t) PROVE PQ!Contents' = PQ!Contents
  <2>1. /\ capacity \in Nat /\ capacity > 0 /\ head \in 0 .. capacity - 1
        /\ count \in 0 .. capacity - 1 /\ buffer \in [0 .. capacity - 1 -> S]
    BY <1>4 DEF PQ!PushStores, PQ!IsFull, PQ!TypeOK, RingInv
  <2>2. tail = IF head + count < capacity THEN head + count ELSE head + count - capacity
    BY <2>1, TailIs
  <2>3. SameBut(tail, capacity, buffer', buffer)
    BY <1>4, <2>1 DEF PQ!PushStores, PQ!TypeOK, SameBut
  <2> HIDE DEF S
  <2>4. ItemsOf(capacity, head, count, buffer') = ItemsOf(capacity, head, count, buffer)
    BY <2>1, <2>2, <2>3, ItemsStored
  <2> QED
    BY <1>1, <1>4, <2>4 DEF PQ!PushStores
<1>5. ASSUME NEW t \in pqSenders, PQ!PushCounts(t)
      PROVE  PQ!Contents' = Append(PQ!Contents, packet[t]) /\ Len(PQ!Contents) < pqCapacity
  <2>1. /\ capacity \in Nat /\ capacity > 0 /\ head \in 0 .. capacity - 1
        /\ count \in 0 .. capacity - 1 /\ buffer \in [0 .. capacity - 1 -> S]
        /\ buffer[(head + count) % capacity] = packet[t]
    BY <1>5 DEF PQ!PushCounts, PQ!TypeOK, RingInv, PushInv
  <2>2. capacity = pqCapacity
    BY <1>5 DEF PQ!PushCounts, PooledInv
  <2>3. UNCHANGED <<capacity, head, buffer, out>> /\ count' = count + 1
    BY <1>5 DEF PQ!PushCounts
  <2> HIDE DEF S
  <2>4. PQ!Contents' = Append(PQ!Contents, packet[t])
    BY <1>1, <2>1, <2>3, ItemsPut
  <2>5. IsItems(PQ!Contents, S, capacity, head, count, buffer)
    <3>1. count \in 0 .. capacity
      BY <2>1
    <3> QED
      BY <1>1, <2>1, <3>1, ItemsAre
  <2>6. Len(PQ!Contents) < pqCapacity
    BY <2>1, <2>2, <2>5 DEF IsItems
  <2> QED
    BY <2>4, <2>6
<1>6. ASSUME PQ!Pop PROVE /\ PQ!Contents # <<>> /\ PQ!Contents' = Tail(PQ!Contents)
                       /\ out' = Append(out, Head(PQ!Contents))
  <2>1. /\ capacity \in Nat /\ capacity > 0 /\ head \in 0 .. capacity - 1
        /\ count \in 1 .. capacity /\ buffer \in [0 .. capacity - 1 -> S]
    BY <1>6 DEF PQ!Pop, PQ!IsEmpty, PQ!TypeOK, RingInv
  <2>2. /\ UNCHANGED <<capacity, buffer>> /\ head' = (head + 1) % capacity
        /\ count' = count - 1 /\ out' = Append(out, buffer[head])
    BY <1>6 DEF PQ!Pop, PQ!Advanced
  <2> HIDE DEF S
  <2>3. PQ!Contents # <<>> /\ Head(PQ!Contents) = buffer[head] /\ PQ!Contents' = Tail(PQ!Contents)
    BY <1>1, <2>1, <2>2, ItemsGot
  <2> QED
    BY <2>2, <2>3
<1>7. ASSUME PQ!Reserve PROVE PQ!Contents = <<>> /\ PQ!Contents' = <<>>
  BY <1>7 DEF PQ!Reserve, PQ!Resize, PooledInv, PQ!Contents
<1>8. ASSUME PQ!Reset PROVE PQ!Contents' = <<>>
  BY <1>8 DEF PQ!Reset, PQ!ClearPendingQueue, PQ!Contents
<1>9. ASSUME PQ!DoDisconnect \/ UNCHANGED PQ!vars PROVE PQ!Contents' = PQ!Contents
  BY <1>2, <1>9 DEF PQ!DoDisconnect, PQ!vars
<1> QED
  BY <1>3, <1>4, <1>5, <1>6, <1>7, <1>8, <1>9

LEMMA ItemsAreSeq == ASSUME PendingInv PROVE PQ!Contents \in Seq(PQ!Packets \cup {PQ!NoPacket})
<1> USE DEF PendingInv
<1>1. CASE capacity > 0
  <2> DEFINE S == PQ!Packets \cup {PQ!NoPacket}
  <2>1. /\ capacity \in Nat /\ head \in 0 .. capacity - 1 /\ count \in 0 .. capacity
        /\ buffer \in [0 .. capacity - 1 -> S]
    BY <1>1 DEF PQ!TypeOK, RingInv
  <2>2. PQ!Contents = ItemsOf(capacity, head, count, buffer)
    BY DEF PQ!Contents, ItemsOf
  <2> HIDE DEF S
  <2>3. PQ!Contents \in Seq(S)
    BY <1>1, <2>1, <2>2, ItemsAre DEF IsItems
  <2> QED
    BY <2>3 DEF S
<1>2. CASE capacity = 0
  BY <1>2 DEF PQ!TypeOK, RingInv, PQ!Contents
<1> QED
  BY <1>1, <1>2 DEF PQ!TypeOK

LEMMA FifoStep ==
    ASSUME PQ!PendingQueueAssumption, ~pqLate, PendingInv, PendingInv', [PQ!Next]_(PQ!vars)
    PROVE  [PQ!Fifo!FifoNext]_<<PQ!Contents, out>>
<1>1. ASSUME NEW t \in pqSenders, PQ!SendPacket(t) \/ PQ!PushStores(t) \/ PQ!PushFails(t)
      PROVE  UNCHANGED <<PQ!Contents, out>>
  BY <1>1, ItemsStep DEF PQ!SendPacket, PQ!PushStores, PQ!PushFails
<1>2. ASSUME NEW t \in pqSenders, PQ!PushCounts(t) PROVE PQ!Fifo!FifoNext
  <2>1. packet[t] \in PQ!Packets
    BY <1>2 DEF PendingInv, PushInv, PQ!PushCounts
  <2> QED
    BY <1>2, <2>1, ItemsStep DEF PQ!PushCounts, PQ!Fifo!FifoNext, PQ!Fifo!Put
<1>3. CASE PQ!Pop
  BY <1>3, ItemsStep DEF PQ!Fifo!FifoNext, PQ!Fifo!Get
<1>4. CASE PQ!Reserve
  BY <1>4, ItemsStep DEF PQ!Reserve
<1>5. CASE PQ!Reset
  BY <1>5, ItemsStep DEF PQ!Reset, PQ!Fifo!FifoNext, PQ!Fifo!Drop
<1>6. CASE PQ!DoDisconnect \/ UNCHANGED PQ!vars
  BY <1>6, ItemsStep DEF PQ!DoDisconnect, PQ!vars
<1> QED
  BY <1>1, <1>2, <1>3, <1>4, <1>5, <1>6 DEF PQ!Next

\* ImplementsFifo: the packets flow control defers leave in the order they came in, none
\* of them twice, and only the release of the session drops any.
THEOREM PendingIsFifo ==
    ASSUME PQ!PendingQueueAssumption, ~pqLate
    PROVE  PQ!Spec => PQ!ImplementsFifo
<1>1. PQ!Init => PendingInv /\ PQ!Fifo!FifoInit
  BY InitPending DEF PQ!Init, PQ!Fifo!FifoInit, PQ!Contents
<1>2. PendingInv /\ [PQ!Next]_(PQ!vars) => PendingInv'
  BY StepPending
<1>3. PendingInv /\ PendingInv' /\ [PQ!Next]_(PQ!vars) => [PQ!Fifo!FifoNext]_<<PQ!Contents, out>>
  BY FifoStep
<1> QED
  BY <1>1, <1>2, <1>3, PTL DEF PQ!Spec, PQ!ImplementsFifo, PQ!Fifo!FifoSpec

(* Whose the packets are, and where each is.                               *)

\* What waits, in the ring or with a sender, was made for the connection the slot serves.
OwnInv ==
    /\ made \in 0 .. pqMaxPackets
    /\ \A i \in DOMAIN PQ!Contents : PQ!Contents[i] \in 1 .. made /\ madeIn[PQ!Contents[i]] = lives
    /\ \A t \in pqSenders : pqPc[t] # "idle" => packet[t] \in 1 .. made /\ madeIn[packet[t]] = lives

LEMMA OwnStep ==
    ASSUME PQ!PendingQueueAssumption, ~pqLate, PendingInv, PendingInv', OwnInv,
           [PQ!Next]_(PQ!vars)
    PROVE  OwnInv'
<1> USE DEF PendingInv
<1>1. /\ PQ!Contents \in Seq(PQ!Packets \cup {PQ!NoPacket}) /\ pqMaxPackets \in Nat
      /\ DOMAIN PQ!Contents = 1 .. Len(PQ!Contents) /\ Len(PQ!Contents) \in Nat
  BY ItemsAreSeq DEF PQ!PendingQueueAssumption
<1>2. ASSUME NEW t \in pqSenders, PQ!SendPacket(t) PROVE OwnInv'
  <2>1. PQ!Contents' = PQ!Contents /\ made' = made + 1 /\ made < pqMaxPackets /\ lives' = lives
    BY <1>2, ItemsStep DEF PQ!SendPacket, PQ!slotVars
  <2>2. \A n \in 1 .. made : madeIn'[n] = madeIn[n]
    BY <1>1, <1>2 DEF PQ!SendPacket, PQ!TypeOK, OwnInv, PQ!Packets
  <2>3. packet'[t] = made + 1 /\ madeIn'[made + 1] = lives
    BY <1>1, <1>2, <2>1 DEF PQ!SendPacket, PQ!TypeOK, OwnInv, PQ!Packets
  <2>4. \A u \in pqSenders : u # t => pqPc'[u] = pqPc[u] /\ packet'[u] = packet[u]
    BY <1>2 DEF PQ!SendPacket, PQ!TypeOK
  <2>5. \A i \in DOMAIN PQ!Contents' :
            PQ!Contents'[i] \in 1 .. made' /\ madeIn'[PQ!Contents'[i]] = lives'
    BY <1>1, <2>1, <2>2 DEF OwnInv
  <2>6. \A u \in pqSenders :
            pqPc'[u] # "idle" => packet'[u] \in 1 .. made' /\ madeIn'[packet'[u]] = lives'
    BY <1>1, <2>1, <2>2, <2>3, <2>4 DEF OwnInv
  <2> QED
    BY <1>1, <2>1, <2>5, <2>6 DEF OwnInv
<1>3. ASSUME NEW t \in pqSenders, PQ!PushStores(t) \/ PQ!PushFails(t) PROVE OwnInv'
  <2>1. PQ!Contents' = PQ!Contents /\ UNCHANGED <<made, madeIn, lives>>
    BY <1>3, ItemsStep DEF PQ!PushStores, PQ!PushFails, PQ!slotVars
  <2>2. \A u \in pqSenders : pqPc'[u] # "idle" => pqPc[u] # "idle" /\ packet'[u] = packet[u]
    BY <1>3 DEF PQ!PushStores, PQ!PushFails, PQ!TypeOK
  <2> QED
    BY <2>1, <2>2 DEF OwnInv
<1>4. ASSUME NEW t \in pqSenders, PQ!PushCounts(t) PROVE OwnInv'
  <2>1. PQ!Contents' = Append(PQ!Contents, packet[t]) /\ UNCHANGED <<made, madeIn, lives>>
    BY <1>4, ItemsStep DEF PQ!PushCounts, PQ!slotVars
  <2>2. \A u \in pqSenders : pqPc'[u] # "idle" => pqPc[u] # "idle" /\ packet'[u] = packet[u]
    BY <1>4 DEF PQ!PushCounts, PQ!TypeOK
  <2>3. packet[t] \in 1 .. made /\ madeIn[packet[t]] = lives
    BY <1>4 DEF PQ!PushCounts, OwnInv
  <2>4. \A i \in DOMAIN PQ!Contents' :
           \/ i \in DOMAIN PQ!Contents /\ PQ!Contents'[i] = PQ!Contents[i]
           \/ PQ!Contents'[i] = packet[t]
    BY <1>1, <2>1
  <2> QED
    BY <2>1, <2>2, <2>3, <2>4 DEF OwnInv
<1>5. CASE PQ!Pop
  <2>1. /\ PQ!Contents # <<>> /\ PQ!Contents' = Tail(PQ!Contents)
        /\ UNCHANGED <<made, madeIn, lives, pqPc, packet>>
    BY <1>5, ItemsStep DEF PQ!Pop, PQ!slotVars, PQ!senderVars
  <2>2. \A i \in DOMAIN PQ!Contents' :
            i + 1 \in DOMAIN PQ!Contents /\ PQ!Contents'[i] = PQ!Contents[i + 1]
    BY <1>1, <2>1
  <2> QED
    BY <2>1, <2>2 DEF OwnInv
<1>6. CASE PQ!Reserve
  BY <1>6, ItemsStep DEF PQ!Reserve, PooledInv, OwnInv, PQ!senderVars
<1>7. CASE PQ!Reset
  BY <1>7, ItemsStep DEF PQ!Reset, OwnInv, PQ!senderVars
<1>8. CASE PQ!DoDisconnect \/ UNCHANGED PQ!vars
  BY <1>8, ItemsStep DEF PQ!DoDisconnect, OwnInv, PQ!vars, PQ!senderVars, PQ!slotVars
<1> QED
  BY <1>2, <1>3, <1>4, <1>5, <1>6, <1>7, <1>8 DEF PQ!Next

LEMMA OwnHolds ==
    ASSUME PQ!PendingQueueAssumption, ~pqLate PROVE PQ!Spec => [](PendingInv /\ OwnInv)
<1>1. PQ!Init => PendingInv /\ OwnInv
  <2>1. PQ!Init => OwnInv
    BY DEF PQ!Init, OwnInv, PQ!Contents, PQ!PendingQueueAssumption
  <2> QED
    BY <2>1, InitPending
<1>2. PendingInv /\ OwnInv /\ [PQ!Next]_(PQ!vars) => (PendingInv /\ OwnInv)'
  BY StepPending, OwnStep
<1> QED
  BY <1>1, <1>2, PTL DEF PQ!Spec

\* OwnPackets: what the logic worker takes out for a connection was put in for it, in
\* whichever order senders, a release and the next reservation of the slot come.
THEOREM TakenForOwnConnection ==
    ASSUME PQ!PendingQueueAssumption, ~pqLate PROVE PQ!Spec => PQ!OwnPackets
<1> DEFINE Own == \E n \in PQ!Packets : out' = Append(out, n) /\ madeIn[n] = lives
<1>1. ASSUME PendingInv, PendingInv', OwnInv, [PQ!Next]_(PQ!vars)
      PROVE  [out' # out => Own]_(PQ!vars)
  <2> SUFFICES ASSUME out' # out PROVE Own
    OBVIOUS
  <2>1. PQ!Pop
    BY <1>1 DEF PQ!Next, PQ!vars, PQ!SendPacket, PQ!PushStores, PQ!PushCounts, PQ!PushFails,
                PQ!Reserve, PQ!DoDisconnect,
                PQ!Reset
  <2>2. PQ!Contents # <<>> /\ out' = Append(out, Head(PQ!Contents))
    BY <1>1, <2>1, ItemsStep
  <2>3. Head(PQ!Contents) \in 1 .. made /\ madeIn[Head(PQ!Contents)] = lives
    BY <1>1, <2>2, ItemsAreSeq DEF OwnInv
  <2>4. Head(PQ!Contents) \in PQ!Packets
    BY <1>1, <2>3 DEF OwnInv, PQ!Packets, PQ!PendingQueueAssumption
  <2> QED
    BY <2>2, <2>3, <2>4
<1>2. PendingInv /\ PendingInv' /\ OwnInv /\ [PQ!Next]_(PQ!vars) => [out' # out => Own]_(PQ!vars)
  BY <1>1
<1> QED
  BY <1>2, OwnHolds, PTL DEF PQ!Spec, PQ!OwnPackets

RangeOf(s) == {s[i] : i \in DOMAIN s}
NoneTwice(s) == \A i, j \in DOMAIN s : s[i] = s[j] => i = j
Carried == {packet[t] : t \in pqSenders} \ {PQ!NoPacket}

\* A packet that was made is in one of four places, and there once.
PlaceInv ==
    /\ \A t \in pqSenders : pqPc[t] = "idle" <=> packet[t] = PQ!NoPacket
    /\ \A t, u \in pqSenders : packet[t] = packet[u] /\ packet[t] # PQ!NoPacket => t = u
    /\ NoneTwice(PQ!Contents) /\ NoneTwice(out)
    /\ \A n \in 1 .. made : \/ n \in Carried \/ n \in RangeOf(PQ!Contents)
                            \/ n \in RangeOf(out) \/ n \in freed
    /\ Carried \cap (RangeOf(PQ!Contents) \cup RangeOf(out) \cup freed) = {}
    /\ RangeOf(PQ!Contents) \cap (RangeOf(out) \cup freed) = {} /\ RangeOf(out) \cap freed = {}
    /\ Carried \cup RangeOf(PQ!Contents) \cup RangeOf(out) \cup freed \subseteq 1 .. made

LEMMA Appended ==
    ASSUME NEW S, NEW s \in Seq(S), NEW x \in S, NoneTwice(s), x \notin RangeOf(s)
    PROVE  NoneTwice(Append(s, x)) /\ RangeOf(Append(s, x)) = RangeOf(s) \cup {x}
<1> DEFINE u == Append(s, x)
<1>1. /\ DOMAIN u = 1 .. Len(s) + 1 /\ DOMAIN s = 1 .. Len(s) /\ Len(s) \in Nat
      /\ \A i \in 1 .. Len(s) : u[i] = s[i]
      /\ u[Len(s) + 1] = x
  OBVIOUS
<1> HIDE DEF u
<1>2. \A i \in DOMAIN u : i \in DOMAIN s \/ i = Len(s) + 1
  BY <1>1
<1>3. NoneTwice(u)
  BY <1>1, <1>2 DEF NoneTwice, RangeOf
<1>4. RangeOf(u) = RangeOf(s) \cup {x}
  <2>1. ASSUME NEW y \in RangeOf(u) PROVE y \in RangeOf(s) \cup {x}
    BY <1>1, <1>2 DEF RangeOf
  <2>2. ASSUME NEW y \in RangeOf(s) \cup {x} PROVE y \in RangeOf(u)
    <3>1. CASE y = x
      BY <1>1, <3>1 DEF RangeOf
    <3>2. CASE y \in RangeOf(s)
      BY <1>1, <3>2 DEF RangeOf
    <3> QED
      BY <3>1, <3>2
  <2> QED
    BY <2>1, <2>2
<1> QED
  BY <1>3, <1>4 DEF u

LEMMA Beheaded ==
    ASSUME NEW S, NEW s \in Seq(S), s # <<>>, NoneTwice(s)
    PROVE  /\ NoneTwice(Tail(s)) /\ RangeOf(Tail(s)) = RangeOf(s) \ {Head(s)}
           /\ Head(s) \in RangeOf(s) /\ Head(s) \in S
<1> DEFINE u == Tail(s)
<1>1. /\ DOMAIN u = 1 .. Len(s) - 1 /\ DOMAIN s = 1 .. Len(s) /\ Len(s) \in Nat \ {0}
      /\ \A i \in 1 .. Len(s) - 1 : u[i] = s[i + 1]
      /\ Head(s) = s[1] /\ s[1] \in S
  OBVIOUS
<1> HIDE DEF u
<1>2. \A i \in DOMAIN u : i + 1 \in DOMAIN s /\ i + 1 # 1 /\ u[i] = s[i + 1]
  BY <1>1
<1>3. NoneTwice(u)
  <2> SUFFICES ASSUME NEW i \in DOMAIN u, NEW j \in DOMAIN u, u[i] = u[j] PROVE i = j
    BY DEF NoneTwice
  <2>1. i + 1 = j + 1
    BY <1>2 DEF NoneTwice
  <2> QED
    BY <1>1, <2>1
<1>4. \A y \in RangeOf(u) : y \in RangeOf(s) \ {s[1]}
  BY <1>1, <1>2 DEF RangeOf, NoneTwice
<1>5. ASSUME NEW y \in RangeOf(s), y # s[1] PROVE y \in RangeOf(u)
  <2>1. PICK i \in DOMAIN s : y = s[i]
    BY DEF RangeOf
  <2>2. i - 1 \in DOMAIN u /\ u[i - 1] = s[i]
    BY <1>1, <1>5, <2>1
  <2> QED
    BY <2>1, <2>2 DEF RangeOf
<1>6. s[1] \in RangeOf(s)
  BY <1>1 DEF RangeOf
<1> QED
  BY <1>1, <1>3, <1>4, <1>5, <1>6 DEF u

LEMMA PlaceStep ==
    ASSUME PQ!PendingQueueAssumption, ~pqLate, PendingInv, PendingInv', OwnInv, PlaceInv,
           [PQ!Next]_(PQ!vars)
    PROVE  PlaceInv'
<1> USE DEF PendingInv
<1>1. /\ PQ!Contents \in Seq(PQ!Packets \cup {PQ!NoPacket})
      /\ out \in Seq(PQ!Packets \cup {PQ!NoPacket})
      /\ made \in Nat /\ PQ!NoPacket \notin 1 .. made
  BY ItemsAreSeq DEF PQ!TypeOK, PQ!NoPacket
<1>2. ASSUME NEW t \in pqSenders, PQ!SendPacket(t) PROVE PlaceInv'
  <2>1. /\ PQ!Contents' = PQ!Contents /\ made' = made + 1 /\ pqPc[t] = "idle"
        /\ UNCHANGED <<out, freed>>
    BY <1>2, ItemsStep DEF PQ!SendPacket
  <2>2. packet'[t] = made + 1 /\ pqPc'[t] = "checked" /\ packet[t] = PQ!NoPacket
    BY <1>2 DEF PQ!SendPacket, PQ!TypeOK, PlaceInv
  <2>3. \A u \in pqSenders : u # t => pqPc'[u] = pqPc[u] /\ packet'[u] = packet[u]
    BY <1>2 DEF PQ!SendPacket, PQ!TypeOK
  <2>4. made + 1 # PQ!NoPacket
    BY <1>1 DEF PQ!NoPacket
  <2>5. Carried' = Carried \cup {made + 1}
    BY <2>2, <2>3, <2>4 DEF Carried
  <2>6. made + 1 \notin 1 .. made /\ 1 .. made' = (1 .. made) \cup {made + 1}
    BY <1>1, <2>1
  <2>7. \A u \in pqSenders : packet[u] # made + 1
    BY <2>4, <2>6 DEF PlaceInv, Carried
  <2>8. \A u \in pqSenders : pqPc'[u] = "idle" <=> packet'[u] = PQ!NoPacket
    BY <2>2, <2>3, <2>4 DEF PlaceInv
  <2>9. \A u, v \in pqSenders : packet'[u] = packet'[v] /\ packet'[u] # PQ!NoPacket => u = v
    BY <2>2, <2>3, <2>7 DEF PlaceInv
  <2> QED
    BY <2>1, <2>5, <2>6, <2>8, <2>9 DEF PlaceInv
<1>3. ASSUME NEW t \in pqSenders, PQ!PushStores(t) PROVE PlaceInv'
  <2>1. PQ!Contents' = PQ!Contents /\ UNCHANGED <<packet, made, out, freed>>
    BY <1>3, ItemsStep DEF PQ!PushStores
  <2>2. \A u \in pqSenders : pqPc'[u] = "idle" <=> pqPc[u] = "idle"
    BY <1>3 DEF PQ!PushStores, PQ!TypeOK
  <2> QED
    BY <2>1, <2>2 DEF PlaceInv, Carried
<1>4. ASSUME NEW t \in pqSenders, PQ!PushCounts(t) \/ PQ!PushFails(t)
      PROVE  /\ \A u \in pqSenders : pqPc'[u] = "idle" <=> packet'[u] = PQ!NoPacket
             /\ \A u, v \in pqSenders : packet'[u] = packet'[v] /\ packet'[u] # PQ!NoPacket => u = v
             /\ Carried' = Carried \ {packet[t]} /\ packet[t] \in Carried /\ made' = made
             /\ packet[t] \in 1 .. made /\ packet[t] \in PQ!Packets /\ out' = out
  <2>1. pqPc[t] # "idle" /\ pqPc'[t] = "idle" /\ packet'[t] = PQ!NoPacket /\ UNCHANGED <<made, out>>
    BY <1>4 DEF PQ!PushCounts, PQ!PushFails, PQ!TypeOK
  <2>2. \A u \in pqSenders : u # t => pqPc'[u] = pqPc[u] /\ packet'[u] = packet[u]
    BY <1>4 DEF PQ!PushCounts, PQ!PushFails, PQ!TypeOK
  <2>3. packet[t] # PQ!NoPacket /\ packet[t] \in Carried /\ packet[t] \in 1 .. made
    BY <2>1 DEF PlaceInv, Carried
  <2>4. Carried' = Carried \ {packet[t]}
    <3>1. \A u \in pqSenders : u # t => packet[u] # packet[t]
      BY <2>3 DEF PlaceInv
    <3> QED
      BY <2>1, <2>2, <3>1 DEF Carried
  <2>5. packet[t] \in PQ!Packets
    BY <2>3 DEF PQ!TypeOK
  <2> QED
    BY <2>1, <2>2, <2>3, <2>4, <2>5 DEF PlaceInv
<1>5. ASSUME NEW t \in pqSenders, PQ!PushCounts(t) PROVE PlaceInv'
  <2>1. PQ!Contents' = Append(PQ!Contents, packet[t]) /\ freed' = freed
    BY <1>5, ItemsStep DEF PQ!PushCounts
  <2>2. packet[t] \in PQ!Packets \cup {PQ!NoPacket} /\ packet[t] \notin RangeOf(PQ!Contents)
    BY <1>4, <1>5 DEF PlaceInv
  <2>3. NoneTwice(PQ!Contents') /\ RangeOf(PQ!Contents') = RangeOf(PQ!Contents) \cup {packet[t]}
    BY <1>1, <2>1, <2>2, Appended DEF PlaceInv
  <2> QED
    BY <1>4, <1>5, <2>1, <2>3 DEF PlaceInv
<1>6. ASSUME NEW t \in pqSenders, PQ!PushFails(t) PROVE PlaceInv'
  <2>1. PQ!Contents' = PQ!Contents /\ freed' = freed \cup {packet[t]}
    BY <1>6, ItemsStep DEF PQ!PushFails
  <2> QED
    BY <1>4, <1>6, <2>1 DEF PlaceInv
<1>7. CASE PQ!Pop
  <2> DEFINE x == Head(PQ!Contents)
  <2>1. /\ PQ!Contents # <<>> /\ PQ!Contents' = Tail(PQ!Contents) /\ out' = Append(out, x)
        /\ UNCHANGED <<pqPc, packet, made, freed>>
    BY <1>7, ItemsStep DEF PQ!Pop, PQ!senderVars
  <2>2. /\ NoneTwice(PQ!Contents') /\ RangeOf(PQ!Contents') = RangeOf(PQ!Contents) \ {x}
        /\ x \in RangeOf(PQ!Contents) /\ x \in PQ!Packets \cup {PQ!NoPacket}
    BY <1>1, <2>1, Beheaded DEF PlaceInv
  <2>3. x \notin RangeOf(out)
    BY <2>2 DEF PlaceInv
  <2>4. NoneTwice(out') /\ RangeOf(out') = RangeOf(out) \cup {x}
    BY <1>1, <2>1, <2>2, <2>3, Appended DEF PlaceInv
  <2> HIDE DEF x
  <2> QED
    BY <2>1, <2>2, <2>4 DEF PlaceInv, Carried
<1>8. CASE PQ!Reserve
  <2>1. PQ!Contents' = PQ!Contents /\ UNCHANGED <<pqPc, packet, made, out, freed>>
    BY <1>8, ItemsStep DEF PQ!Reserve, PQ!senderVars
  <2> QED
    BY <2>1 DEF PlaceInv, Carried
<1>9. CASE PQ!Reset
  <2>1. /\ PQ!Contents' = <<>> /\ freed' = freed \cup RangeOf(PQ!Contents)
        /\ UNCHANGED <<pqPc, packet, made, out>>
    <3>1. freed' = freed \cup {PQ!Contents[i] : i \in 1 .. count} /\ DOMAIN PQ!Contents = 1 .. count
      BY <1>9 DEF PQ!Reset, PQ!ClearPendingQueue, PQ!Contents
    <3> QED
      BY <1>9, <3>1, ItemsStep DEF PQ!Reset, PQ!senderVars, RangeOf
  <2>2. NoneTwice(PQ!Contents') /\ RangeOf(PQ!Contents') = {}
    BY <2>1 DEF NoneTwice, RangeOf
  <2> QED
    BY <2>1, <2>2 DEF PlaceInv, Carried
<1>10. CASE PQ!DoDisconnect \/ UNCHANGED PQ!vars
  <2>1. PQ!Contents' = PQ!Contents /\ UNCHANGED <<pqPc, packet, made, out, freed>>
    BY <1>10, ItemsStep DEF PQ!DoDisconnect, PQ!senderVars, PQ!vars
  <2> QED
    BY <2>1 DEF PlaceInv, Carried
<1> QED
  BY <1>2, <1>3, <1>5, <1>6, <1>7, <1>8, <1>9, <1>10 DEF PQ!Next

LEMMA CardinalityPQ == \A S : PQ!Cardinality(S) = Cardinality(S)
BY DEF PQ!Cardinality, Cardinality

LEMMA IndicesOf ==
    ASSUME NEW s, NEW n, NoneTwice(s)
    PROVE  PQ!Cardinality({i \in DOMAIN s : s[i] = n}) = IF n \in RangeOf(s) THEN 1 ELSE 0
<1> DEFINE T == {i \in DOMAIN s : s[i] = n}
<1>1. CASE n \in RangeOf(s)
  <2>1. PICK i \in DOMAIN s : s[i] = n
    BY <1>1 DEF RangeOf
  <2>2. T = {i}
    BY <2>1 DEF NoneTwice
  <2> QED
    BY <1>1, <2>2, FS_Singleton, CardinalityPQ
<1>2. CASE n \notin RangeOf(s)
  <2>1. T = {}
    BY <1>2 DEF RangeOf
  <2> QED
    BY <1>2, <2>1, FS_EmptySet, CardinalityPQ
<1> QED
  BY <1>1, <1>2

\* EachPacketSomewhere: however senders, the logic worker, a full ring and the release of the
\* session cross, a packet is with its sender, in the ring, taken out or freed, and once.
THEOREM NoPacketLost ==
    ASSUME PQ!PendingQueueAssumption, ~pqLate PROVE PQ!Spec => []PQ!EachPacketSomewhere
<1>1. ASSUME PendingInv, PlaceInv PROVE PQ!EachPacketSomewhere
  <2> SUFFICES ASSUME NEW n \in 1 .. made PROVE PQ!Places(n) = 1
    BY DEF PQ!EachPacketSomewhere
  <2>1. n # PQ!NoPacket
    BY DEF PQ!NoPacket
  <2>2. PQ!Cardinality({t \in pqSenders : packet[t] = n}) = IF n \in Carried THEN 1 ELSE 0
    <3>1. CASE n \in Carried
      <4>1. PICK t \in pqSenders : packet[t] = n
        BY <3>1 DEF Carried
      <4>2. {u \in pqSenders : packet[u] = n} = {t}
        BY <1>1, <2>1, <4>1 DEF PlaceInv
      <4> QED
        BY <3>1, <4>2, FS_Singleton, CardinalityPQ
    <3>2. CASE n \notin Carried
      <4>1. {u \in pqSenders : packet[u] = n} = {}
        BY <2>1, <3>2 DEF Carried
      <4> QED
        BY <3>2, <4>1, FS_EmptySet, CardinalityPQ
    <3> QED
      BY <3>1, <3>2
  <2>3. PQ!Cardinality({i \in 1 .. count : PQ!Contents[i] = n})
            = IF n \in RangeOf(PQ!Contents) THEN 1 ELSE 0
    <3>1. DOMAIN PQ!Contents = 1 .. count
      BY DEF PQ!Contents
    <3>2. NoneTwice(PQ!Contents)
      BY <1>1 DEF PlaceInv
    <3>3. PQ!Cardinality({i \in DOMAIN PQ!Contents : PQ!Contents[i] = n})
             = IF n \in RangeOf(PQ!Contents) THEN 1 ELSE 0
      BY <3>2, IndicesOf
    <3> QED
      BY <3>1, <3>3
  <2>4. PQ!Cardinality({i \in DOMAIN out : out[i] = n}) = IF n \in RangeOf(out) THEN 1 ELSE 0
    BY <1>1, IndicesOf DEF PlaceInv
  <2>5. \/ n \in Carried /\ n \notin RangeOf(PQ!Contents) /\ n \notin RangeOf(out) /\ n \notin freed
        \/ n \notin Carried /\ n \in RangeOf(PQ!Contents) /\ n \notin RangeOf(out) /\ n \notin freed
        \/ n \notin Carried /\ n \notin RangeOf(PQ!Contents) /\ n \in RangeOf(out) /\ n \notin freed
        \/ n \notin Carried /\ n \notin RangeOf(PQ!Contents) /\ n \notin RangeOf(out) /\ n \in freed
    BY <1>1 DEF PlaceInv
  <2> QED
    BY <2>2, <2>3, <2>4, <2>5 DEF PQ!Places
<1>2. PQ!Init => PlaceInv
  BY DEF PQ!Init, PlaceInv, Carried, RangeOf, NoneTwice, PQ!Contents, PQ!NoPacket
<1>3. PendingInv /\ PendingInv' /\ OwnInv /\ PlaceInv /\ [PQ!Next]_(PQ!vars) => PlaceInv'
  BY PlaceStep
<1> QED
  BY <1>1, <1>2, <1>3, OwnHolds, PTL DEF PQ!Spec

-------------------------------------------------------------------------------
(* The session broker: acceptor, workers and the queue between them.         *)

\* The operators that BQ takes from the library are those of the library.
LEMMA BQLibrary ==
    \A S : BQ!Cardinality(S) = Cardinality(S) /\ BQ!IsFiniteSet(S) = IsFiniteSet(S)
BY DEF BQ!Cardinality, Cardinality, BQ!IsFiniteSet, IsFiniteSet

WorkerPcs == {"off", "loop", "woken", "test", "tested", "asleep", "handle", "ended"}
AcceptorPcs == {"off", "accept", "push", "notify", "ended"}
StopperPcs == {"off", "joinAcceptor", "request", "notify", "stopped"}
Places == {"outside", "backlog", "acceptor", "queue", "worker", "closed"}

BrokerTyped ==
    /\ bqIsRunning \in BOOLEAN /\ listening \in BOOLEAN
    /\ place \in [bqClients -> Places]
    /\ acceptor \in [pc : AcceptorPcs, client : bqClients \union {bqNone}]
    /\ bqWorker \in [BQ!Workers -> [pc : WorkerPcs, client : bqClients \union {bqNone}]]
    /\ clientQueue \in Seq(bqClients) /\ lockOwner \in BQ!Workers \union {bqNone}
    /\ stopRequested \subseteq 0 .. bqThreads
    /\ bqStopper \in [pc : StopperPcs, next : Nat]

\* clientQueueLock is held by the worker that tests, and nobody pushes behind its back.
LockIsHeld ==
    /\ \A w \in BQ!Workers : bqWorker[w].pc \in {"test", "tested"} <=> lockOwner = w
    /\ \A w \in BQ!Workers : bqWorker[w].pc = "tested" => clientQueue = << >>

\* Nobody runs before Start, and the threads that Stop has joined stay ended.
ThreadsFollowStop ==
    /\ bqStopper.pc = "off" /\ ~ bqIsRunning =>
          acceptor.pc = "off" /\ \A w \in BQ!Workers : bqWorker[w].pc = "off"
    /\ acceptor.pc # "off" => \A w \in BQ!Workers : bqWorker[w].pc # "off"
    /\ bqStopper.pc \in {"request", "notify", "stopped"} => acceptor.pc = "ended"
    /\ BQ!StoppedIsQuiet

\* A client in the queue is about to be notified of, or some worker will look again.
WillLook(w) == bqWorker[w].pc \in {"loop", "woken", "test", "handle"}
NoWakeupLost ==
    /\ clientQueue # << >> /\ acceptor.pc # "notify"
    /\ \A w \in BQ!Workers : bqWorker[w].pc # "ended"
    => \E w \in BQ!Workers : WillLook(w)

\* Who has a socket says so, and what is said to be with somebody is with one.
HolderOf ==
    /\ acceptor.client # bqNone <=> acceptor.pc = "push"
    /\ \A w \in BQ!Workers : bqWorker[w].client # bqNone <=> bqWorker[w].pc = "handle"
    /\ \A c \in bqClients : acceptor.client = c <=> place[c] = "acceptor"
    /\ \A w \in BQ!Workers : bqWorker[w].client # bqNone => place[bqWorker[w].client] = "worker"
    /\ \A v, w \in BQ!Workers :
          bqWorker[v].client # bqNone /\ bqWorker[v].client = bqWorker[w].client => v = w
    /\ \A c \in bqClients : place[c] = "worker" => \E w \in BQ!Workers : bqWorker[w].client = c

Queued ==
    /\ \A i \in 1 .. Len(clientQueue) : place[clientQueue[i]] = "queue"
    /\ \A i, j \in 1 .. Len(clientQueue) : clientQueue[i] = clientQueue[j] => i = j
    /\ \A c \in bqClients : place[c] = "queue" =>
          \E i \in 1 .. Len(clientQueue) : clientQueue[i] = c

BrokerInv ==
    BrokerTyped /\ LockIsHeld /\ ThreadsFollowStop /\ NoWakeupLost /\ HolderOf /\ Queued

LEMMA IdleIs ==
    ASSUME NEW pc, NEW Pcs, pc \in Pcs
    PROVE  /\ BQ!Idle(pc) \in [pc : Pcs, client : bqClients \union {bqNone}]
           /\ BQ!Idle(pc).pc = pc /\ BQ!Idle(pc).client = bqNone
BY DEF BQ!Idle

LEMMA WakeTyped ==
    ASSUME BrokerInv, NEW ws
    PROVE  BQ!Wake(ws) \in [BQ!Workers -> [pc : WorkerPcs, client : bqClients \union {bqNone}]]
<1>1. BQ!Idle("woken") \in [pc : WorkerPcs, client : bqClients \union {bqNone}]
  BY IdleIs DEF WorkerPcs
<1> QED
  BY <1>1 DEF BQ!Wake, BrokerInv, BrokerTyped

LEMMA InitHolds == ASSUME BQ!BrokerQueueAssumption, BQ!Init PROVE BrokerInv
<1> USE DEF BQ!Init
<1>1. BrokerTyped
  <2>1. BQ!Idle("off") \in [pc : WorkerPcs, client : bqClients \union {bqNone}]
    BY IdleIs DEF WorkerPcs
  <2>2. BQ!Idle("off") \in [pc : AcceptorPcs, client : bqClients \union {bqNone}]
    BY IdleIs DEF AcceptorPcs
  <2>3. clientQueue \in Seq(bqClients) /\ bqStopper \in [pc : StopperPcs, next : Nat]
    BY DEF StopperPcs
  <2> QED
    BY <2>1, <2>2, <2>3 DEF BrokerTyped, Places
<1>2. LockIsHeld /\ ThreadsFollowStop /\ NoWakeupLost
  BY IdleIs DEF LockIsHeld, ThreadsFollowStop, NoWakeupLost, BQ!StoppedIsQuiet,
     BQ!BrokerQueueAssumption
<1>3. HolderOf
  BY IdleIs DEF HolderOf, BQ!BrokerQueueAssumption
<1>4. Queued
  BY DEF Queued
<1> QED
  BY <1>1, <1>2, <1>3, <1>4 DEF BrokerInv

LEMMA StartHolds ==
    ASSUME BQ!BrokerQueueAssumption, BrokerInv, BQ!Start
    PROVE  BrokerInv'
<1>1. /\ bqWorker' = [w \in BQ!Workers |-> BQ!Idle("loop")] /\ acceptor' = BQ!Idle("accept")
      /\ listening' = TRUE /\ bqIsRunning' = TRUE /\ bqStopper.pc = "off" /\ ~ bqIsRunning
      /\ UNCHANGED <<place, clientQueue, lockOwner, stopRequested, bqStopper>>
  BY DEF BQ!Start, BQ!queueVars
<1>2. \A w \in BQ!Workers : /\ bqWorker'[w].pc = "loop" /\ bqWorker'[w].client = bqNone
                          /\ bqWorker[w].pc = "off" /\ bqWorker[w].client = bqNone
  BY <1>1, IdleIs DEF BrokerInv, ThreadsFollowStop, HolderOf
<1>3. /\ acceptor'.pc = "accept" /\ acceptor'.client = bqNone
      /\ acceptor.pc = "off" /\ acceptor.client = bqNone
  BY <1>1, IdleIs DEF BrokerInv, ThreadsFollowStop, HolderOf
<1>4. BrokerTyped'
  <2>1. BQ!Idle("loop") \in [pc : WorkerPcs, client : bqClients \union {bqNone}]
    BY IdleIs DEF WorkerPcs
  <2>2. BQ!Idle("accept") \in [pc : AcceptorPcs, client : bqClients \union {bqNone}]
    BY IdleIs DEF AcceptorPcs
  <2> QED
    BY <1>1, <2>1, <2>2 DEF BrokerInv, BrokerTyped
<1>5. LockIsHeld'
  BY <1>1, <1>2 DEF BrokerInv, LockIsHeld
<1>6. ThreadsFollowStop'
  BY <1>1, <1>2, <1>3 DEF ThreadsFollowStop, BQ!StoppedIsQuiet
<1>7. NoWakeupLost'
  <2>1. 1 \in BQ!Workers
    BY DEF BQ!Workers, BQ!BrokerQueueAssumption
  <2> QED
    BY <1>2, <2>1 DEF NoWakeupLost, WillLook
<1>8. HolderOf'
  BY <1>1, <1>2, <1>3 DEF BrokerInv, HolderOf
<1>9. Queued'
  BY <1>1 DEF BrokerInv, Queued
<1> QED
  BY <1>4, <1>5, <1>6, <1>7, <1>8, <1>9 DEF BrokerInv

LEMMA ConnectHolds ==
    ASSUME BQ!BrokerQueueAssumption, BrokerInv, NEW c \in bqClients, BQ!ClientConnects(c)
    PROVE  BrokerInv'
<1> USE DEF BrokerInv, BrokerTyped, BQ!ClientConnects, BQ!queueVars, BQ!controlVars
<1>1. BrokerTyped' /\ LockIsHeld'
  BY DEF LockIsHeld, BQ!BrokerQueueAssumption, WorkerPcs, AcceptorPcs, StopperPcs, Places
<1>2. ThreadsFollowStop' /\ NoWakeupLost'
  BY DEF ThreadsFollowStop, BQ!StoppedIsQuiet, NoWakeupLost, LockIsHeld, WillLook
<1>3. HolderOf' /\ Queued'
  BY DEF HolderOf, Queued, BQ!BrokerQueueAssumption, Places
<1> QED
  BY <1>1, <1>2, <1>3 DEF BrokerInv

LEMMA AcceptHolds ==
    ASSUME BQ!BrokerQueueAssumption, BrokerInv, NEW c \in bqClients, BQ!Accept(c)
    PROVE  BrokerInv'
<1> USE DEF BrokerInv, BrokerTyped, BQ!Accept, BQ!queueVars, BQ!controlVars
<1>1. BrokerTyped' /\ LockIsHeld'
  BY DEF LockIsHeld, BQ!BrokerQueueAssumption, WorkerPcs, AcceptorPcs, StopperPcs, Places
<1>2. ThreadsFollowStop' /\ NoWakeupLost'
  BY DEF ThreadsFollowStop, BQ!StoppedIsQuiet, NoWakeupLost, LockIsHeld, WillLook
<1>3. HolderOf' /\ Queued'
  BY DEF HolderOf, Queued, BQ!BrokerQueueAssumption, Places
<1> QED
  BY <1>1, <1>2, <1>3 DEF BrokerInv

LEMMA AcceptEndsHolds ==
    ASSUME BQ!BrokerQueueAssumption, BrokerInv, BQ!AcceptEnds
    PROVE  BrokerInv'
<1> USE DEF BrokerInv, BrokerTyped, BQ!AcceptEnds, BQ!Idle, BQ!queueVars, BQ!controlVars
<1>1. BrokerTyped' /\ LockIsHeld'
  BY DEF LockIsHeld, BQ!BrokerQueueAssumption, WorkerPcs, AcceptorPcs, StopperPcs, Places
<1>2. ThreadsFollowStop' /\ NoWakeupLost'
  BY DEF ThreadsFollowStop, BQ!StoppedIsQuiet, NoWakeupLost, LockIsHeld, WillLook
<1>3. HolderOf' /\ Queued'
  BY DEF HolderOf, Queued, BQ!BrokerQueueAssumption, Places
<1> QED
  BY <1>1, <1>2, <1>3 DEF BrokerInv

LEMMA PushHolds ==
    ASSUME BQ!BrokerQueueAssumption, BrokerInv, BQ!Push
    PROVE  BrokerInv'
<1> USE DEF BrokerInv, BrokerTyped, BQ!Push, BQ!controlVars
<1>1. BrokerTyped'
  <2>1. acceptor.client \in bqClients
    BY DEF HolderOf
  <2>2. BQ!Idle("notify") \in [pc : AcceptorPcs, client : bqClients \union {bqNone}]
    BY IdleIs DEF AcceptorPcs
  <2>3. Append(clientQueue, acceptor.client) \in Seq(bqClients)
    BY <2>1
  <2> QED
    BY <2>1, <2>2, <2>3 DEF Places
<1>2. LockIsHeld'
  BY DEF LockIsHeld, BQ!BrokerQueueAssumption
<1>3. ThreadsFollowStop'
  BY IdleIs DEF ThreadsFollowStop, BQ!StoppedIsQuiet
<1>4. NoWakeupLost'
  BY IdleIs DEF NoWakeupLost
<1>5. HolderOf'
  <2>1. acceptor.client \in bqClients /\ place[acceptor.client] = "acceptor"
    BY DEF HolderOf
  <2>2. /\ place'[acceptor.client] = "queue" /\ bqWorker' = bqWorker
        /\ \A d \in bqClients : d # acceptor.client => place'[d] = place[d]
        /\ acceptor'.pc = "notify" /\ acceptor'.client = bqNone
    BY <2>1, IdleIs
  <2>3. \A c \in bqClients : c # bqNone
    BY DEF BQ!BrokerQueueAssumption
  <2>4. \A w \in BQ!Workers : bqWorker[w].client # bqNone =>
            bqWorker[w].client \in bqClients /\ bqWorker[w].client # acceptor.client
    BY <2>1 DEF HolderOf
  <2> QED
    BY <2>1, <2>2, <2>3, <2>4 DEF HolderOf
<1>6. Queued'
  <2> DEFINE c == acceptor.client
             n == Len(clientQueue)
  <2>1. c \in bqClients /\ place[c] = "acceptor" /\ n \in Nat
    BY DEF HolderOf
  <2>2. /\ Len(clientQueue') = n + 1 /\ clientQueue'[n + 1] = c
        /\ \A i \in 1 .. n : clientQueue'[i] = clientQueue[i] /\ clientQueue[i] \in bqClients
    BY <2>1
  <2>3. /\ place'[c] = "queue"
        /\ \A d \in bqClients : d # c => place'[d] = place[d]
    BY <2>1
  <2>4. \A i \in 1 .. n : place[clientQueue[i]] = "queue" /\ clientQueue[i] # c
    BY <2>1 DEF Queued
  <2>5. \A i \in 1 .. n + 1 : i = n + 1 \/ i \in 1 .. n
    BY <2>1
  <2>6. 1 .. n \subseteq 1 .. n + 1 /\ n + 1 \in 1 .. n + 1
    BY <2>1
  <2>7. \A i \in 1 .. n + 1 : place'[clientQueue'[i]] = "queue"
    BY <2>2, <2>3, <2>4, <2>5
  <2>8. \A i, j \in 1 .. n + 1 : clientQueue'[i] = clientQueue'[j] => i = j
    BY <2>2, <2>4, <2>5 DEF Queued
  <2>9. \A d \in bqClients : place'[d] = "queue" => \E i \in 1 .. n + 1 : clientQueue'[i] = d
    <3> SUFFICES ASSUME NEW d \in bqClients, place'[d] = "queue"
                 PROVE  \E i \in 1 .. n + 1 : clientQueue'[i] = d
      OBVIOUS
    <3>1. CASE d = c
      BY <2>2, <2>6, <3>1
    <3>2. CASE d # c
      <4>1. PICK i \in 1 .. n : clientQueue[i] = d
        BY <2>3, <3>2 DEF Queued
      <4> QED
        BY <2>2, <2>6, <4>1
    <3> QED
      BY <3>1, <3>2
  <2> QED
    BY <2>2, <2>7, <2>8, <2>9 DEF Queued
<1> QED
  BY <1>1, <1>2, <1>3, <1>4, <1>5, <1>6 DEF BrokerInv

LEMMA NotifyOneHolds ==
    ASSUME BQ!BrokerQueueAssumption, BrokerInv, BQ!NotifyOne
    PROVE  BrokerInv'
<1>1. /\ acceptor.pc = "notify" /\ acceptor' = BQ!Idle("accept")
      /\ acceptor'.pc = "accept" /\ acceptor'.client = bqNone
      /\ UNCHANGED <<place, clientQueue, lockOwner, bqIsRunning, listening, stopRequested, bqStopper>>
  BY IdleIs DEF BQ!NotifyOne, BQ!queueVars, BQ!controlVars
<1>2. bqWorker' \in [BQ!Workers -> [pc : WorkerPcs, client : bqClients \union {bqNone}]]
  <2>1. bqWorker' = bqWorker \/ \E w \in BQ!Asleep : bqWorker' = BQ!Wake({w})
    BY DEF BQ!NotifyOne
  <2>2. CASE bqWorker' = bqWorker
    BY <2>2 DEF BrokerInv, BrokerTyped
  <2>3. ASSUME NEW w \in BQ!Asleep, bqWorker' = BQ!Wake({w})
        PROVE  bqWorker' \in [BQ!Workers -> [pc : WorkerPcs, client : bqClients \union {bqNone}]]
    BY <2>3, WakeTyped
  <2> QED
    BY <2>1, <2>2, <2>3
<1>3. \A w \in BQ!Workers :
         \/ bqWorker'[w] = bqWorker[w]
         \/ /\ bqWorker[w].pc = "asleep" /\ bqWorker[w].client = bqNone
            /\ bqWorker'[w].pc = "woken" /\ bqWorker'[w].client = bqNone
  <2>1. bqWorker' = bqWorker \/ \E v \in BQ!Asleep : bqWorker' = BQ!Wake({v})
    BY DEF BQ!NotifyOne
  <2>2. ASSUME NEW v \in BQ!Asleep, bqWorker' = BQ!Wake({v}), NEW w \in BQ!Workers
        PROVE  \/ bqWorker'[w] = bqWorker[w]
               \/ bqWorker[w].pc = "asleep" /\ bqWorker'[w] = BQ!Idle("woken")
    BY <2>2 DEF BQ!Wake
  <2>3. \A w \in BQ!Workers : bqWorker[w].pc = "asleep" => bqWorker[w].client = bqNone
    BY DEF BrokerInv, HolderOf
  <2>4. BQ!Idle("woken").pc = "woken" /\ BQ!Idle("woken").client = bqNone
    BY DEF BQ!Idle
  <2> QED
    BY <2>1, <2>2, <2>3, <2>4
<1>4. BrokerTyped'
  BY <1>1, <1>2, IdleIs DEF BrokerInv, BrokerTyped, AcceptorPcs
<1>5. LockIsHeld'
  BY <1>1, <1>3 DEF BrokerInv, LockIsHeld
<1>6. ThreadsFollowStop'
  BY <1>1, <1>3 DEF BrokerInv, ThreadsFollowStop, BQ!StoppedIsQuiet
<1>7. NoWakeupLost'
  <2>1. CASE BQ!Asleep = {}
    <3>1. 1 \in BQ!Workers
      BY DEF BQ!Workers, BQ!BrokerQueueAssumption
    <3>2. bqWorker' = bqWorker
      BY <2>1 DEF BQ!NotifyOne
    <3>3. bqWorker[1].pc \in WorkerPcs /\ bqWorker[1].pc # "asleep"
      BY <2>1, <3>1 DEF BQ!Asleep, BrokerInv, BrokerTyped
    <3>4. bqWorker[1].pc # "off" /\ (clientQueue # << >> => bqWorker[1].pc # "tested")
      BY <1>1, <3>1 DEF BrokerInv, ThreadsFollowStop, LockIsHeld
    <3> QED
      BY <1>1, <3>1, <3>2, <3>3, <3>4 DEF NoWakeupLost, WillLook, WorkerPcs
  <2>2. CASE BQ!Asleep # {}
    <3>1. PICK w \in BQ!Asleep : bqWorker' = BQ!Wake({w})
      BY <2>2 DEF BQ!NotifyOne
    <3>2. w \in BQ!Workers /\ bqWorker'[w].pc = "woken"
      BY <3>1, IdleIs DEF BQ!Asleep, BQ!Wake
    <3> QED
      BY <3>2 DEF NoWakeupLost, WillLook
  <2> QED
    BY <2>1, <2>2
<1>8. HolderOf'
  BY <1>1, <1>3 DEF BrokerInv, HolderOf
<1>9. Queued'
  BY <1>1 DEF BrokerInv, Queued
<1> QED
  BY <1>4, <1>5, <1>6, <1>7, <1>8, <1>9 DEF BrokerInv

LEMMA LoopHolds ==
    ASSUME BQ!BrokerQueueAssumption, BrokerInv, NEW w \in BQ!Workers, BQ!WorkerLoops(w)
    PROVE  BrokerInv'
<1> USE DEF BrokerInv, BrokerTyped, BQ!WorkerLoops, BQ!Idle, BQ!queueVars, BQ!controlVars
<1>1. BrokerTyped' /\ LockIsHeld'
  BY DEF LockIsHeld, BQ!BrokerQueueAssumption, WorkerPcs, AcceptorPcs, StopperPcs, Places
<1>2. ThreadsFollowStop' /\ NoWakeupLost'
  BY DEF ThreadsFollowStop, BQ!StoppedIsQuiet, NoWakeupLost, LockIsHeld, WillLook
<1>3. HolderOf' /\ Queued'
  BY DEF HolderOf, Queued, BQ!BrokerQueueAssumption, Places
<1> QED
  BY <1>1, <1>2, <1>3 DEF BrokerInv

LEMMA LockHolds ==
    ASSUME BQ!BrokerQueueAssumption, BrokerInv, NEW w \in BQ!Workers, BQ!Lock(w)
    PROVE  BrokerInv'
<1> USE DEF BrokerInv, BrokerTyped, BQ!Lock, BQ!Idle, BQ!controlVars
<1>1. BrokerTyped' /\ LockIsHeld'
  BY DEF LockIsHeld, BQ!BrokerQueueAssumption, WorkerPcs, AcceptorPcs, StopperPcs, Places
<1>2. ThreadsFollowStop' /\ NoWakeupLost'
  BY DEF ThreadsFollowStop, BQ!StoppedIsQuiet, NoWakeupLost, LockIsHeld, WillLook
<1>3. HolderOf' /\ Queued'
  BY DEF HolderOf, Queued, BQ!BrokerQueueAssumption, Places
<1> QED
  BY <1>1, <1>2, <1>3 DEF BrokerInv

LEMMA TestFailsHolds ==
    ASSUME BQ!BrokerQueueAssumption, BrokerInv, NEW w \in BQ!Workers, BQ!TestFails(w)
    PROVE  BrokerInv'
<1> USE DEF BrokerInv, BrokerTyped, BQ!TestFails, BQ!Idle, BQ!queueVars, BQ!controlVars
<1>1. BrokerTyped' /\ LockIsHeld'
  BY DEF LockIsHeld, BQ!BrokerQueueAssumption, WorkerPcs, AcceptorPcs, StopperPcs, Places
<1>2. ThreadsFollowStop' /\ NoWakeupLost'
  BY DEF ThreadsFollowStop, BQ!StoppedIsQuiet, NoWakeupLost, LockIsHeld, WillLook
<1>3. HolderOf' /\ Queued'
  BY DEF HolderOf, Queued, BQ!BrokerQueueAssumption, Places
<1> QED
  BY <1>1, <1>2, <1>3 DEF BrokerInv

LEMMA SleepHolds ==
    ASSUME BQ!BrokerQueueAssumption, BrokerInv, NEW w \in BQ!Workers, BQ!Sleep(w)
    PROVE  BrokerInv'
<1> USE DEF BrokerInv, BrokerTyped, BQ!Sleep, BQ!Idle, BQ!controlVars
<1>1. BrokerTyped' /\ LockIsHeld'
  BY DEF LockIsHeld, BQ!BrokerQueueAssumption, WorkerPcs, AcceptorPcs, StopperPcs, Places
<1>2. ThreadsFollowStop' /\ NoWakeupLost'
  BY DEF ThreadsFollowStop, BQ!StoppedIsQuiet, NoWakeupLost, LockIsHeld, WillLook
<1>3. HolderOf' /\ Queued'
  BY DEF HolderOf, Queued, BQ!BrokerQueueAssumption, Places
<1> QED
  BY <1>1, <1>2, <1>3 DEF BrokerInv

LEMMA SpuriousHolds ==
    ASSUME BQ!BrokerQueueAssumption, BrokerInv, NEW w \in BQ!Workers, BQ!SpuriousWakeup(w)
    PROVE  BrokerInv'
<1> USE DEF BrokerInv, BrokerTyped, BQ!SpuriousWakeup, BQ!Idle, BQ!Wake, BQ!queueVars,
    BQ!controlVars
<1>1. BrokerTyped' /\ LockIsHeld'
  BY DEF LockIsHeld, BQ!BrokerQueueAssumption, WorkerPcs, AcceptorPcs, StopperPcs, Places
<1>2. ThreadsFollowStop' /\ NoWakeupLost'
  BY DEF ThreadsFollowStop, BQ!StoppedIsQuiet, NoWakeupLost, LockIsHeld, WillLook
<1>3. HolderOf' /\ Queued'
  BY DEF HolderOf, Queued, BQ!BrokerQueueAssumption, Places
<1> QED
  BY <1>1, <1>2, <1>3 DEF BrokerInv

LEMMA PopHolds ==
    ASSUME BQ!BrokerQueueAssumption, BrokerInv, NEW w \in BQ!Workers, BQ!Pop(w)
    PROVE  BrokerInv'
<1> USE DEF BrokerInv, BrokerTyped, BQ!Pop, BQ!controlVars
<1>1. BrokerTyped'
  BY DEF BQ!BrokerQueueAssumption, WorkerPcs, AcceptorPcs, StopperPcs, Places
<1>2. LockIsHeld'
  BY DEF LockIsHeld, BQ!BrokerQueueAssumption
<1>3. ThreadsFollowStop'
  BY DEF ThreadsFollowStop, BQ!StoppedIsQuiet
<1>4. NoWakeupLost'
  BY DEF NoWakeupLost, LockIsHeld, ThreadsFollowStop, WillLook
<1>5. HolderOf'
  <2> DEFINE c == Head(clientQueue)
  <2>1. c \in bqClients /\ place[c] = "queue" /\ place' = [place EXCEPT ![c] = "worker"]
    <3>1. Len(clientQueue) \in Nat /\ Len(clientQueue) >= 1 /\ c = clientQueue[1]
      OBVIOUS
    <3> QED
      BY <3>1 DEF Queued
  <2>2. /\ bqWorker'[w].pc = "handle" /\ bqWorker'[w].client = c /\ bqWorker[w].client = bqNone
        /\ \A v \in BQ!Workers : v # w => bqWorker'[v] = bqWorker[v]
    BY DEF HolderOf
  <2>3. \A v \in BQ!Workers : bqWorker[v].client # c
    BY <2>1 DEF HolderOf, BQ!BrokerQueueAssumption
  <2>4. c # bqNone
    BY <2>1 DEF BQ!BrokerQueueAssumption
  <2> HIDE DEF c
  <2>5. /\ place'[c] = "worker" /\ \A d \in bqClients : d # c => place'[d] = place[d]
        /\ acceptor' = acceptor
    BY <2>1
  <2>6. \A d \in bqClients : acceptor.client = d <=> place'[d] = "acceptor"
    BY <2>1, <2>5 DEF HolderOf
  <2>7. \A v \in BQ!Workers : bqWorker'[v].client # bqNone <=> bqWorker'[v].pc = "handle"
    BY <2>2, <2>4 DEF HolderOf
  <2>8. \A v \in BQ!Workers : bqWorker'[v].client # bqNone => place'[bqWorker'[v].client] = "worker"
    BY <2>2, <2>5 DEF HolderOf
  <2>9. \A u, v \in BQ!Workers :
            bqWorker'[u].client # bqNone /\ bqWorker'[u].client = bqWorker'[v].client => u = v
    BY <2>2, <2>3 DEF HolderOf
  <2>10. \A d \in bqClients : place'[d] = "worker" => \E v \in BQ!Workers : bqWorker'[v].client = d
    <3>1. ASSUME NEW d \in bqClients, d # c, place'[d] = "worker"
          PROVE  \E v \in BQ!Workers : bqWorker'[v].client = d
      <4>1. PICK v \in BQ!Workers : bqWorker[v].client = d
        BY <2>5, <3>1 DEF HolderOf
      <4>2. d # bqNone
        BY DEF BQ!BrokerQueueAssumption
      <4> QED
        BY <2>2, <4>1, <4>2
    <3> QED
      BY <2>2, <3>1
  <2> QED
    BY <2>5, <2>6, <2>7, <2>8, <2>9, <2>10 DEF HolderOf
<1>6. Queued'
  <2> DEFINE c == Head(clientQueue)
             n == Len(clientQueue)
  <2>1. /\ n \in Nat /\ n >= 1 /\ c = clientQueue[1] /\ c \in bqClients
        /\ clientQueue' = Tail(clientQueue) /\ Len(clientQueue') = n - 1
        /\ \A i \in 1 .. n - 1 : clientQueue'[i] = clientQueue[i + 1] /\ i + 1 \in 1 .. n
    OBVIOUS
  <2>2. \A i \in 1 .. n - 1 : clientQueue[i + 1] # c /\ clientQueue[i + 1] \in bqClients
    BY <2>1 DEF Queued
  <2>3. \A d \in bqClients : d # c => place'[d] = place[d]
    BY <2>1
  <2>4. place'[c] = "worker"
    BY <2>1
  <2>5. \A i \in 1 .. n : i = 1 \/ (i - 1 \in 1 .. n - 1 /\ i = (i - 1) + 1)
    BY <2>1
  <2>6. \A i \in 1 .. n - 1 : place'[clientQueue'[i]] = "queue"
    BY <2>1, <2>2, <2>3 DEF Queued
  <2>7. \A i, j \in 1 .. n - 1 : clientQueue'[i] = clientQueue'[j] => i = j
    BY <2>1 DEF Queued
  <2>8. ASSUME NEW d \in bqClients, place'[d] = "queue"
        PROVE  \E i \in 1 .. n - 1 : clientQueue'[i] = d
    <3>1. d # c /\ place[d] = "queue"
      BY <2>3, <2>4, <2>8
    <3>2. PICK i \in 1 .. n : clientQueue[i] = d
      BY <3>1 DEF Queued
    <3> QED
      BY <2>1, <2>5, <3>1, <3>2
  <2> QED
    BY <2>1, <2>6, <2>7, <2>8 DEF Queued
<1> QED
  BY <1>1, <1>2, <1>3, <1>4, <1>5, <1>6 DEF BrokerInv

LEMMA ReturnHolds ==
    ASSUME BQ!BrokerQueueAssumption, BrokerInv, NEW w \in BQ!Workers, BQ!ReturnWhenStopped(w)
    PROVE  BrokerInv'
<1> USE DEF BrokerInv, BrokerTyped, BQ!ReturnWhenStopped, BQ!Idle, BQ!controlVars
<1>1. BrokerTyped' /\ LockIsHeld'
  BY DEF LockIsHeld, BQ!BrokerQueueAssumption, WorkerPcs, AcceptorPcs, StopperPcs, Places
<1>2. ThreadsFollowStop' /\ NoWakeupLost'
  BY DEF ThreadsFollowStop, BQ!StoppedIsQuiet, NoWakeupLost, LockIsHeld, WillLook
<1>3. HolderOf' /\ Queued'
  BY DEF HolderOf, Queued, BQ!BrokerQueueAssumption, Places
<1> QED
  BY <1>1, <1>2, <1>3 DEF BrokerInv

LEMMA HandleHolds ==
    ASSUME BQ!BrokerQueueAssumption, BrokerInv, NEW w \in BQ!Workers, BQ!HandleClientConnection(w)
    PROVE  BrokerInv'
<1> USE DEF BrokerInv, BrokerTyped, BQ!HandleClientConnection, BQ!Idle, BQ!queueVars, BQ!controlVars
<1>1. BrokerTyped'
  BY DEF BQ!BrokerQueueAssumption, WorkerPcs, AcceptorPcs, StopperPcs, Places
<1>2. LockIsHeld'
  BY DEF LockIsHeld, BQ!BrokerQueueAssumption
<1>3. ThreadsFollowStop'
  BY DEF ThreadsFollowStop, BQ!StoppedIsQuiet
<1>4. NoWakeupLost'
  BY DEF NoWakeupLost, LockIsHeld, ThreadsFollowStop, WillLook
<1>5. HolderOf'
  BY DEF HolderOf, BQ!BrokerQueueAssumption, Places
<1>6. Queued'
  <2>1. bqWorker[w].client \in bqClients /\ place[bqWorker[w].client] = "worker"
    BY DEF HolderOf
  <2>2. \A c \in bqClients : place'[c] = "queue" <=> place[c] = "queue"
    BY <2>1
  <2>3. \A i \in 1 .. Len(clientQueue) : clientQueue[i] \in bqClients
    OBVIOUS
  <2> QED
    BY <2>2, <2>3 DEF Queued
<1> QED
  BY <1>1, <1>2, <1>3, <1>4, <1>5, <1>6 DEF BrokerInv

LEMMA StopHolds ==
    ASSUME BQ!BrokerQueueAssumption, BrokerInv, BQ!Stop
    PROVE  BrokerInv'
<1> USE DEF BrokerInv, BrokerTyped, BQ!Stop, BQ!queueVars, BQ!StopperAt
<1>1. BrokerTyped' /\ LockIsHeld'
  BY DEF LockIsHeld, BQ!BrokerQueueAssumption, WorkerPcs, AcceptorPcs, StopperPcs, Places
<1>2. ThreadsFollowStop' /\ NoWakeupLost'
  BY DEF ThreadsFollowStop, BQ!StoppedIsQuiet, NoWakeupLost, LockIsHeld, WillLook
<1>3. HolderOf' /\ Queued'
  BY DEF HolderOf, Queued, BQ!BrokerQueueAssumption, Places
<1> QED
  BY <1>1, <1>2, <1>3 DEF BrokerInv

LEMMA RequestAcceptorHolds ==
    ASSUME BQ!BrokerQueueAssumption, BrokerInv, BQ!RequestAcceptorStop
    PROVE  BrokerInv'
<1> USE DEF BrokerInv, BrokerTyped, BQ!RequestAcceptorStop, BQ!queueVars
<1>1. BrokerTyped' /\ LockIsHeld'
  BY DEF LockIsHeld, BQ!BrokerQueueAssumption, WorkerPcs, AcceptorPcs, StopperPcs, Places
<1>2. ThreadsFollowStop' /\ NoWakeupLost'
  BY DEF ThreadsFollowStop, BQ!StoppedIsQuiet, NoWakeupLost, LockIsHeld, WillLook
<1>3. HolderOf' /\ Queued'
  BY DEF HolderOf, Queued, BQ!BrokerQueueAssumption, Places
<1> QED
  BY <1>1, <1>2, <1>3 DEF BrokerInv

LEMMA JoinAcceptorHolds ==
    ASSUME BQ!BrokerQueueAssumption, BrokerInv, BQ!JoinAcceptor
    PROVE  BrokerInv'
<1> USE DEF BrokerInv, BrokerTyped, BQ!JoinAcceptor, BQ!queueVars, BQ!StopperAt
<1>1. BrokerTyped' /\ LockIsHeld'
  BY DEF LockIsHeld, BQ!BrokerQueueAssumption, WorkerPcs, AcceptorPcs, StopperPcs, Places
<1>2. ThreadsFollowStop' /\ NoWakeupLost'
  BY DEF ThreadsFollowStop, BQ!StoppedIsQuiet, NoWakeupLost, LockIsHeld, WillLook
<1>3. HolderOf' /\ Queued'
  BY DEF HolderOf, Queued, BQ!BrokerQueueAssumption, Places
<1> QED
  BY <1>1, <1>2, <1>3 DEF BrokerInv

LEMMA RequestWorkerHolds ==
    ASSUME BQ!BrokerQueueAssumption, BrokerInv, BQ!RequestWorkerStop
    PROVE  BrokerInv'
<1> USE DEF BrokerInv, BrokerTyped, BQ!RequestWorkerStop, BQ!queueVars
<1>1. BrokerTyped'
  <2>1. bqStopper.next \in 0 .. bqThreads
    BY DEF BQ!Workers, BQ!BrokerQueueAssumption
  <2>2. bqStopper' \in [pc : StopperPcs, next : Nat]
    BY DEF StopperPcs
  <2> QED
    BY <2>1, <2>2
<1>2. LockIsHeld'
  BY DEF LockIsHeld, BQ!BrokerQueueAssumption
<1>3. ThreadsFollowStop'
  BY DEF ThreadsFollowStop, BQ!StoppedIsQuiet
<1>4. NoWakeupLost'
  BY DEF NoWakeupLost, LockIsHeld, ThreadsFollowStop, WillLook
<1>5. HolderOf'
  BY DEF HolderOf, BQ!BrokerQueueAssumption, Places
<1>6. Queued'
  BY DEF Queued, HolderOf
<1> QED
  BY <1>1, <1>2, <1>3, <1>4, <1>5, <1>6 DEF BrokerInv

LEMMA NotifyAllHolds ==
    ASSUME BQ!BrokerQueueAssumption, BrokerInv, BQ!NotifyAll
    PROVE  BrokerInv'
<1> USE DEF BrokerInv, BrokerTyped, BQ!NotifyAll, BQ!Idle, BQ!Wake, BQ!queueVars
<1>1. BrokerTyped' /\ LockIsHeld'
  BY DEF LockIsHeld, BQ!BrokerQueueAssumption, WorkerPcs, AcceptorPcs, StopperPcs, Places
<1>2. ThreadsFollowStop' /\ NoWakeupLost'
  BY DEF ThreadsFollowStop, BQ!StoppedIsQuiet, NoWakeupLost, LockIsHeld, WillLook
<1>3. HolderOf' /\ Queued'
  BY DEF HolderOf, Queued, BQ!BrokerQueueAssumption, Places
<1> QED
  BY <1>1, <1>2, <1>3 DEF BrokerInv

LEMMA JoinedHolds ==
    ASSUME BQ!BrokerQueueAssumption, BrokerInv, BQ!Joined
    PROVE  BrokerInv'
<1> USE DEF BrokerInv, BrokerTyped, BQ!Joined, BQ!queueVars, BQ!StopperAt
<1>1. BrokerTyped' /\ LockIsHeld'
  BY DEF LockIsHeld, BQ!BrokerQueueAssumption, WorkerPcs, AcceptorPcs, StopperPcs, Places
<1>2. ThreadsFollowStop' /\ NoWakeupLost'
  BY DEF ThreadsFollowStop, BQ!StoppedIsQuiet, NoWakeupLost, LockIsHeld, WillLook
<1>3. HolderOf' /\ Queued'
  BY DEF HolderOf, Queued, BQ!BrokerQueueAssumption, Places
<1> QED
  BY <1>1, <1>2, <1>3 DEF BrokerInv

LEMMA StepHolds == ASSUME BQ!BrokerQueueAssumption PROVE BrokerInv /\ [BQ!Next]_(BQ!vars) => BrokerInv'
<1> SUFFICES ASSUME BrokerInv, [BQ!Next]_(BQ!vars) PROVE BrokerInv'
  OBVIOUS
<1>1. CASE BQ!AcceptorStep
  BY <1>1, AcceptHolds, AcceptEndsHolds, PushHolds, NotifyOneHolds DEF BQ!AcceptorStep
<1>2. CASE BQ!StopperStep
  BY <1>2, RequestAcceptorHolds, JoinAcceptorHolds, RequestWorkerHolds, NotifyAllHolds,
     JoinedHolds
  DEF BQ!StopperStep
<1>3. ASSUME NEW w \in BQ!Workers, BQ!WorkerStep(w) PROVE BrokerInv'
  BY <1>3, LoopHolds, LockHolds, TestFailsHolds, SleepHolds, PopHolds, ReturnHolds, HandleHolds
  DEF BQ!WorkerStep
<1>4. CASE UNCHANGED BQ!vars
  BY <1>4
  DEF BQ!vars, BQ!queueVars, BQ!controlVars, BrokerInv, BrokerTyped, LockIsHeld, ThreadsFollowStop,
      BQ!StoppedIsQuiet, NoWakeupLost, WillLook, HolderOf, Queued
<1> QED
  BY <1>1, <1>2, <1>3, <1>4, StartHolds, StopHolds, ConnectHolds, SpuriousHolds DEF BQ!Next

\* With at most one holder, and one exactly when the place says so, a set of holders has
\* the cardinality that is claimed.
LEMMA OneOrNone ==
    ASSUME NEW S, NEW P, \A x, y \in S : x = y, P <=> S # {}
    PROVE  Cardinality(S) = IF P THEN 1 ELSE 0
<1>1. CASE S = {}
  BY <1>1, FS_EmptySet
<1>2. CASE S # {}
  <2>1. PICK x \in S : TRUE
    BY <1>2
  <2>2. S = {x}
    BY <2>1
  <2> QED
    BY <1>2, <2>2, FS_Singleton
<1> QED
  BY <1>1, <1>2

LEMMA BrokerAlways ==
    ASSUME BQ!BrokerQueueAssumption PROVE BQ!Init /\ [][BQ!Next]_(BQ!vars) => []BrokerInv
BY InitHolds, StepHolds, PTL

LEMMA ServedFromInv == ASSUME BQ!BrokerQueueAssumption, BrokerInv PROVE BQ!ServedByOne
<1> SUFFICES ASSUME NEW c \in bqClients
             PROVE  /\ Cardinality({w \in BQ!Workers : bqWorker[w].client = c})
                         = IF place[c] = "worker" THEN 1 ELSE 0
                    /\ Cardinality({i \in DOMAIN clientQueue : clientQueue[i] = c})
                         = IF place[c] = "queue" THEN 1 ELSE 0
                    /\ (acceptor.client = c) <=> (place[c] = "acceptor")
  BY BQLibrary DEF BQ!ServedByOne
<1> DEFINE serving == {w \in BQ!Workers : bqWorker[w].client = c}
           waiting == {i \in DOMAIN clientQueue : clientQueue[i] = c}
<1>1. c # bqNone
  BY DEF BQ!BrokerQueueAssumption
<1>2. (\A v, w \in serving : v = w) /\ (place[c] = "worker" <=> serving # {})
  BY <1>1 DEF BrokerInv, HolderOf
<1>3. DOMAIN clientQueue = 1 .. Len(clientQueue)
  BY DEF BrokerInv, BrokerTyped
<1>4. (\A i, j \in waiting : i = j) /\ (place[c] = "queue" <=> waiting # {})
  BY <1>3 DEF BrokerInv, Queued
<1>5. (acceptor.client = c) <=> (place[c] = "acceptor")
  BY DEF BrokerInv, HolderOf
<1> HIDE DEF serving, waiting
<1>6. Cardinality(serving) = (IF place[c] = "worker" THEN 1 ELSE 0)
  BY <1>2, OneOrNone
<1>7. Cardinality(waiting) = (IF place[c] = "queue" THEN 1 ELSE 0)
  BY <1>4, OneOrNone
<1> QED
  BY <1>5, <1>6, <1>7 DEF serving, waiting

\* The acceptor, the workers, the stopper and the queue they share have the types of the code.
THEOREM BrokerTypes == ASSUME BQ!BrokerQueueAssumption PROVE BQ!Spec => []BQ!TypeOK
<1>1. BrokerInv => BQ!TypeOK
  BY DEF BrokerInv, BrokerTyped, BQ!TypeOK, WorkerPcs, AcceptorPcs, StopperPcs, Places
<1> QED
  BY <1>1, InitHolds, StepHolds, PTL DEF BQ!Spec

\* An accepted client is with the acceptor, in the queue or with one worker: notifications that
\* wake two workers, and a stop that crosses them, give no socket to two and lose none.
THEOREM EachServedByOne == ASSUME BQ!BrokerQueueAssumption PROVE BQ!Spec => []BQ!ServedByOne
<1> QED
  BY ServedFromInv, InitHolds, StepHolds, PTL DEF BQ!Spec

\* When Stop has returned, acceptor and workers have ended.
THEOREM QuietWhenStopped == ASSUME BQ!BrokerQueueAssumption PROVE BQ!Spec => []BQ!StoppedIsQuiet
<1>1. BrokerInv => BQ!StoppedIsQuiet
  BY DEF BrokerInv, ThreadsFollowStop
<1> QED
  BY <1>1, InitHolds, StepHolds, PTL DEF BQ!Spec

\* No notification is lost: a client waits in the queue only while the acceptor is about to notify
\* or a worker is on its way to look, until the first worker has ended.
THEOREM SomebodyLooks == ASSUME BQ!BrokerQueueAssumption PROVE BQ!Spec => []NoWakeupLost
<1>1. BrokerInv => NoWakeupLost
  BY DEF BrokerInv
<1> QED
  BY <1>1, InitHolds, StepHolds, PTL DEF BQ!Spec

-------------------------------------------------------------------------------
(* The handover of a session by a broker worker, its timeout and the stop.   *)

\* The operators that SH takes from the library are those of the library.
LEMMA SHLibrary ==
    \A S : SH!Cardinality(S) = Cardinality(S)
BY DEF SH!Cardinality, Cardinality

States == {"DISCONNECTED", "RESERVED", "CONNECTED", "RELEASING"}
HandlingPcs == {"idle", "acquire", "init", "resources", "crypto", "test", "abort",
                "disconnect", "send", "giveUp"}
ClosingSteps == {"testReserved", "abort", "testConnected", "disconnect"}

PoolTyped ==
    /\ shState \in [SH!Slot -> States] /\ reservedFor \in [SH!Slot -> shClients \union {0}]
    /\ reservedAt \in [SH!Slot -> 0 .. shClock] /\ shClock \in 0 .. shMaxTime
    /\ free \in Seq(SH!Slot)

WorkersTyped ==
    /\ shPc \in [shWorkers -> HandlingPcs] /\ shClient \in [shWorkers -> shClients \union {0}]
    /\ shSession \in [shWorkers -> 0 .. shSlots]
    /\ \A w \in shWorkers : shPc[w] \notin {"idle", "acquire", "send", "giveUp"} => shSession[w] \in SH!Slot

OthersTyped ==
    /\ info \in [shClients -> 0 .. shSlots] /\ arriving \subseteq shClients
    /\ shHeartbeat \in [slot : 0 .. shSlots, now : 0 .. shClock, due : BOOLEAN]
    /\ shStop \in [step : ClosingSteps \union {"running", "wait", "stopped"}, slot : 0 .. shSlots]
    /\ shStop.step \in ClosingSteps => shStop.slot \in SH!Slot

HandoverTyped == PoolTyped /\ WorkersTyped /\ OthersTyped

\* What holds a slot: the list of unused ids, a worker about to reserve it, or its session.
InList(s) == \E i \in 1 .. Len(free) : free[i] = s
Taken(s) == \E w \in shWorkers : shPc[w] = "init" /\ shSession[w] = s

OneKeeper ==
    /\ \A s \in SH!Slot : shState[s] = "DISCONNECTED" <=> InList(s) \/ Taken(s)
    /\ \A s \in SH!Slot : ~ (InList(s) /\ Taken(s))
    /\ \A i, j \in 1 .. Len(free) : free[i] = free[j] => i = j
    /\ \A v, w \in shWorkers :
          shPc[v] = "init" /\ shPc[w] = "init" /\ shSession[v] = shSession[w] => v = w

HandoverInv == HandoverTyped /\ OneKeeper

\* A reservation found due, and there when the pass read the clock, had its timeout by then.
DueIsDue ==
    /\ shHeartbeat.due => shHeartbeat.slot # 0
    /\ shHeartbeat.due /\ shState[shHeartbeat.slot] = "RESERVED"
          /\ reservedAt[shHeartbeat.slot] < shHeartbeat.now =>
          shHeartbeat.now - reservedAt[shHeartbeat.slot] >= shTimeout

\* Nobody takes or gives up a slot: the one who has it has it still.
LEMMA StillKept ==
    ASSUME OneKeeper, UNCHANGED free,
           \A s \in SH!Slot : shState'[s] = "DISCONNECTED" <=> shState[s] = "DISCONNECTED",
           \A w \in shWorkers : shPc'[w] = "init" <=> shPc[w] = "init",
           \A w \in shWorkers : shPc[w] = "init" => shSession'[w] = shSession[w]
    PROVE  OneKeeper'
BY DEF OneKeeper, InList, Taken

LEMMA AbortKeeps ==
    ASSUME HandoverTyped, NEW s \in SH!Slot, SH!TryAbortReserved(s) \/ SH!TryTransitionToReleasing(s)
    PROVE  /\ shState' \in [SH!Slot -> States]
           /\ \A t \in SH!Slot : shState'[t] = "DISCONNECTED" <=> shState[t] = "DISCONNECTED"
           /\ \A t \in SH!Slot : shState'[t] = "RESERVED" => shState[t] = "RESERVED"
BY DEF SH!TryAbortReserved, SH!TryTransitionToReleasing, HandoverTyped, PoolTyped, States

LEMMA SlotsAre ==
    ASSUME SH!SessionHandoverAssumption
    PROVE  /\ shSlots \in Nat /\ shSlots >= 1 /\ shMaxTime \in Nat
           /\ SH!Slot \subseteq 0 .. shSlots /\ 0 \in 0 .. shSlots /\ 1 \in SH!Slot
BY DEF SH!SessionHandoverAssumption, SH!Slot

LEMMA HeadAndTail ==
    ASSUME NEW S, NEW q \in Seq(S), q # << >>
    PROVE  /\ Len(q) \in Nat /\ Len(q) >= 1 /\ Head(q) = q[1] /\ q[1] \in S
           /\ Tail(q) \in Seq(S) /\ Len(Tail(q)) = Len(q) - 1
           /\ \A i \in 1 .. Len(q) - 1 : Tail(q)[i] = q[i + 1] /\ i + 1 \in 1 .. Len(q)
  OBVIOUS

LEMMA NextSlotTyped ==
    ASSUME SH!SessionHandoverAssumption, HandoverInv
    PROVE  SH!NextSlot \in [slot : 0 .. shSlots, now : 0 .. shClock, due : BOOLEAN]
<1>1. shHeartbeat.slot # shSlots => shHeartbeat.slot + 1 \in 0 .. shSlots
  BY SlotsAre DEF HandoverInv, HandoverTyped, OthersTyped
<1>2. 0 \in 0 .. shSlots
  BY SlotsAre
<1> QED
  BY <1>1, <1>2 DEF SH!NextSlot, HandoverInv, HandoverTyped, OthersTyped

LEMMA InitHandover == ASSUME SH!SessionHandoverAssumption, SH!Init PROVE HandoverInv
<1>1. shSlots \in Nat /\ shSlots >= 1 /\ shMaxTime \in Nat
  BY DEF SH!SessionHandoverAssumption
<1>2. free \in Seq(SH!Slot) /\ Len(free) = shSlots /\ \A i \in 1 .. shSlots : free[i] = i
  <2>1. free \in [1 .. shSlots -> SH!Slot]
    BY DEF SH!Init, SH!Slot
  <2>2. free \in Seq(SH!Slot)
    BY <1>1, <2>1
  <2>3. Len(free) \in Nat /\ DOMAIN free = 1 .. Len(free)
    BY <2>2
  <2>4. DOMAIN free = 1 .. shSlots
    BY <2>1
  <2>5. Len(free) = shSlots
    <3>1. \A m, n \in Nat : 1 .. m = 1 .. n => m = n
      OBVIOUS
    <3> QED
      BY <1>1, <2>3, <2>4, <3>1
  <2> QED
    BY <2>2, <2>5 DEF SH!Init, SH!Slot
<1>3. HandoverTyped
  BY <1>1, <1>2 DEF SH!Init, HandoverTyped, PoolTyped, WorkersTyped, OthersTyped, States,
     HandlingPcs,
                  ClosingSteps
<1>4. OneKeeper
  BY <1>2 DEF SH!Init, OneKeeper, InList, Taken, SH!Slot
<1> QED
  BY <1>3, <1>4 DEF HandoverInv

LEMMA TickHolds ==
    ASSUME SH!SessionHandoverAssumption, HandoverInv, SH!Tick
    PROVE  HandoverInv'
<1> USE SlotsAre DEF HandoverInv, HandoverTyped, SH!Tick, SH!poolVars, SH!workerVars
<1>1. PoolTyped'
  BY DEF PoolTyped, States
<1>2. WorkersTyped'
  BY DEF WorkersTyped, HandlingPcs
<1>3. OthersTyped'
  BY DEF OthersTyped, PoolTyped, WorkersTyped, ClosingSteps
<1>4. OneKeeper'
  BY StillKept DEF PoolTyped, WorkersTyped
<1> QED
  BY <1>1, <1>2, <1>3, <1>4

LEMMA SHConnectHolds ==
    ASSUME SH!SessionHandoverAssumption, HandoverInv, NEW c \in shClients, SH!Connect(c)
    PROVE  HandoverInv'
<1> USE SlotsAre DEF HandoverInv, HandoverTyped, SH!Connect, SH!poolVars, SH!workerVars
<1>1. PoolTyped'
  BY DEF PoolTyped, States
<1>2. WorkersTyped'
  BY DEF WorkersTyped, HandlingPcs
<1>3. OthersTyped'
  BY DEF OthersTyped, PoolTyped, WorkersTyped, ClosingSteps
<1>4. OneKeeper'
  BY StillKept DEF PoolTyped, WorkersTyped
<1> QED
  BY <1>1, <1>2, <1>3, <1>4

LEMMA EndsHolds ==
    ASSUME SH!SessionHandoverAssumption, HandoverInv, NEW s \in SH!Slot, SH!Ends(s)
    PROVE  HandoverInv'
<1> USE SlotsAre DEF HandoverInv, HandoverTyped, SH!Ends, SH!TryTransitionToReleasing, SH!poolVars,
    SH!workerVars
<1>1. PoolTyped'
  BY DEF PoolTyped, States
<1>2. WorkersTyped'
  BY DEF WorkersTyped, HandlingPcs
<1>3. OthersTyped'
  BY DEF OthersTyped, PoolTyped, WorkersTyped, ClosingSteps
<1>4. OneKeeper'
  BY StillKept DEF PoolTyped, WorkersTyped
<1> QED
  BY <1>1, <1>2, <1>3, <1>4

LEMMA ReleaseHolds ==
    ASSUME SH!SessionHandoverAssumption, HandoverInv, NEW s \in SH!Slot, SH!ReleaseSession(s)
    PROVE  HandoverInv'
<1> USE SlotsAre DEF HandoverInv, HandoverTyped, SH!ReleaseSession, SH!poolVars, SH!workerVars
<1>1. PoolTyped'
  BY DEF PoolTyped, States
<1>2. WorkersTyped'
  BY DEF WorkersTyped, HandlingPcs
<1>3. OthersTyped'
  BY DEF OthersTyped, PoolTyped, WorkersTyped, ClosingSteps
<1>4. OneKeeper'
  <2> DEFINE n == Len(free)
  <2>1. /\ n \in Nat /\ free' = Append(free, s) /\ Len(free') = n + 1 /\ free'[n + 1] = s
        /\ \A i \in 1 .. n : free'[i] = free[i] /\ free[i] \in SH!Slot
    BY DEF PoolTyped, WorkersTyped
  <2>2. \A i \in 1 .. n + 1 : i = n + 1 \/ i \in 1 .. n
    BY <2>1
  <2>3. n + 1 \in 1 .. n + 1 /\ 1 .. n \subseteq 1 .. n + 1
    BY <2>1
  <2>4. ~ InList(s) /\ ~ Taken(s)
    BY DEF OneKeeper
  <2>5. \A i \in 1 .. n : free[i] # s
    BY <2>4 DEF InList
  <2>6. \A t \in SH!Slot : InList(t)' <=> InList(t) \/ t = s
    <3> TAKE t \in SH!Slot
    <3>1. InList(t)' <=> \E i \in 1 .. n + 1 : free'[i] = t
      BY <2>1 DEF InList
    <3> HIDE DEF n
    <3>2. InList(t) <=> \E i \in 1 .. n : free[i] = t
      BY DEF InList, n
    <3> QED
      BY <2>1, <2>2, <2>3, <3>1, <3>2
  <2>7. \A t \in SH!Slot : Taken(t)' <=> Taken(t)
    BY DEF Taken
  <2>8. \A t \in SH!Slot : shState'[t] = "DISCONNECTED" <=> shState[t] = "DISCONNECTED" \/ t = s
    BY DEF PoolTyped, WorkersTyped
  <2>9. \A i, j \in 1 .. n + 1 : free'[i] = free'[j] => i = j
    BY <2>1, <2>2, <2>5 DEF OneKeeper
  <2> QED
    BY <2>1, <2>4, <2>6, <2>7, <2>8, <2>9 DEF OneKeeper
<1> QED
  BY <1>1, <1>2, <1>3, <1>4

LEMMA SHAcceptHolds ==
    ASSUME SH!SessionHandoverAssumption, HandoverInv, NEW w \in shWorkers, NEW c \in shClients, SH!Accept(w, c)
    PROVE  HandoverInv'
<1> USE SlotsAre DEF HandoverInv, HandoverTyped, SH!Accept, SH!GoTo, SH!poolVars, SH!workerVars
<1>1. PoolTyped'
  BY DEF PoolTyped, States
<1>2. WorkersTyped'
  BY DEF WorkersTyped, HandlingPcs
<1>3. OthersTyped'
  BY DEF OthersTyped, PoolTyped, WorkersTyped, ClosingSteps
<1>4. OneKeeper'
  BY StillKept DEF PoolTyped, WorkersTyped
<1> QED
  BY <1>1, <1>2, <1>3, <1>4

LEMMA AcquireHolds ==
    ASSUME SH!SessionHandoverAssumption, HandoverInv, NEW w \in shWorkers, SH!AcquireSession(w)
    PROVE  HandoverInv'
<1> USE SlotsAre DEF HandoverInv, HandoverTyped, SH!AcquireSession, SH!GoTo, SH!poolVars,
    SH!workerVars
<1>1. PoolTyped'
  <2>1. free # << >> => Tail(free) \in Seq(SH!Slot)
    BY HeadAndTail DEF PoolTyped
  <2>2. UNCHANGED <<shState, reservedFor, reservedAt, shClock>> /\ (free' = free \/ free' = Tail(free))
        /\ (free = << >> => free' = free)
    OBVIOUS
  <2> QED
    BY <2>1, <2>2 DEF PoolTyped
<1>2. WorkersTyped'
  <2>1. CASE free = << >>
    BY <2>1 DEF WorkersTyped, HandlingPcs
  <2>2. CASE free # << >>
    <3>1. Head(free) \in SH!Slot
      BY <2>2, HeadAndTail DEF PoolTyped
    <3> QED
      BY <2>2, <3>1 DEF WorkersTyped, HandlingPcs
  <2> QED
    BY <2>1, <2>2
<1>3. OthersTyped'
  BY DEF OthersTyped, PoolTyped, WorkersTyped, ClosingSteps
<1>4. OneKeeper'
  <2>1. CASE free = << >>
    BY <2>1, StillKept DEF PoolTyped, WorkersTyped
  <2>2. CASE free # << >>
    <3> DEFINE n == Len(free)
               s == free[1]
    <3>1. /\ n \in Nat /\ n >= 1 /\ s \in SH!Slot /\ Head(free) = s
          /\ free' = Tail(free) /\ Len(free') = n - 1
          /\ \A i \in 1 .. n - 1 : free'[i] = free[i + 1] /\ i + 1 \in 1 .. n
      <4>1. free \in Seq(SH!Slot) /\ free' = Tail(free)
        BY <2>2 DEF PoolTyped
      <4> QED
        BY <2>2, <4>1, HeadAndTail
    <3>2. /\ shPc'[w] = "init" /\ shSession'[w] = s /\ shPc[w] # "init" /\ UNCHANGED shState
          /\ \A v \in shWorkers : v # w => shPc'[v] = shPc[v] /\ shSession'[v] = shSession[v]
      BY <2>2, <3>1 DEF PoolTyped, WorkersTyped
    <3>3. \A i \in 1 .. n : i = 1 \/ (i - 1 \in 1 .. n - 1 /\ i = (i - 1) + 1)
      BY <3>1
    <3>4. InList(s) /\ ~ Taken(s)
      BY <3>1 DEF OneKeeper, InList
    <3>5. \A t \in SH!Slot : InList(t)' <=> InList(t) /\ t # s
      <4> TAKE t \in SH!Slot
      <4>1. InList(t)' <=> \E i \in 1 .. n - 1 : free[i + 1] = t
        BY <3>1 DEF InList
      <4>2. \A i \in 1 .. n - 1 : free[i + 1] # s
        BY <3>1 DEF OneKeeper
      <4> HIDE DEF n, s
      <4>3. InList(t) <=> \E i \in 1 .. n : free[i] = t
        BY DEF InList, n
      <4>4. InList(t) <=> s = t \/ \E i \in 1 .. n - 1 : free[i + 1] = t
        <5>1. ASSUME NEW i \in 1 .. n, free[i] = t
              PROVE  s = t \/ \E k \in 1 .. n - 1 : free[k + 1] = t
          <6>1. CASE i = 1
            BY <5>1, <6>1 DEF s
          <6>2. CASE i # 1
            BY <3>3, <5>1, <6>2
          <6> QED
            BY <6>1, <6>2
        <5>2. 1 \in 1 .. n
          BY <3>1
        <5> QED
          BY <3>1, <4>3, <5>1, <5>2 DEF s
      <4> QED
        BY <4>1, <4>2, <4>4
    <3>6. \A t \in SH!Slot : Taken(t)' <=> Taken(t) \/ t = s
      BY <3>2 DEF Taken
    <3>7. \A i, j \in 1 .. n - 1 : free'[i] = free'[j] => i = j
      BY <3>1 DEF OneKeeper
    <3>8. \A u, v \in shWorkers :
              shPc'[u] = "init" /\ shPc'[v] = "init" /\ shSession'[u] = shSession'[v] => u = v
      BY <3>2, <3>4 DEF OneKeeper, Taken
    <3> QED
      BY <3>1, <3>2, <3>4, <3>5, <3>6, <3>7, <3>8 DEF OneKeeper
  <2> QED
    BY <2>1, <2>2
<1> QED
  BY <1>1, <1>2, <1>3, <1>4

LEMMA SetReservedHolds ==
    ASSUME SH!SessionHandoverAssumption, HandoverInv, NEW w \in shWorkers, SH!SetReserved(w)
    PROVE  HandoverInv'
<1> USE SlotsAre DEF HandoverInv, HandoverTyped, SH!SetReserved, SH!GoTo, SH!poolVars, SH!workerVars
<1>1. PoolTyped'
  <2>1. shClient[w] \in shClients \union {0} /\ shClock \in 0 .. shClock
    BY DEF PoolTyped, WorkersTyped
  <2>2. shState' \in [SH!Slot -> States] /\ reservedFor' \in [SH!Slot -> shClients \union {0}]
    BY <2>1 DEF PoolTyped, States
  <2>3. reservedAt' \in [SH!Slot -> 0 .. shClock]
    BY <2>1 DEF PoolTyped
  <2> QED
    BY <2>2, <2>3 DEF PoolTyped
<1>2. WorkersTyped'
  BY DEF WorkersTyped, HandlingPcs
<1>3. OthersTyped'
  BY DEF OthersTyped, PoolTyped, WorkersTyped, ClosingSteps
<1>4. OneKeeper'
  <2> DEFINE s == shSession[w]
  <2>1. s \in SH!Slot /\ Taken(s) /\ ~ InList(s)
    BY DEF HandoverTyped, WorkersTyped, OneKeeper, Taken
  <2>2. /\ shPc'[w] # "init" /\ \A v \in shWorkers : v # w => shPc'[v] = shPc[v]
        /\ UNCHANGED <<free, shSession>>
    BY DEF PoolTyped, WorkersTyped
  <2>3. \A t \in SH!Slot : shState'[t] = "DISCONNECTED" <=> shState[t] = "DISCONNECTED" /\ t # s
    BY <2>1 DEF PoolTyped, WorkersTyped
  <2>4. \A t \in SH!Slot : Taken(t)' <=> Taken(t) /\ t # s
    BY <2>2 DEF Taken, OneKeeper
  <2>5. \A t \in SH!Slot : InList(t)' <=> InList(t)
    BY <2>2 DEF InList
  <2> QED
    BY <2>1, <2>2, <2>3, <2>4, <2>5 DEF OneKeeper
<1> QED
  BY <1>1, <1>2, <1>3, <1>4

LEMMA InitReserveHolds ==
    ASSUME SH!SessionHandoverAssumption, HandoverInv, NEW w \in shWorkers, SH!InitReserveSession(w)
    PROVE  HandoverInv'
<1> USE SlotsAre DEF HandoverInv, HandoverTyped, SH!InitReserveSession, SH!GoTo,
    SH!TryAbortReserved, SH!poolVars, SH!workerVars
<1>1. PoolTyped'
  BY DEF PoolTyped, States
<1>2. WorkersTyped'
  BY DEF WorkersTyped, HandlingPcs
<1>3. OthersTyped'
  BY DEF OthersTyped, PoolTyped, WorkersTyped, ClosingSteps
<1>4. OneKeeper'
  BY StillKept DEF PoolTyped, WorkersTyped
<1> QED
  BY <1>1, <1>2, <1>3, <1>4

LEMMA CryptoHolds ==
    ASSUME SH!SessionHandoverAssumption, HandoverInv, NEW w \in shWorkers, SH!InitSessionCrypto(w)
    PROVE  HandoverInv'
<1> USE SlotsAre DEF HandoverInv, HandoverTyped, SH!InitSessionCrypto, SH!GoTo, SH!poolVars,
    SH!workerVars
<1>1. PoolTyped'
  <2>1. shClock \in 0 .. shClock
    BY DEF PoolTyped
  <2>2. reservedAt' \in [SH!Slot -> 0 .. shClock]
    BY <2>1 DEF PoolTyped
  <2> QED
    BY <2>2 DEF PoolTyped
<1>2. WorkersTyped'
  BY DEF WorkersTyped, HandlingPcs
<1>3. OthersTyped'
  BY DEF OthersTyped, PoolTyped, WorkersTyped, ClosingSteps
<1>4. OneKeeper'
  BY StillKept DEF PoolTyped, WorkersTyped
<1> QED
  BY <1>1, <1>2, <1>3, <1>4

LEMMA TestHolds ==
    ASSUME SH!SessionHandoverAssumption, HandoverInv, NEW w \in shWorkers, SH!TestReserved(w)
    PROVE  HandoverInv'
<1> USE SlotsAre DEF HandoverInv, HandoverTyped, SH!TestReserved, SH!GoTo, SH!poolVars,
    SH!workerVars
<1>1. PoolTyped'
  BY DEF PoolTyped, States
<1>2. WorkersTyped'
  BY DEF WorkersTyped, HandlingPcs
<1>3. OthersTyped'
  BY DEF OthersTyped, PoolTyped, WorkersTyped, ClosingSteps
<1>4. OneKeeper'
  BY StillKept DEF PoolTyped, WorkersTyped
<1> QED
  BY <1>1, <1>2, <1>3, <1>4

LEMMA CleanUpHolds ==
    ASSUME SH!SessionHandoverAssumption, HandoverInv, NEW w \in shWorkers, SH!CleanUp(w)
    PROVE  HandoverInv'
<1> USE SlotsAre DEF HandoverInv, HandoverTyped, SH!CleanUp, SH!GoTo, SH!TryAbortReserved,
    SH!TryTransitionToReleasing, SH!poolVars, SH!workerVars
<1>1. PoolTyped'
  BY DEF PoolTyped, States
<1>2. WorkersTyped'
  BY DEF WorkersTyped, HandlingPcs
<1>3. OthersTyped'
  BY DEF OthersTyped, PoolTyped, WorkersTyped, ClosingSteps
<1>4. OneKeeper'
  BY StillKept DEF PoolTyped, WorkersTyped
<1> QED
  BY <1>1, <1>2, <1>3, <1>4

LEMMA SendInfoHolds ==
    ASSUME SH!SessionHandoverAssumption, HandoverInv, NEW w \in shWorkers, SH!SendSessionInfoToClient(w)
    PROVE  HandoverInv'
<1> USE SlotsAre DEF HandoverInv, HandoverTyped, SH!SendSessionInfoToClient, SH!GoTo, SH!Tell,
    SH!Done, SH!poolVars, SH!workerVars
<1>1. PoolTyped'
  BY DEF PoolTyped, States
<1>2. WorkersTyped'
  BY DEF WorkersTyped, HandlingPcs
<1>3. OthersTyped'
  BY DEF OthersTyped, PoolTyped, WorkersTyped, ClosingSteps
<1>4. OneKeeper'
  BY StillKept DEF PoolTyped, WorkersTyped
<1> QED
  BY <1>1, <1>2, <1>3, <1>4

LEMMA SendFailsHolds ==
    ASSUME SH!SessionHandoverAssumption, HandoverInv, NEW w \in shWorkers, SH!SendFails(w)
    PROVE  HandoverInv'
<1> USE SlotsAre DEF HandoverInv, HandoverTyped, SH!SendFails, SH!GoTo, SH!Tell, SH!poolVars,
    SH!workerVars
<1>1. PoolTyped'
  BY DEF PoolTyped, States
<1>2. WorkersTyped'
  BY DEF WorkersTyped, HandlingPcs
<1>3. OthersTyped'
  BY DEF OthersTyped, PoolTyped, WorkersTyped, ClosingSteps
<1>4. OneKeeper'
  BY StillKept DEF PoolTyped, WorkersTyped
<1> QED
  BY <1>1, <1>2, <1>3, <1>4

LEMMA GiveUpHolds ==
    ASSUME SH!SessionHandoverAssumption, HandoverInv, NEW w \in shWorkers, SH!GiveUp(w)
    PROVE  HandoverInv'
<1> USE SlotsAre DEF HandoverInv, HandoverTyped, SH!GiveUp, SH!GoTo, SH!Done, SH!TryAbortReserved,
    SH!poolVars, SH!workerVars
<1>1. PoolTyped'
  BY DEF PoolTyped, States
<1>2. WorkersTyped'
  BY DEF WorkersTyped, HandlingPcs
<1>3. OthersTyped'
  BY DEF OthersTyped, PoolTyped, WorkersTyped, ClosingSteps
<1>4. OneKeeper'
  BY StillKept DEF PoolTyped, WorkersTyped
<1> QED
  BY <1>1, <1>2, <1>3, <1>4

LEMMA PassBeginsHolds ==
    ASSUME SH!SessionHandoverAssumption, HandoverInv, SH!PassBegins
    PROVE  HandoverInv'
<1> USE SlotsAre DEF HandoverInv, HandoverTyped, SH!PassBegins, SH!poolVars, SH!workerVars
<1>1. PoolTyped'
  BY DEF PoolTyped, States
<1>2. WorkersTyped'
  BY DEF WorkersTyped, HandlingPcs
<1>3. OthersTyped'
  BY DEF OthersTyped, PoolTyped, WorkersTyped, ClosingSteps
<1>4. OneKeeper'
  BY StillKept DEF PoolTyped, WorkersTyped
<1> QED
  BY <1>1, <1>2, <1>3, <1>4

LEMMA HeartbeatHolds ==
    ASSUME SH!SessionHandoverAssumption, HandoverInv, SH!HeartbeatCheck
    PROVE  HandoverInv'
<1> USE SlotsAre DEF HandoverInv, HandoverTyped, SH!HeartbeatCheck, SH!poolVars, SH!workerVars
<1>1. PoolTyped'
  BY DEF PoolTyped, States
<1>2. WorkersTyped'
  BY DEF WorkersTyped, HandlingPcs
<1>3. OthersTyped'
  BY NextSlotTyped DEF OthersTyped
<1>4. OneKeeper'
  BY StillKept DEF PoolTyped, WorkersTyped
<1> QED
  BY <1>1, <1>2, <1>3, <1>4

LEMMA AbortTimedOutHolds ==
    ASSUME SH!SessionHandoverAssumption, HandoverInv, SH!AbortTimedOut
    PROVE  HandoverInv'
<1> USE SlotsAre DEF HandoverInv, HandoverTyped, SH!AbortTimedOut, SH!TryAbortReserved,
    SH!poolVars, SH!workerVars
<1>1. PoolTyped'
  BY DEF PoolTyped, States
<1>2. WorkersTyped'
  BY DEF WorkersTyped, HandlingPcs
<1>3. OthersTyped'
  BY NextSlotTyped DEF OthersTyped
<1>4. OneKeeper'
  BY StillKept DEF PoolTyped, WorkersTyped
<1> QED
  BY <1>1, <1>2, <1>3, <1>4

LEMMA StopServerHolds ==
    ASSUME SH!SessionHandoverAssumption, HandoverInv, SH!StopServer
    PROVE  HandoverInv'
<1> USE SlotsAre DEF HandoverInv, HandoverTyped, SH!StopServer, SH!poolVars, SH!workerVars
<1>1. PoolTyped'
  BY DEF PoolTyped, States
<1>2. WorkersTyped'
  BY DEF WorkersTyped, HandlingPcs
<1>3. OthersTyped'
  BY DEF OthersTyped, PoolTyped, WorkersTyped, ClosingSteps
<1>4. OneKeeper'
  BY StillKept DEF PoolTyped, WorkersTyped
<1> QED
  BY <1>1, <1>2, <1>3, <1>4

LEMMA CloseHolds ==
    ASSUME SH!SessionHandoverAssumption, HandoverInv, SH!CloseAllSessions
    PROVE  HandoverInv'
<1> USE SlotsAre DEF HandoverInv, HandoverTyped, SH!CloseAllSessions, SH!Closed,
    SH!TryAbortReserved, SH!TryTransitionToReleasing, SH!poolVars, SH!workerVars
<1>1. PoolTyped'
  BY DEF PoolTyped, States
<1>2. WorkersTyped'
  BY DEF WorkersTyped, HandlingPcs
<1>3. OthersTyped'
  <2> DEFINE next == IF shStop.slot = shSlots THEN [step |-> "wait", slot |-> 0]
                     ELSE [step |-> "testReserved", slot |-> shStop.slot + 1]
             StopIs == [step : ClosingSteps \union {"running", "wait", "stopped"}, slot : 0 .. shSlots]
  <2>1. shStop.step \in ClosingSteps /\ shStop \in StopIs /\ shStop.slot \in SH!Slot
    BY DEF OthersTyped, ClosingSteps
  <2>2. next \in StopIs /\ (next.step \in ClosingSteps => next.slot \in SH!Slot)
    BY <2>1 DEF SH!Slot, ClosingSteps
  <2>3. \/ shStop' = next
        \/ \E step \in ClosingSteps : shStop' = [shStop EXCEPT !.step = step]
    BY DEF ClosingSteps
  <2> HIDE DEF next
  <2>4. shStop' \in StopIs /\ (shStop'.step \in ClosingSteps => shStop'.slot \in SH!Slot)
    BY <2>1, <2>2, <2>3
  <2> QED
    BY <2>4 DEF OthersTyped
<1>4. OneKeeper'
  BY StillKept DEF PoolTyped, WorkersTyped
<1> QED
  BY <1>1, <1>2, <1>3, <1>4

LEMMA WaitHolds ==
    ASSUME SH!SessionHandoverAssumption, HandoverInv, SH!WaitForAllSessionsReleased
    PROVE  HandoverInv'
<1> USE SlotsAre DEF HandoverInv, HandoverTyped, SH!WaitForAllSessionsReleased, SH!poolVars,
    SH!workerVars
<1>1. PoolTyped'
  BY DEF PoolTyped, States
<1>2. WorkersTyped'
  BY DEF WorkersTyped, HandlingPcs
<1>3. OthersTyped'
  BY DEF OthersTyped, PoolTyped, WorkersTyped, ClosingSteps
<1>4. OneKeeper'
  BY StillKept DEF PoolTyped, WorkersTyped
<1> QED
  BY <1>1, <1>2, <1>3, <1>4

LEMMA StepHandover ==
    ASSUME SH!SessionHandoverAssumption PROVE HandoverInv /\ [SH!Next]_(SH!vars) => HandoverInv'
<1> SUFFICES ASSUME HandoverInv, [SH!Next]_(SH!vars) PROVE HandoverInv'
  OBVIOUS
<1>1. ASSUME NEW w \in shWorkers, SH!Worker(w) PROVE HandoverInv'
  BY <1>1, AcquireHolds, SetReservedHolds, InitReserveHolds, CryptoHolds, TestHolds,
     CleanUpHolds, SendInfoHolds, SendFailsHolds, GiveUpHolds
  DEF SH!Worker
<1>2. ASSUME NEW w \in shWorkers, NEW c \in shClients, SH!Accept(w, c) PROVE HandoverInv'
  BY <1>2, SHAcceptHolds
<1>3. ASSUME NEW s \in SH!Slot, SH!Ends(s) \/ SH!ReleaseSession(s) PROVE HandoverInv'
  BY <1>3, EndsHolds, ReleaseHolds
<1>4. ASSUME NEW c \in shClients, SH!Connect(c) PROVE HandoverInv'
  BY <1>4, SHConnectHolds
<1>5. CASE SH!Tick \/ SH!PassBegins \/ SH!HeartbeatCheck \/ SH!AbortTimedOut \/ SH!StopServer \/ SH!Stopping
  BY <1>5, TickHolds, PassBeginsHolds, HeartbeatHolds, AbortTimedOutHolds, StopServerHolds,
     CloseHolds, WaitHolds
  DEF SH!Stopping
<1>6. CASE UNCHANGED SH!vars
  BY <1>6 DEF SH!vars, SH!poolVars, SH!workerVars, HandoverInv, HandoverTyped, PoolTyped,
     WorkersTyped,
               OthersTyped, OneKeeper, InList, Taken
<1> QED
  BY <1>1, <1>2, <1>3, <1>4, <1>5, <1>6 DEF SH!Next

LEMMA SHOneOrNone ==
    ASSUME NEW S, NEW P, \A x, y \in S : x = y, P <=> S # {}
    PROVE  Cardinality(S) = IF P THEN 1 ELSE 0
<1>1. CASE S = {}
  BY <1>1, FS_EmptySet
<1>2. CASE S # {}
  <2>1. PICK x \in S : TRUE
    BY <1>2
  <2>2. S = {x}
    BY <2>1
  <2> QED
    BY <1>2, <2>2, FS_Singleton
<1> QED
  BY <1>1, <1>2

LEMMA HandoverAlways ==
    ASSUME SH!SessionHandoverAssumption PROVE SH!Init /\ [][SH!Next]_(SH!vars) => []HandoverInv
BY InitHandover, StepHandover, PTL

LEMMA KeptFromInv == ASSUME SH!SessionHandoverAssumption, HandoverInv PROVE SH!NoSlotLeaks
<1> SUFFICES ASSUME NEW s \in SH!Slot PROVE SH!Keepers(s) = 1
  BY DEF SH!NoSlotLeaks
<1> DEFINE listed == {i \in 1 .. Len(free) : free[i] = s}
           takers == {w \in shWorkers : shPc[w] = "init" /\ shSession[w] = s}
<1>1. (\A i, j \in listed : i = j) /\ (InList(s) <=> listed # {})
  BY DEF HandoverInv, OneKeeper, InList
<1>2. (\A v, w \in takers : v = w) /\ (Taken(s) <=> takers # {})
  BY DEF HandoverInv, OneKeeper, Taken
<1>3. SH!Keepers(s) = Cardinality(listed) + Cardinality(takers)
                     + (IF shState[s] = "DISCONNECTED" THEN 0 ELSE 1)
  BY SHLibrary DEF SH!Keepers
<1> HIDE DEF listed, takers
<1>4. Cardinality(listed) = (IF InList(s) THEN 1 ELSE 0)
  BY <1>1, SHOneOrNone
<1>5. Cardinality(takers) = (IF Taken(s) THEN 1 ELSE 0)
  BY <1>2, SHOneOrNone
<1> QED
  BY <1>3, <1>4, <1>5 DEF HandoverInv, OneKeeper

LEMMA TypesFromInv == ASSUME SH!SessionHandoverAssumption, HandoverInv PROVE SH!TypeOK
<1>1. shSlots \in Nat /\ shMaxTime \in Nat /\ shClock \in 0 .. shMaxTime
  BY DEF SH!SessionHandoverAssumption, HandoverInv, HandoverTyped, PoolTyped
<1>2. Len(free) <= shSlots
  <2> DEFINE n == Len(free)
  <2>1. n \in Nat /\ free \in [1 .. n -> SH!Slot]
    BY DEF HandoverInv, HandoverTyped, PoolTyped
  <2>2. \A i, j \in 1 .. n : free[i] = free[j] => i = j
    BY DEF HandoverInv, OneKeeper
  <2> HIDE DEF n
  <2>3. free \in Injection(1 .. n, SH!Slot)
    BY <2>1, <2>2 DEF Injection, IsInjective
  <2>4. IsFiniteSet(SH!Slot) /\ Cardinality(SH!Slot) = shSlots
    BY <1>1, FS_Interval DEF SH!Slot
  <2>5. Cardinality(1 .. n) <= Cardinality(SH!Slot)
    BY <2>3, <2>4, FS_Injection
  <2>6. Cardinality(1 .. n) = n
    BY <2>1, FS_Interval
  <2> QED
    BY <2>4, <2>5, <2>6 DEF n
<1>3. reservedAt \in [SH!Slot -> 0 .. shMaxTime]
  <2>1. 0 .. shClock \subseteq 0 .. shMaxTime
    BY <1>1
  <2> QED
    BY <2>1 DEF HandoverInv, HandoverTyped, PoolTyped
<1> QED
  BY <1>2, <1>3 DEF SH!TypeOK, HandoverInv, HandoverTyped, PoolTyped, WorkersTyped, OthersTyped,
     States

\* Sessions, broker workers, the heartbeat thread and the stop have the types of the code; no
\* reservation lies in the future of the clock.
THEOREM HandoverTypes == ASSUME SH!SessionHandoverAssumption PROVE SH!Spec => []SH!TypeOK
<1> QED
  BY TypesFromInv, InitHandover, StepHandover, PTL DEF SH!Spec

\* A session id is in the list of unused ones, with one worker, or in use: whichever step of a
\* handover fails or crosses the timeout or the stop, none is lost and none is listed twice.
THEOREM SlotsAreKept == ASSUME SH!SessionHandoverAssumption PROVE SH!Spec => []SH!NoSlotLeaks
<1> QED
  BY KeptFromInv, InitHandover, StepHandover, PTL DEF SH!Spec

LEMMA DueTypes ==
    ASSUME SH!SessionHandoverAssumption, HandoverInv
    PROVE  /\ shTimeout \in Nat /\ shTimeout >= 1 /\ shClock \in Nat /\ shClock <= shMaxTime
           /\ 0 \notin SH!Slot /\ \A s \in SH!Slot : reservedAt[s] \in 0 .. shClock
           /\ shState \in [SH!Slot -> States] /\ reservedAt \in [SH!Slot -> Nat]
           /\ \A w \in shWorkers : shPc[w] \in {"init", "resources", "crypto"} => shSession[w] \in SH!Slot
           /\ shHeartbeat.slot # 0 => shHeartbeat.slot \in SH!Slot
           /\ shPc \in [shWorkers -> HandlingPcs]
           /\ shHeartbeat.now \in Nat /\ shHeartbeat.now <= shClock
<1>1. shTimeout \in Nat /\ shTimeout >= 1 /\ shSlots \in Nat
  BY DEF SH!SessionHandoverAssumption
<1>2. shClock \in Nat /\ shClock <= shMaxTime /\ shState \in [SH!Slot -> States]
  BY DEF SH!SessionHandoverAssumption, HandoverInv, HandoverTyped, PoolTyped
<1>3. \A s \in SH!Slot : reservedAt[s] \in 0 .. shClock
  BY DEF HandoverInv, HandoverTyped, PoolTyped
<1>4. reservedAt \in [SH!Slot -> Nat]
  <2>1. 0 .. shClock \subseteq Nat
    BY <1>2
  <2> QED
    BY <2>1 DEF HandoverInv, HandoverTyped, PoolTyped
<1>5. /\ \A w \in shWorkers : shPc[w] \in {"init", "resources", "crypto"} => shSession[w] \in SH!Slot
      /\ shPc \in [shWorkers -> HandlingPcs]
  BY DEF HandoverInv, HandoverTyped, WorkersTyped
<1>6. (shHeartbeat.slot # 0 => shHeartbeat.slot \in SH!Slot) /\ 0 \notin SH!Slot
  BY <1>1 DEF HandoverInv, HandoverTyped, OthersTyped, SH!Slot
<1>7. shHeartbeat.now \in Nat /\ shHeartbeat.now <= shClock
  BY <1>2 DEF HandoverInv, HandoverTyped, OthersTyped
<1> QED
  BY <1>1, <1>2, <1>3, <1>4, <1>5, <1>6, <1>7

LEMMA SmallMod ==
    ASSUME NEW a \in Nat, NEW b \in Nat, a < b PROVE a % b = a
OBVIOUS

LEMMA CheckIsDue ==
    ASSUME SH!SessionHandoverAssumption, HandoverInv, DueIsDue, SH!HeartbeatCheck
    PROVE  DueIsDue'
<1> DEFINE s == shHeartbeat.slot
<1>1. UNCHANGED <<SH!poolVars, shClock>> /\ s # 0 /\ s \in SH!Slot /\ ~ shHeartbeat.due
  BY DueTypes DEF SH!HeartbeatCheck, DueIsDue
<1>2. shHeartbeat \in [slot : 0 .. shSlots, now : 0 .. shClock, due : BOOLEAN]
  BY DEF HandoverInv, HandoverTyped, OthersTyped
<1>3. CASE SH!CheckReservedSessionTimeout(s)
  <2>1. shHeartbeat'.slot = s /\ shHeartbeat'.now = shHeartbeat.now /\ shHeartbeat'.due
    BY <1>1, <1>2, <1>3 DEF SH!HeartbeatCheck
  <2>2. SUFFICES ASSUME reservedAt[s] < shHeartbeat.now
                 PROVE  shHeartbeat.now - reservedAt[s] >= shTimeout
    BY <1>1, <2>1 DEF DueIsDue, SH!poolVars
  <2>3. /\ shHeartbeat.now - reservedAt[s] \in Nat /\ shHeartbeat.now - reservedAt[s] < shWidth
        /\ shWidth \in Nat
    BY <1>1, <2>2, DueTypes DEF SH!SessionHandoverAssumption
  <2>4. (shHeartbeat.now - reservedAt[s]) % shWidth = shHeartbeat.now - reservedAt[s]
    <3> HIDE DEF s
    <3> QED
      BY <2>3, SmallMod
  <2> QED
    BY <1>3, <2>4 DEF SH!CheckReservedSessionTimeout
<1>4. CASE ~ SH!CheckReservedSessionTimeout(s)
  <2>1. ~ shHeartbeat'.due
    BY <1>1, <1>2, <1>4 DEF SH!HeartbeatCheck, SH!NextSlot
  <2> QED
    BY <2>1 DEF DueIsDue
<1> QED
  BY <1>3, <1>4

LEMMA StepIsDue ==
    ASSUME SH!SessionHandoverAssumption, HandoverInv, DueIsDue, [SH!Next]_(SH!vars) PROVE DueIsDue'
<1> USE DueTypes DEF DueIsDue, SH!poolVars, SH!workerVars
<1>1. CASE SH!Tick
  BY <1>1 DEF SH!Tick
<1>2. ASSUME NEW c \in shClients, SH!Connect(c) PROVE DueIsDue'
  BY <1>2 DEF SH!Connect
<1>3. ASSUME NEW s \in SH!Slot, SH!Ends(s) PROVE DueIsDue'
  BY <1>3 DEF SH!Ends, SH!TryTransitionToReleasing
<1>4. ASSUME NEW s \in SH!Slot, SH!ReleaseSession(s) PROVE DueIsDue'
  BY <1>4 DEF SH!ReleaseSession
<1>5. ASSUME NEW w \in shWorkers, NEW c \in shClients, SH!Accept(w, c) PROVE DueIsDue'
  BY <1>5 DEF SH!Accept, SH!GoTo
<1>6. ASSUME NEW w \in shWorkers, SH!SetReserved(w) PROVE DueIsDue'
  BY <1>6 DEF SH!SetReserved, SH!GoTo
<1>7. ASSUME NEW w \in shWorkers, SH!InitReserveSession(w) PROVE DueIsDue'
  BY <1>7 DEF SH!InitReserveSession, SH!GoTo, SH!TryAbortReserved
<1>8. ASSUME NEW w \in shWorkers, SH!InitSessionCrypto(w) PROVE DueIsDue'
  BY <1>8 DEF SH!InitSessionCrypto, SH!GoTo
<1>9. ASSUME NEW w \in shWorkers, SH!TestReserved(w) PROVE DueIsDue'
  BY <1>9 DEF SH!TestReserved, SH!GoTo
<1>10. ASSUME NEW w \in shWorkers, SH!CleanUp(w) PROVE DueIsDue'
  BY <1>10 DEF SH!CleanUp, SH!GoTo, SH!TryAbortReserved, SH!TryTransitionToReleasing
<1>11. ASSUME NEW w \in shWorkers, SH!SendSessionInfoToClient(w) PROVE DueIsDue'
  BY <1>11 DEF SH!SendSessionInfoToClient, SH!GoTo, SH!Done
<1>12. ASSUME NEW w \in shWorkers, SH!SendFails(w) PROVE DueIsDue'
  BY <1>12 DEF SH!SendFails, SH!GoTo
<1>13. ASSUME NEW w \in shWorkers, SH!GiveUp(w) PROVE DueIsDue'
  BY <1>13 DEF SH!GiveUp, SH!GoTo, SH!Done, SH!TryAbortReserved
<1>14. CASE SH!PassBegins
  BY <1>14 DEF SH!PassBegins
<1>15. CASE SH!AbortTimedOut
  BY <1>15 DEF SH!AbortTimedOut, SH!NextSlot, SH!TryAbortReserved
<1>16. CASE SH!StopServer
  BY <1>16 DEF SH!StopServer
<1>17. CASE SH!Stopping
  BY <1>17 DEF SH!Stopping, SH!CloseAllSessions, SH!WaitForAllSessionsReleased, SH!Closed,
     SH!TryAbortReserved, SH!TryTransitionToReleasing
<1>18. ASSUME NEW w \in shWorkers, SH!AcquireSession(w) PROVE DueIsDue'
  BY <1>18 DEF SH!AcquireSession
<1>19. ASSUME NEW w \in shWorkers, SH!Worker(w) PROVE DueIsDue'
  BY <1>19, <1>18, <1>6, <1>7, <1>8, <1>9, <1>10, <1>11, <1>12, <1>13 DEF SH!Worker
<1>20. CASE UNCHANGED SH!vars
  BY <1>20 DEF SH!vars
<1> QED
  BY CheckIsDue, <1>1, <1>2, <1>3, <1>4, <1>5, <1>6, <1>7, <1>8, <1>9, <1>10, <1>11, <1>12, <1>13,
     <1>14, <1>15, <1>16, <1>17, <1>19, <1>20 DEF SH!Next

LEMMA InitIsDue == ASSUME SH!SessionHandoverAssumption, SH!Init PROVE DueIsDue
BY DEF SH!Init, DueIsDue

LEMMA WaitsAlways ==
    ASSUME SH!SessionHandoverAssumption PROVE SH!Init /\ [][SH!Next]_(SH!vars) => SH!OldReservationsWait
<1> DEFINE Waits == \A s \in SH!Slot :
        SH!HeartbeatAborts(s) /\ reservedAt[s] < shHeartbeat.now => shClock - reservedAt[s] >= shTimeout
<1>2. ASSUME HandoverInv, DueIsDue, [SH!Next]_(SH!vars) PROVE [Waits]_(SH!vars)
  <2> SUFFICES ASSUME NEW s \in SH!Slot, shHeartbeat.due, shHeartbeat'.slot # shHeartbeat.slot,
                      shState[s] = "RESERVED", shState'[s] = "RELEASING",
                      reservedAt[s] < shHeartbeat.now
               PROVE  shClock - reservedAt[s] >= shTimeout
    BY DEF SH!HeartbeatAborts
  <2>1. SH!PassBegins \/ SH!HeartbeatCheck \/ SH!AbortTimedOut
    <3>1. shHeartbeat' # shHeartbeat
      OBVIOUS
    <3> QED
      BY <1>2, <3>1
      DEF SH!Next, SH!vars, SH!Tick, SH!StopServer, SH!Stopping, SH!CloseAllSessions,
         SH!WaitForAllSessionsReleased,
          SH!Connect, SH!Ends, SH!ReleaseSession, SH!Worker, SH!AcquireSession, SH!SetReserved, SH!InitReserveSession,
          SH!InitSessionCrypto, SH!TestReserved, SH!CleanUp, SH!SendSessionInfoToClient, SH!SendFails, SH!GiveUp,
          SH!Accept
  <2>2. SH!AbortTimedOut
    BY <2>1 DEF SH!PassBegins, SH!HeartbeatCheck, SH!poolVars
  <2>3. s = shHeartbeat.slot
    BY <2>2, DueTypes, <1>2 DEF SH!AbortTimedOut, SH!TryAbortReserved
  <2> QED
    BY <1>2, <2>3, DueTypes DEF DueIsDue
<1>3. HandoverInv /\ DueIsDue /\ [SH!Next]_(SH!vars) => [Waits]_(SH!vars)
  BY <1>2
<1>4. SH!Init => HandoverInv /\ DueIsDue
  BY InitHandover, InitIsDue
<1>5. HandoverInv /\ DueIsDue /\ [SH!Next]_(SH!vars) => HandoverInv' /\ DueIsDue'
  BY StepHandover, StepIsDue
<1> QED
  BY <1>3, <1>4, <1>5, PTL DEF SH!OldReservationsWait

\* The heartbeat thread aborts a reservation that was made before its pass read the clock only
\* when the client has had the whole timeout, whatever workers, clients, the release thread and
\* the clock do between the reading, the look at a slot and the abort.  (HeartbeatCheck,
\* RUDPSession.cpp:319; a reservation made since has no such promise.)
THEOREM WholeTimeout ==
    ASSUME SH!SessionHandoverAssumption PROVE SH!Spec => SH!OldReservationsWait
BY WaitsAlways, PTL DEF SH!Spec

-------------------------------------------------------------------------------
(* The kernel objects of a session: buffers, queues and requests in flight.  *)

\* The operators that RIO takes from the library are those of the library.
LEMMA RIOLibrary ==
    \A S : RIO!Cardinality(S) = Cardinality(S)
BY DEF RIO!Cardinality, Cardinality

Phases == {"unused", "slots", "send", "queue", "receive", "live", "releasing"}

ManagerTyped ==
    /\ managers \in 0 .. rioManagers /\ isInitialized \in BOOLEAN
    /\ rioCompletionQueues \in 0 .. rioWorkers
    /\ openQueues \in Nat /\ rioCompletionQueues <= openQueues
    /\ registeredBuffers \subseteq rioContexts /\ addressId \subseteq rioContexts

\* A manager that is gone leaves at most a queue of each worker open.
QueuesBounded == openQueues <= managers * rioWorkers

SessionsTyped ==
    /\ rioPhase \in [RIO!Sessions -> Phases] /\ slot \in [RIO!Sessions -> RIO!Slots]
    /\ rioHeld \in [RIO!Sessions -> SUBSET RIO!Buffers]
    /\ registered \in [RIO!Sessions -> [RIO!Buffers -> Int]]
    /\ rioRQ \subseteq RIO!Sessions
    /\ rioInFlight \in [RIO!Sessions -> SUBSET RIO!Slots] /\ sending \in [RIO!Sessions -> SUBSET rioContexts]

\* What a session holds in each of its phases.
SlotsHeld(s) ==
    /\ RIO!Send \notin rioHeld[s]
    /\ \A k \in RIO!Slots : IF k < slot[s] THEN RIO!SlotBuffers(k) \subseteq rioHeld[s]
                        ELSE RIO!SlotBuffers(k) \cap rioHeld[s] = {}
InUse(s) == s \in rioRQ \/ rioInFlight[s] # {} \/ sending[s] # {}
HeldIn(s) ==
    /\ rioPhase[s] = "unused" => rioHeld[s] = {}
    /\ rioPhase[s] = "slots" => SlotsHeld(s)
    /\ rioPhase[s] = "send" => rioHeld[s] = RIO!RecvBuffers
    /\ rioPhase[s] \in {"queue", "receive", "live"} => rioHeld[s] = RIO!Buffers
    /\ InUse(s) => rioHeld[s] = RIO!Buffers /\ rioPhase[s] \in {"receive", "live", "releasing"}
    /\ rioPhase[s] = "receive" => rioInFlight[s] = {} /\ sending[s] = {}
HeldInPhase == \A s \in RIO!Sessions : HeldIn(s)

\* The addresses of the send contexts, while there is no second manager.
AddressesKnown ==
    /\ ~ isInitialized => RIO!SessionsAre("unused")
    /\ managers = 0 => ~ isInitialized /\ addressId = {}
    /\ managers <= 1 /\ isInitialized => addressId \subseteq registeredBuffers
    /\ \A s \in RIO!Sessions : sending[s] \subseteq addressId

RIOInv ==
    /\ ManagerTyped /\ QueuesBounded /\ SessionsTyped
    /\ RIO!RegisteredIffHeld /\ HeldInPhase /\ AddressesKnown

\* The buffers are those of the slots, each with its own, and the one of the send context.
LEMMA BuffersAre ==
    ASSUME RIO!SessionRIOAssumption
    PROVE  /\ \A k \in RIO!Slots : RIO!SlotBuffers(k) \subseteq RIO!RecvBuffers
           /\ \A j, k \in RIO!Slots : j # k => RIO!SlotBuffers(j) \cap RIO!SlotBuffers(k) = {}
           /\ \A b \in RIO!RecvBuffers : \E k \in RIO!Slots : b \in RIO!SlotBuffers(k)
           /\ RIO!Buffers = RIO!RecvBuffers \cup {RIO!Send} /\ RIO!Send \notin RIO!RecvBuffers
<1>1. \A k \in RIO!Slots : RIO!SlotBuffers(k) \subseteq RIO!Buffers
  BY DEF RIO!Buffers
<1>2. \A k \in RIO!Slots : RIO!Send \notin RIO!SlotBuffers(k)
  BY DEF RIO!SlotBuffers, RIO!Send, RIO!Slots, RIO!SessionRIOAssumption
<1>3. \A j, k \in RIO!Slots : j # k => RIO!SlotBuffers(j) \cap RIO!SlotBuffers(k) = {}
  <2> SUFFICES ASSUME NEW j \in RIO!Slots, NEW k \in RIO!Slots, NEW b \in RIO!SlotBuffers(j), b \in RIO!SlotBuffers(k)
      PROVE  j = k
    OBVIOUS
  <2>1. b[1] = j
    BY DEF RIO!SlotBuffers
  <2>2. b[1] = k
    BY DEF RIO!SlotBuffers
  <2> QED
    BY <2>1, <2>2
<1>4. ASSUME NEW b \in RIO!Buffers, b # RIO!Send
      PROVE  \E k \in RIO!Slots : b \in RIO!SlotBuffers(k)
  <2>1. b \in UNION {RIO!SlotBuffers(k) : k \in RIO!Slots}
    BY <1>4 DEF RIO!Buffers
  <2>2. PICK B \in {RIO!SlotBuffers(k) : k \in RIO!Slots} : b \in B
    BY <2>1
  <2> QED
    BY <2>2
<1>5. RIO!Send \in RIO!Buffers
  BY DEF RIO!Buffers
<1> QED
  BY <1>1, <1>2, <1>3, <1>4, <1>5 DEF RIO!RecvBuffers

LEMMA SlotsAreCounted ==
    ASSUME RIO!SessionRIOAssumption, NEW k \in RIO!Slots
    PROVE  /\ 1 \in RIO!Slots /\ rioReceives \in Nat /\ k \in Nat
           /\ (k % rioReceives) + 1 \in RIO!Slots
           /\ k # rioReceives => (k % rioReceives) + 1 = k + 1
           /\ k = rioReceives => \A j \in RIO!Slots : j # k => j < k
<1>1. rioReceives \in Nat /\ rioReceives >= 1 /\ k \in 1 .. rioReceives
  BY DEF RIO!SessionRIOAssumption, RIO!Slots
<1>2. k # rioReceives => k % rioReceives = k
  BY <1>1
<1>3. rioReceives % rioReceives = 0
  BY <1>1
<1> QED
  BY <1>1, <1>2, <1>3 DEF RIO!Slots

LEMMA WorkersAreCounted ==
    ASSUME RIO!SessionRIOAssumption
    PROVE  /\ rioWorkers \in Nat /\ rioWorkers >= 1 /\ rioManagers \in Nat
           /\ rioSockets \in Nat /\ 1 \in RIO!Slots
BY DEF RIO!SessionRIOAssumption, RIO!Slots

LEMMA TimesNext ==
    ASSUME NEW m \in Nat, NEW w \in Nat
    PROVE  m * w \in Nat /\ (m + 1) * w = m * w + w /\ 0 * w = 0
OBVIOUS

LEMMA InitRIO == ASSUME RIO!SessionRIOAssumption, RIO!Init PROVE RIOInv
<1>1. 1 \in RIO!Slots /\ rioWorkers \in Nat /\ rioManagers \in Nat
  BY WorkersAreCounted
<1>2. ManagerTyped
  <2>1. isInitialized \in BOOLEAN
    BY DEF RIO!Init
  <2>2. managers = 0 /\ rioCompletionQueues = 0 /\ openQueues = 0
    BY DEF RIO!Init
  <2>3. registeredBuffers = {} /\ addressId = {}
    BY DEF RIO!Init
  <2> QED
    BY <1>1, <2>1, <2>2, <2>3 DEF ManagerTyped
<1>5. QueuesBounded
  <2>1. managers * rioWorkers = 0
    BY <1>1, TimesNext DEF RIO!Init
  <2> QED
    BY <2>1 DEF RIO!Init, QueuesBounded
<1>3. SessionsTyped /\ RIO!RegisteredIffHeld
  BY <1>1 DEF RIO!Init, SessionsTyped, RIO!RegisteredIffHeld, Phases
<1>4. HeldInPhase /\ AddressesKnown
  BY DEF RIO!Init, HeldInPhase, HeldIn, AddressesKnown, InUse, RIO!SessionsAre
<1> QED
  BY <1>2, <1>3, <1>4, <1>5 DEF RIOInv

LEMMA InitializeRegisters ==
    ASSUME RIO!SessionRIOAssumption, RIOInv, RIO!Initialize PROVE RIOInv'
<1> USE BuffersAre DEF RIOInv, RIO!Initialize, RIO!SessionState, RIO!addressVars, RIO!managerVars,
    RIO!addressVars
<1>1. ManagerTyped'
  BY WorkersAreCounted DEF ManagerTyped
<1>6. QueuesBounded'
  <2>1. rioWorkers \in Nat /\ managers \in Nat /\ managers * rioWorkers \in Int
    BY WorkersAreCounted, TimesNext DEF ManagerTyped
  <2>2. managers' * rioWorkers = managers * rioWorkers + rioWorkers
    BY <2>1, TimesNext
  <2>3. openQueues \in Nat /\ openQueues' <= openQueues + rioWorkers /\ openQueues' \in Nat
    BY <2>1 DEF ManagerTyped
  <2> QED
    BY <2>1, <2>2, <2>3 DEF QueuesBounded
<1>2. SessionsTyped'
  BY DEF SessionsTyped, Phases
<1>3. RIO!RegisteredIffHeld'
  BY DEF SessionsTyped, RIO!RegisteredIffHeld, HeldInPhase, HeldIn
<1>4. HeldInPhase'
  BY DEF HeldInPhase, HeldIn, InUse, SessionsTyped, SlotsHeld
<1>5. AddressesKnown'
  <2>1. managers \in Nat /\ addressId \subseteq rioContexts
    BY DEF ManagerTyped
  <2>2. managers' <= 1 => addressId' = {}
    BY <2>1 DEF AddressesKnown
  <2> QED
    BY <2>1, <2>2 DEF AddressesKnown, RIO!SessionsAre
<1> QED
  BY <1>1, <1>2, <1>3, <1>4, <1>5, <1>6

LEMMA ShutdownRegisters ==
    ASSUME RIO!SessionRIOAssumption, RIOInv, RIO!Shutdown PROVE RIOInv'
<1> USE BuffersAre DEF RIOInv, RIO!Shutdown, RIO!SessionState, RIO!managerVars, RIO!addressVars
<1>1. ManagerTyped'
  <2>1. isInitialized' \in BOOLEAN
    BY DEF ManagerTyped
  <2>2. openQueues' \in Nat /\ rioCompletionQueues' <= openQueues'
    BY WorkersAreCounted DEF ManagerTyped
  <2>3. rioCompletionQueues' \in 0 .. rioWorkers /\ managers' \in 0 .. rioManagers
    BY WorkersAreCounted DEF ManagerTyped
  <2>4. registeredBuffers' \subseteq rioContexts /\ addressId' \subseteq rioContexts
    BY DEF ManagerTyped
  <2> QED
    BY <2>1, <2>2, <2>3, <2>4 DEF ManagerTyped
<1>6. QueuesBounded'
  <2>1. managers' = managers /\ managers * rioWorkers \in Int
    BY WorkersAreCounted, TimesNext DEF ManagerTyped
  <2>2. openQueues \in Nat /\ openQueues' <= openQueues /\ openQueues' \in Nat
    BY DEF ManagerTyped
  <2> QED
    BY <2>1, <2>2 DEF QueuesBounded
<1>2. SessionsTyped'
  BY DEF SessionsTyped, Phases
<1>3. RIO!RegisteredIffHeld'
  BY DEF SessionsTyped, RIO!RegisteredIffHeld, HeldInPhase, HeldIn
<1>4. HeldInPhase'
  BY DEF HeldInPhase, HeldIn, InUse, SessionsTyped, SlotsHeld
<1>5. AddressesKnown'
  BY DEF AddressesKnown, HeldInPhase, HeldIn, InUse, SessionsTyped, RIO!SessionsAre
<1> QED
  BY <1>1, <1>2, <1>3, <1>4, <1>5, <1>6

LEMMA InitReserveSessionRegisters ==
    ASSUME RIO!SessionRIOAssumption, RIOInv, NEW s \in RIO!Sessions, RIO!InitReserveSession(s) PROVE RIOInv'
<1> USE BuffersAre DEF RIOInv, RIO!InitReserveSession, RIO!managerVars, RIO!addressVars
<1>1. ManagerTyped' /\ QueuesBounded'
  BY DEF ManagerTyped, QueuesBounded
<1>2. SessionsTyped'
  BY WorkersAreCounted DEF SessionsTyped, Phases
<1>3. RIO!RegisteredIffHeld'
  BY DEF SessionsTyped, RIO!RegisteredIffHeld, HeldInPhase, HeldIn
<1>4. HeldInPhase'
  <2>1. slot'[s] = 1 /\ rioPhase'[s] = "slots" /\ rioHeld[s] = {} /\ ~ InUse(s)
    BY DEF SessionsTyped, HeldInPhase, HeldIn
  <2>2. \A k \in RIO!Slots : ~ (k < 1)
    BY DEF RIO!Slots
  <2>3. SlotsHeld(s)'
    BY <2>1, <2>2 DEF SlotsHeld
  <2>4. HeldIn(s)'
    BY <2>1, <2>3 DEF HeldIn, InUse
  <2> QED
    BY <2>4 DEF HeldInPhase, HeldIn, InUse, SessionsTyped, SlotsHeld
<1>5. AddressesKnown'
  BY DEF AddressesKnown, HeldInPhase, HeldIn, InUse, SessionsTyped, RIO!SessionsAre
<1> QED
  BY <1>1, <1>2, <1>3, <1>4, <1>5

\* Only the registrations and the phase of one session change, before it is in use.
LEMMA RegistrationsKept ==
    ASSUME RIO!SessionRIOAssumption, RIOInv, NEW s \in RIO!Sessions,
           ~ InUse(s), rioPhase[s] # "unused", rioPhase'[s] \in Phases \ {"unused"},
           rioPhase' = [rioPhase EXCEPT ![s] = rioPhase'[s]],
           rioHeld' = [rioHeld EXCEPT ![s] = rioHeld'[s]], rioHeld'[s] \subseteq RIO!Buffers,
           registered' = [registered EXCEPT ![s] = registered'[s]],
           registered'[s] = [b \in RIO!Buffers |-> IF b \in rioHeld'[s] THEN 1 ELSE 0],
           slot' \in [RIO!Sessions -> RIO!Slots], \A t \in RIO!Sessions : t # s => slot'[t] = slot[t],
           UNCHANGED <<RIO!managerVars, RIO!addressVars, rioInFlight, sending>>,
           rioRQ' \in {rioRQ, rioRQ \cup {s}}, HeldIn(s)'
    PROVE  RIOInv'
<1> USE DEF RIOInv, RIO!managerVars, RIO!addressVars
<1>1. ManagerTyped' /\ QueuesBounded'
  BY DEF ManagerTyped, QueuesBounded
<1>2. SessionsTyped'
  <2>1. rioPhase' \in [RIO!Sessions -> Phases] /\ rioHeld' \in [RIO!Sessions -> SUBSET RIO!Buffers]
    BY DEF SessionsTyped
  <2>2. registered'[s] \in [RIO!Buffers -> Int]
    OBVIOUS
  <2>3. registered' \in [RIO!Sessions -> [RIO!Buffers -> Int]]
    BY <2>2 DEF SessionsTyped
  <2> QED
    BY <2>1, <2>3 DEF SessionsTyped
<1>3. /\ \A t \in RIO!Sessions : t # s => /\ rioPhase'[t] = rioPhase[t] /\ rioHeld'[t] = rioHeld[t]
                                      /\ registered'[t] = registered[t]
      /\ \A t \in RIO!Sessions : t # s => (t \in rioRQ' <=> t \in rioRQ)
  BY DEF SessionsTyped
<1>4. RIO!RegisteredIffHeld'
  BY <1>3 DEF RIO!RegisteredIffHeld
<1>5. HeldInPhase'
  BY <1>3 DEF HeldInPhase, HeldIn, InUse, SlotsHeld
<1>6. AddressesKnown'
  <2>1. isInitialized
    BY DEF AddressesKnown, RIO!SessionsAre
  <2> QED
    BY <2>1 DEF AddressesKnown
<1> QED
  BY <1>1, <1>2, <1>4, <1>5, <1>6

LEMMA InitializeSlotRegisters ==
    ASSUME RIO!SessionRIOAssumption, RIOInv, NEW s \in RIO!Sessions, RIO!InitializeSlot(s) PROVE RIOInv'
<1> DEFINE here == RIO!SlotBuffers(slot[s])
<1>1. PICK ok \in SUBSET here :
        LET holds == (rioHeld[s] \ here) \cup ok
            regs == [b \in RIO!Buffers |-> registered[s][b] + (IF b \in ok THEN 1 ELSE 0)]
        IN  IF ok = here
            THEN /\ rioHeld' = [rioHeld EXCEPT ![s] = holds]
                 /\ registered' = [registered EXCEPT ![s] = regs]
                 /\ slot' = [slot EXCEPT ![s] = (@ % rioReceives) + 1]
                 /\ rioPhase' = [rioPhase EXCEPT ![s] =
                        IF slot[s] = rioReceives THEN "send" ELSE "slots"]
            ELSE /\ rioHeld' = [rioHeld EXCEPT ![s] = holds \ RIO!RecvBuffers]
                 /\ registered' = [registered EXCEPT ![s] =
                        RIO!Deregistered(regs, holds \cap RIO!RecvBuffers)]
                 /\ RIO!Abort(s)
                 /\ UNCHANGED slot
  BY DEF RIO!InitializeSlot
<1>2. /\ rioPhase[s] = "slots" /\ SlotsHeld(s) /\ ~ InUse(s) /\ rioHeld[s] \subseteq RIO!Buffers
      /\ slot[s] \in RIO!Slots /\ \A b \in RIO!Buffers : registered[s][b] = (IF b \in rioHeld[s] THEN 1 ELSE 0)
      /\ s \in DOMAIN rioHeld /\ s \in DOMAIN registered /\ s \in DOMAIN rioPhase /\ s \in DOMAIN slot
  <2>1. rioPhase[s] = "slots"
    BY DEF RIO!InitializeSlot
  <2>2. SlotsHeld(s) /\ ~ InUse(s)
    BY <2>1 DEF RIOInv, HeldInPhase, HeldIn
  <2>3. \A b \in RIO!Buffers : registered[s][b] = (IF b \in rioHeld[s] THEN 1 ELSE 0)
    BY DEF RIOInv, RIO!RegisteredIffHeld
  <2> QED
    BY <2>1, <2>2, <2>3 DEF RIOInv, SessionsTyped
<1>3. here \cap rioHeld[s] = {} /\ here \subseteq RIO!RecvBuffers
  <2>1. slot[s] \in Nat
    BY <1>2, SlotsAreCounted
  <2>2. ~ (slot[s] < slot[s])
    BY <2>1
  <2>3. RIO!SlotBuffers(slot[s]) \cap rioHeld[s] = {}
    BY <1>2, <2>2 DEF SlotsHeld
  <2> QED
    BY <1>2, <2>3, BuffersAre
<1>4. rioHeld[s] \subseteq RIO!RecvBuffers
  BY <1>2, BuffersAre DEF SlotsHeld
<1> HIDE DEF here
<1>5. CASE ok = here
  <2>1. rioHeld' = [rioHeld EXCEPT ![s] = rioHeld[s] \cup here]
    BY <1>1, <1>3, <1>5
  <2>2. registered' = [registered EXCEPT ![s] =
            [b \in RIO!Buffers |-> registered[s][b] + (IF b \in here THEN 1 ELSE 0)]]
    BY <1>1, <1>5
  <2>3. rioHeld'[s] = rioHeld[s] \cup here
    BY <1>2, <2>1
  <2>4. registered'[s] = [b \in RIO!Buffers |-> IF b \in rioHeld'[s] THEN 1 ELSE 0]
    BY <1>2, <1>3, <2>2, <2>3
  <2>5. /\ slot' = [slot EXCEPT ![s] = (slot[s] % rioReceives) + 1]
        /\ rioPhase' = [rioPhase EXCEPT ![s] =
               IF slot[s] = rioReceives THEN "send" ELSE "slots"]
    BY <1>1, <1>5
  <2>6. ~ InUse(s)'
    BY <1>2 DEF InUse, RIO!InitializeSlot
  <2>7. HeldIn(s)'
    <3>1. CASE slot[s] = rioReceives
      <4>1. \A k \in RIO!Slots : RIO!SlotBuffers(k) \subseteq rioHeld'[s]
        BY <1>2, <2>3, <3>1, SlotsAreCounted DEF SlotsHeld, here
      <4>2. rioHeld'[s] = RIO!RecvBuffers
        BY <1>3, <1>4, <2>3, <4>1, BuffersAre
      <4> QED
        BY <1>2, <2>5, <2>6, <3>1, <4>2 DEF HeldIn
    <3>2. CASE slot[s] # rioReceives
      <4>1. slot'[s] = slot[s] + 1 /\ slot[s] \in Nat /\ \A k \in RIO!Slots : k \in Nat
        BY <1>2, <2>5, <3>2, SlotsAreCounted
      <4>2. \A k \in RIO!Slots : k # slot[s] => RIO!SlotBuffers(k) \cap here = {}
        BY <1>2, BuffersAre DEF here
      <4>3. SlotsHeld(s)'
        <5>1. RIO!Send \notin rioHeld'[s]
          BY <1>3, <1>4, <2>3, BuffersAre
        <5>2. ASSUME NEW k \in RIO!Slots, k < slot'[s]
              PROVE  RIO!SlotBuffers(k) \subseteq rioHeld'[s]
          BY <1>2, <2>3, <4>1, <5>2 DEF SlotsHeld, here
        <5>3. ASSUME NEW k \in RIO!Slots, ~ (k < slot'[s])
              PROVE  RIO!SlotBuffers(k) \cap rioHeld'[s] = {}
          <6>1. k # slot[s] /\ ~ (k < slot[s])
            BY <4>1, <5>3
          <6> QED
            BY <1>2, <2>3, <4>2, <6>1 DEF SlotsHeld
        <5> QED
          BY <5>1, <5>2, <5>3 DEF SlotsHeld
      <4> QED
        BY <1>2, <2>5, <2>6, <3>2, <4>3 DEF HeldIn
    <3> QED
      BY <3>1, <3>2
  <2>8. slot' \in [RIO!Sessions -> RIO!Slots] /\ \A t \in RIO!Sessions : t # s => slot'[t] = slot[t]
    <3>1. (slot[s] % rioReceives) + 1 \in RIO!Slots /\ slot \in [RIO!Sessions -> RIO!Slots]
      BY <1>2, SlotsAreCounted DEF RIOInv, SessionsTyped
    <3> QED
      BY <2>5, <3>1
  <2>9. /\ rioPhase'[s] \in Phases \ {"unused"} /\ rioPhase' = [rioPhase EXCEPT ![s] = rioPhase'[s]]
        /\ rioHeld'[s] \subseteq RIO!Buffers /\ rioHeld' = [rioHeld EXCEPT ![s] = rioHeld'[s]]
        /\ registered' = [registered EXCEPT ![s] = registered'[s]]
    BY <1>2, <1>3, <1>4, <2>1, <2>2, <2>3, <2>4, <2>5, BuffersAre DEF Phases
  <2>10. UNCHANGED <<RIO!managerVars, RIO!addressVars, rioInFlight, sending, rioRQ>>
    BY DEF RIO!InitializeSlot
  <2> QED
    BY <1>2, <2>4, <2>7, <2>8, <2>9, <2>10, RegistrationsKept
<1>6. CASE ok # here
  <2> DEFINE holds == rioHeld[s] \cup ok
             regs == [b \in RIO!Buffers |-> registered[s][b] + (IF b \in ok THEN 1 ELSE 0)]
  <2>1. holds = (rioHeld[s] \ here) \cup ok /\ holds \subseteq RIO!RecvBuffers
    BY <1>1, <1>3, <1>4
  <2>2. \A b \in RIO!Buffers : regs[b] = (IF b \in holds THEN 1 ELSE 0)
    BY <1>1, <1>2, <1>3
  <2> HIDE DEF regs, holds
  <2>3. /\ rioHeld' = [rioHeld EXCEPT ![s] = holds \ RIO!RecvBuffers]
        /\ registered' = [registered EXCEPT ![s] = RIO!Deregistered(regs, holds \cap RIO!RecvBuffers)]
        /\ rioPhase' = [rioPhase EXCEPT ![s] = "releasing"] /\ slot' = slot
    BY <1>1, <1>6, <2>1 DEF RIO!Abort, regs
  <2>4. rioHeld'[s] = {}
    BY <1>2, <2>1, <2>3
  <2>5. registered'[s] = [b \in RIO!Buffers |-> IF b \in rioHeld'[s] THEN 1 ELSE 0]
    BY <1>2, <2>1, <2>2, <2>3, <2>4 DEF RIO!Deregistered
  <2>6. ~ InUse(s)'
    BY <1>2 DEF InUse, RIO!InitializeSlot
  <2>7. rioPhase'[s] = "releasing"
    BY <1>2, <2>3
  <2>8. HeldIn(s)'
    BY <2>6, <2>7 DEF HeldIn
  <2>9. UNCHANGED <<RIO!managerVars, RIO!addressVars, rioInFlight, sending, rioRQ>>
    BY DEF RIO!InitializeSlot
  <2>10. /\ rioPhase' = [rioPhase EXCEPT ![s] = rioPhase'[s]] /\ rioHeld' = [rioHeld EXCEPT ![s] = rioHeld'[s]]
         /\ registered' = [registered EXCEPT ![s] = registered'[s]]
    BY <1>2, <2>3, <2>4, <2>5, <2>7
  <2>11. slot \in [RIO!Sessions -> RIO!Slots] /\ rioPhase'[s] \in Phases \ {"unused"}
    BY <2>7 DEF RIOInv, SessionsTyped, Phases
  <2> QED
    BY <1>2, <2>3, <2>4, <2>5, <2>8, <2>9, <2>10, <2>11, RegistrationsKept
<1> QED
  BY <1>5, <1>6

LEMMA InitializeSendRegisters ==
    ASSUME RIO!SessionRIOAssumption, RIOInv, NEW s \in RIO!Sessions, RIO!InitializeSend(s) PROVE RIOInv'
<1>1. /\ rioPhase[s] = "send" /\ rioHeld[s] = RIO!RecvBuffers /\ ~ InUse(s)
      /\ registered[s] \in [RIO!Buffers -> Int]
      /\ \A b \in RIO!Buffers : registered[s][b] = (IF b \in rioHeld[s] THEN 1 ELSE 0)
      /\ s \in DOMAIN rioHeld /\ s \in DOMAIN registered /\ s \in DOMAIN rioPhase
      /\ slot \in [RIO!Sessions -> RIO!Slots]
  BY DEF RIO!InitializeSend, RIOInv, HeldInPhase, HeldIn, SessionsTyped, RIO!RegisteredIffHeld
<1>2. UNCHANGED <<RIO!managerVars, RIO!addressVars, rioInFlight, sending, rioRQ, slot>>
  BY DEF RIO!InitializeSend
<1>3. ~ InUse(s)'
  BY <1>1, <1>2 DEF InUse
<1>4. CASE /\ rioHeld' = [rioHeld EXCEPT ![s] = @ \cup {RIO!Send}]
           /\ RIO!Register(s, {RIO!Send})
           /\ rioPhase' = [rioPhase EXCEPT ![s] = "queue"]
  <2>1. rioHeld'[s] = RIO!Buffers /\ rioPhase'[s] = "queue"
    BY <1>1, <1>4, BuffersAre
  <2>2. registered'[s] = [b \in RIO!Buffers |-> registered[s][b] + (IF b \in {RIO!Send} THEN 1 ELSE 0)]
    BY <1>1, <1>4 DEF RIO!Register
  <2>3. registered'[s] = [b \in RIO!Buffers |-> IF b \in rioHeld'[s] THEN 1 ELSE 0]
    BY <1>1, <2>1, <2>2, BuffersAre
  <2>4. registered' = [registered EXCEPT ![s] = registered'[s]]
    BY <1>1, <1>4 DEF RIO!Register
  <2>5. HeldIn(s)'
    BY <1>3, <2>1 DEF HeldIn
  <2>6. rioPhase' = [rioPhase EXCEPT ![s] = rioPhase'[s]] /\ rioHeld' = [rioHeld EXCEPT ![s] = rioHeld'[s]]
    BY <1>1, <1>4, <2>1
  <2> QED
    BY <1>1, <1>2, <2>1, <2>3, <2>4, <2>5, <2>6, RegistrationsKept DEF Phases
<1>5. CASE /\ rioHeld' = [rioHeld EXCEPT ![s] = @ \ RIO!RecvBuffers]
           /\ registered' = [registered EXCEPT ![s] = RIO!Deregistered(@, rioHeld[s] \cap RIO!RecvBuffers)]
           /\ RIO!Abort(s)
  <2>1. rioHeld'[s] = {} /\ rioPhase'[s] = "releasing"
    BY <1>1, <1>5 DEF RIO!Abort
  <2>2. registered'[s] = RIO!Deregistered(registered[s], rioHeld[s] \cap RIO!RecvBuffers)
    BY <1>1, <1>5
  <2>3. registered'[s] = [b \in RIO!Buffers |-> IF b \in rioHeld'[s] THEN 1 ELSE 0]
    BY <1>1, <2>1, <2>2 DEF RIO!Deregistered
  <2>4. registered' = [registered EXCEPT ![s] = registered'[s]]
    BY <1>1, <1>5, <2>2
  <2>5. HeldIn(s)'
    BY <1>3, <2>1 DEF HeldIn
  <2>6. rioPhase' = [rioPhase EXCEPT ![s] = rioPhase'[s]] /\ rioHeld' = [rioHeld EXCEPT ![s] = rioHeld'[s]]
    BY <1>1, <1>5, <2>1 DEF RIO!Abort
  <2> QED
    BY <1>1, <1>2, <2>1, <2>3, <2>4, <2>5, <2>6, RegistrationsKept DEF Phases
<1> QED
  BY <1>4, <1>5 DEF RIO!InitializeSend

LEMMA CreateRequestQueueRegisters ==
    ASSUME RIO!SessionRIOAssumption, RIOInv, NEW s \in RIO!Sessions, RIO!CreateRequestQueue(s) PROVE RIOInv'
<1>1. /\ rioPhase[s] = "queue" /\ rioHeld[s] = RIO!Buffers /\ ~ InUse(s)
      /\ registered[s] \in [RIO!Buffers -> Int]
      /\ \A b \in RIO!Buffers : registered[s][b] = (IF b \in rioHeld[s] THEN 1 ELSE 0)
      /\ s \in DOMAIN rioHeld /\ s \in DOMAIN registered /\ s \in DOMAIN rioPhase
      /\ slot \in [RIO!Sessions -> RIO!Slots]
  BY DEF RIO!CreateRequestQueue, RIOInv, HeldInPhase, HeldIn, SessionsTyped, RIO!RegisteredIffHeld
<1>2. UNCHANGED <<RIO!managerVars, RIO!addressVars, rioInFlight, sending, slot>>
  BY DEF RIO!CreateRequestQueue
<1>3. CASE /\ rioRQ' = rioRQ \cup {s}
           /\ rioPhase' = [rioPhase EXCEPT ![s] = "receive"]
           /\ UNCHANGED <<rioHeld, registered>>
  <2>1. rioHeld'[s] = RIO!Buffers /\ rioPhase'[s] = "receive" /\ rioInFlight'[s] = {} /\ sending'[s] = {}
    BY <1>1, <1>2, <1>3 DEF InUse
  <2>2. registered'[s] = [b \in RIO!Buffers |-> IF b \in rioHeld'[s] THEN 1 ELSE 0]
    BY <1>1, <1>3
  <2>3. HeldIn(s)'
    BY <2>1 DEF HeldIn
  <2>4. /\ rioPhase' = [rioPhase EXCEPT ![s] = rioPhase'[s]] /\ rioHeld' = [rioHeld EXCEPT ![s] = rioHeld'[s]]
        /\ registered' = [registered EXCEPT ![s] = registered'[s]]
    BY <1>1, <1>3, <2>1 DEF RIOInv, SessionsTyped
  <2> QED
    BY <1>1, <1>2, <1>3, <2>1, <2>2, <2>3, <2>4, RegistrationsKept DEF Phases
<1>4. CASE RIO!Cleanup(s) /\ RIO!Abort(s) /\ UNCHANGED rioRQ
  <2>1. rioHeld'[s] = {} /\ rioPhase'[s] = "releasing"
    BY <1>1, <1>4, BuffersAre DEF RIO!Abort, RIO!Cleanup
  <2>2. registered'[s] = RIO!Deregistered(registered[s], rioHeld[s] \cap RIO!Buffers)
    BY <1>1, <1>4, BuffersAre DEF RIO!Cleanup
  <2>3. registered'[s] = [b \in RIO!Buffers |-> IF b \in rioHeld'[s] THEN 1 ELSE 0]
    BY <1>1, <2>1, <2>2 DEF RIO!Deregistered
  <2>4. registered' = [registered EXCEPT ![s] = registered'[s]]
    BY <1>1, <1>4, <2>2, BuffersAre DEF RIO!Cleanup
  <2>5. HeldIn(s)'
    BY <1>1, <1>2, <1>4, <2>1 DEF HeldIn, InUse
  <2>6. rioPhase' = [rioPhase EXCEPT ![s] = rioPhase'[s]] /\ rioHeld' = [rioHeld EXCEPT ![s] = rioHeld'[s]]
    BY <1>1, <1>4, <2>1 DEF RIO!Abort, RIO!Cleanup
  <2> QED
    BY <1>1, <1>2, <1>4, <2>1, <2>3, <2>4, <2>5, <2>6, RegistrationsKept DEF Phases
<1> QED
  BY <1>3, <1>4 DEF RIO!CreateRequestQueue

LEMMA DoRecvRegisters ==
    ASSUME RIO!SessionRIOAssumption, RIOInv, NEW s \in RIO!Sessions, RIO!DoRecv(s) PROVE RIOInv'
<1> USE BuffersAre DEF RIOInv, RIO!DoRecv, RIO!Abort, RIO!managerVars, RIO!addressVars
<1>1. ManagerTyped' /\ QueuesBounded'
  BY DEF ManagerTyped, QueuesBounded
<1>2. SessionsTyped'
  <2>1. \A posted \in 0 .. rioReceives : 1 .. posted \subseteq RIO!Slots
    BY SlotsAreCounted, WorkersAreCounted DEF RIO!Slots
  <2> QED
    BY <2>1 DEF SessionsTyped, Phases
<1>3. RIO!RegisteredIffHeld'
  BY DEF SessionsTyped, RIO!RegisteredIffHeld, HeldInPhase, HeldIn
<1>4. HeldInPhase'
  BY DEF HeldInPhase, HeldIn, InUse, SessionsTyped, SlotsHeld
<1>5. AddressesKnown'
  BY DEF AddressesKnown, HeldInPhase, HeldIn, InUse, SessionsTyped, RIO!SessionsAre
<1> QED
  BY <1>1, <1>2, <1>3, <1>4, <1>5

LEMMA RecvCompletedRegisters ==
    ASSUME RIO!SessionRIOAssumption, RIOInv, NEW s \in RIO!Sessions, NEW k \in RIO!Slots, RIO!RecvCompleted(s, k) PROVE RIOInv'
<1> USE BuffersAre DEF RIOInv, RIO!RecvCompleted, RIO!managerVars, RIO!addressVars
<1>1. ManagerTyped' /\ QueuesBounded'
  BY DEF ManagerTyped, QueuesBounded
<1>2. SessionsTyped'
  BY DEF SessionsTyped, Phases
<1>3. RIO!RegisteredIffHeld'
  BY DEF SessionsTyped, RIO!RegisteredIffHeld, HeldInPhase, HeldIn
<1>4. HeldInPhase'
  BY DEF HeldInPhase, HeldIn, InUse, SessionsTyped, SlotsHeld
<1>5. AddressesKnown'
  BY DEF AddressesKnown, HeldInPhase, HeldIn, InUse, SessionsTyped, RIO!SessionsAre
<1> QED
  BY <1>1, <1>2, <1>3, <1>4, <1>5

LEMMA DoSendRegisters ==
    ASSUME RIO!SessionRIOAssumption, RIOInv, NEW s \in RIO!Sessions, NEW c \in rioContexts, RIO!DoSend(s, c) PROVE RIOInv'
<1> USE BuffersAre DEF RIOInv, RIO!DoSend, RIO!managerVars, RIO!addressVars
<1>1. ManagerTyped' /\ QueuesBounded'
  BY DEF ManagerTyped, QueuesBounded
<1>2. SessionsTyped'
  BY DEF SessionsTyped, Phases
<1>3. RIO!RegisteredIffHeld'
  BY DEF SessionsTyped, RIO!RegisteredIffHeld, HeldInPhase, HeldIn
<1>4. HeldInPhase'
  BY DEF HeldInPhase, HeldIn, InUse, SessionsTyped, SlotsHeld
<1>5. AddressesKnown'
  BY DEF AddressesKnown, HeldInPhase, HeldIn, InUse, SessionsTyped, RIO!SessionsAre
<1> QED
  BY <1>1, <1>2, <1>3, <1>4, <1>5

LEMMA SendCompletedRegisters ==
    ASSUME RIO!SessionRIOAssumption, RIOInv, NEW s \in RIO!Sessions, RIO!SendCompleted(s) PROVE RIOInv'
<1> USE BuffersAre DEF RIOInv, RIO!SendCompleted, RIO!managerVars, RIO!addressVars
<1>1. ManagerTyped' /\ QueuesBounded'
  BY DEF ManagerTyped, QueuesBounded
<1>2. SessionsTyped'
  BY DEF SessionsTyped, Phases
<1>3. RIO!RegisteredIffHeld'
  BY DEF SessionsTyped, RIO!RegisteredIffHeld, HeldInPhase, HeldIn
<1>4. HeldInPhase'
  BY DEF HeldInPhase, HeldIn, InUse, SessionsTyped, SlotsHeld
<1>5. AddressesKnown'
  BY DEF AddressesKnown, HeldInPhase, HeldIn, InUse, SessionsTyped, RIO!SessionsAre
<1> QED
  BY <1>1, <1>2, <1>3, <1>4, <1>5

LEMMA DoDisconnectRegisters ==
    ASSUME RIO!SessionRIOAssumption, RIOInv, NEW s \in RIO!Sessions, RIO!DoDisconnect(s) PROVE RIOInv'
<1> USE BuffersAre DEF RIOInv, RIO!DoDisconnect, RIO!Abort, RIO!managerVars, RIO!addressVars
<1>1. ManagerTyped' /\ QueuesBounded'
  BY DEF ManagerTyped, QueuesBounded
<1>2. SessionsTyped'
  BY DEF SessionsTyped, Phases
<1>3. RIO!RegisteredIffHeld'
  BY DEF SessionsTyped, RIO!RegisteredIffHeld, HeldInPhase, HeldIn
<1>4. HeldInPhase'
  BY DEF HeldInPhase, HeldIn, InUse, SessionsTyped, SlotsHeld
<1>5. AddressesKnown'
  BY DEF AddressesKnown, HeldInPhase, HeldIn, InUse, SessionsTyped, RIO!SessionsAre
<1> QED
  BY <1>1, <1>2, <1>3, <1>4, <1>5

LEMMA CloseSocketRegisters ==
    ASSUME RIO!SessionRIOAssumption, RIOInv, NEW s \in RIO!Sessions, RIO!CloseSocket(s) PROVE RIOInv'
<1> USE BuffersAre DEF RIOInv, RIO!CloseSocket, RIO!managerVars, RIO!addressVars
<1>1. ManagerTyped' /\ QueuesBounded'
  BY DEF ManagerTyped, QueuesBounded
<1>2. SessionsTyped'
  BY DEF SessionsTyped, Phases
<1>3. RIO!RegisteredIffHeld'
  BY DEF SessionsTyped, RIO!RegisteredIffHeld, HeldInPhase, HeldIn
<1>4. HeldInPhase'
  BY DEF HeldInPhase, HeldIn, InUse, SessionsTyped, SlotsHeld
<1>5. AddressesKnown'
  BY DEF AddressesKnown, HeldInPhase, HeldIn, InUse, SessionsTyped, RIO!SessionsAre
<1> QED
  BY <1>1, <1>2, <1>3, <1>4, <1>5

LEMMA FinalizeRegisters ==
    ASSUME RIO!SessionRIOAssumption, RIOInv, NEW s \in RIO!Sessions, RIO!Finalize(s) PROVE RIOInv'
<1> USE BuffersAre DEF RIOInv, RIO!Finalize, RIO!Cleanup, RIO!CanFinalizeIO, RIO!Deregistered,
    RIO!managerVars, RIO!addressVars
<1>1. ManagerTyped' /\ QueuesBounded'
  BY DEF ManagerTyped, QueuesBounded
<1>2. SessionsTyped'
  BY DEF SessionsTyped, Phases
<1>3. RIO!RegisteredIffHeld'
  BY DEF SessionsTyped, RIO!RegisteredIffHeld, HeldInPhase, HeldIn
<1>4. HeldInPhase'
  BY DEF HeldInPhase, HeldIn, InUse, SessionsTyped, SlotsHeld
<1>5. AddressesKnown'
  BY DEF AddressesKnown, HeldInPhase, HeldIn, InUse, SessionsTyped, RIO!SessionsAre
<1> QED
  BY <1>1, <1>2, <1>3, <1>4, <1>5

LEMMA StepRegisters ==
    ASSUME RIO!SessionRIOAssumption, RIOInv, [RIO!Next]_(RIO!vars) PROVE RIOInv'
<1>1. ASSUME RIO!Next PROVE RIOInv'
  <2>1. ASSUME RIO!Initialize \/ RIO!Shutdown PROVE RIOInv'
    BY <2>1, InitializeRegisters, ShutdownRegisters
  <2>2. ASSUME NEW s \in RIO!Sessions,
               \/ RIO!InitReserveSession(s) \/ RIO!InitializeSlot(s) \/ RIO!InitializeSend(s)
               \/ RIO!CreateRequestQueue(s) \/ RIO!DoRecv(s)
        PROVE  RIOInv'
    BY <2>2, InitReserveSessionRegisters, InitializeSlotRegisters, InitializeSendRegisters,
       CreateRequestQueueRegisters, DoRecvRegisters
  <2>3. ASSUME NEW s \in RIO!Sessions, NEW k \in RIO!Slots, RIO!RecvCompleted(s, k) PROVE RIOInv'
    BY <2>3, RecvCompletedRegisters
  <2>4. ASSUME NEW s \in RIO!Sessions, NEW c \in rioContexts, RIO!DoSend(s, c) PROVE RIOInv'
    BY <2>4, DoSendRegisters
  <2>5. ASSUME NEW s \in RIO!Sessions,
               RIO!SendCompleted(s) \/ RIO!DoDisconnect(s) \/ RIO!CloseSocket(s) \/ RIO!Finalize(s)
        PROVE  RIOInv'
    BY <2>5, SendCompletedRegisters, DoDisconnectRegisters, CloseSocketRegisters,
       FinalizeRegisters
  <2> QED
    BY <1>1, <2>1, <2>2, <2>3, <2>4, <2>5 DEF RIO!Next
<1>2. ASSUME UNCHANGED RIO!vars PROVE RIOInv'
  BY <1>2 DEF RIOInv, ManagerTyped, QueuesBounded, SessionsTyped, RIO!RegisteredIffHeld,
     HeldInPhase,
              HeldIn, SlotsHeld, InUse, AddressesKnown, RIO!SessionsAre, RIO!vars, RIO!managerVars, RIO!addressVars
<1> QED
  BY <1>1, <1>2

LEMMA AlwaysRegistered == ASSUME RIO!SessionRIOAssumption PROVE RIO!Spec => []RIOInv
BY InitRIO, StepRegisters, PTL DEF RIO!Spec

LEMMA TimesMonotone ==
    ASSUME NEW a \in Nat, NEW b \in Nat, NEW w \in Nat, a <= b
    PROVE  a * w <= b * w
<1> DEFINE d == b - a
<1>1. d \in Nat /\ b = a + d
  OBVIOUS
<1> HIDE DEF d
<1>2. d * w \in Nat /\ a * w \in Nat /\ (a + d) * w = a * w + d * w
  BY <1>1
<1> QED
  BY <1>1, <1>2

LEMMA InvTyped == ASSUME RIO!SessionRIOAssumption, RIOInv PROVE RIO!TypeOK
<1>1. rioWorkers \in Nat /\ rioManagers \in Nat /\ managers \in Nat /\ managers <= rioManagers
  BY WorkersAreCounted DEF RIOInv, ManagerTyped
<1>2. /\ managers * rioWorkers <= rioManagers * rioWorkers
      /\ managers * rioWorkers \in Nat /\ rioManagers * rioWorkers \in Nat
  BY <1>1, TimesMonotone, TimesNext
<1>3. openQueues \in 0 .. rioManagers * rioWorkers
  BY <1>2 DEF RIOInv, QueuesBounded, ManagerTyped
<1> QED
  BY <1>3 DEF RIOInv, ManagerTyped, SessionsTyped, RIO!TypeOK, Phases

\* Types, by the phases of a session and the managers that were made.
THEOREM RIOTypes == ASSUME RIO!SessionRIOAssumption PROVE RIO!Spec => []RIO!TypeOK
BY AlwaysRegistered, InvTyped, PTL

\* Whichever RIORegisterBuffer fails of the initialization of a session, its Cleanup
\* deregisters what was registered, and only that, once.
THEOREM NoneLeaked == ASSUME RIO!SessionRIOAssumption PROVE RIO!Spec => []RIO!RegisteredIffHeld
<1>1. RIOInv => RIO!RegisteredIffHeld
  BY DEF RIOInv
<1> QED
  BY <1>1, AlwaysRegistered, PTL

\* A session returns to the pool with no buffer, queue or request of its own in the kernel.
THEOREM PoolHoldsNothing == ASSUME RIO!SessionRIOAssumption PROVE RIO!Spec => []RIO!NothingHeldInPool
<1>1. RIOInv => RIO!NothingHeldInPool
  BY DEF RIOInv, HeldInPhase, HeldIn, InUse, RIO!NothingHeldInPool
<1> QED
  BY <1>1, AlwaysRegistered, PTL

FirstManager == managers <= 1 => RIO!InFlightRegistered

\* The kernel has only requests whose buffers are registered, of the receives, of the send
\* and of its address, as long as no second RIOManager has been made.
THEOREM InFlightIsRegistered == ASSUME RIO!SessionRIOAssumption PROVE RIO!Spec => []FirstManager
<1>1. ASSUME RIOInv, managers <= 1 PROVE RIO!InFlightRegistered
  <2> SUFFICES ASSUME NEW s \in RIO!Sessions
        PROVE  /\ \A k \in rioInFlight[s] : \A b \in RIO!SlotBuffers(k) : registered[s][b] > 0
               /\ sending[s] # {} => registered[s][RIO!Send] > 0
               /\ sending[s] \subseteq registeredBuffers
    BY DEF RIO!InFlightRegistered
  <2>1. InUse(s) => \A b \in RIO!Buffers : registered[s][b] = 1
    BY <1>1 DEF RIOInv, HeldInPhase, HeldIn, RIO!RegisteredIffHeld
  <2>2. rioInFlight[s] # {} \/ sending[s] # {} => InUse(s)
    BY DEF InUse
  <2>3. \A k \in rioInFlight[s] : RIO!SlotBuffers(k) \subseteq RIO!Buffers
    BY <1>1, BuffersAre DEF RIOInv, SessionsTyped
  <2>4. sending[s] # {} => isInitialized
    <3>1. sending[s] # {} => rioPhase[s] # "unused"
      BY <1>1, <2>2 DEF RIOInv, HeldInPhase, HeldIn
    <3> QED
      BY <1>1, <3>1 DEF RIOInv, AddressesKnown, RIO!SessionsAre
  <2>5. sending[s] # {} => sending[s] \subseteq registeredBuffers
    BY <1>1, <2>4 DEF RIOInv, AddressesKnown
  <2>6. RIO!Send \in RIO!Buffers
    BY BuffersAre
  <2> QED
    BY <2>1, <2>2, <2>3, <2>5, <2>6
<1> QED
  BY <1>1, AlwaysRegistered, PTL DEF FirstManager

\* The quotient and the remainder by the number of workers say which session it is.
LEMMA DivMod ==
    ASSUME NEW n \in Nat, NEW w \in Nat, w >= 1
    PROVE  /\ n \div w \in Nat /\ n % w \in Nat /\ n % w < w
           /\ n = (n \div w) * w + (n % w)
<1>1. n % w \in Int /\ 0 <= n % w /\ n % w < w
  OBVIOUS
<1>2. n = w * (n \div w) + (n % w)
  OBVIOUS
<1>3. n \div w \in Nat
  OBVIOUS
<1> QED
  BY <1>1, <1>2, <1>3

\* The sessions of a worker, of which there is one for each full round and one more at most.
OfWorker(w) == {s \in RIO!Sessions : RIO!ThreadId(s) = w}
Rounds == rioSockets \div rioWorkers + (IF rioSockets % rioWorkers # 0 THEN 1 ELSE 0)

LEMMA RoundOfSession ==
    ASSUME RIO!SessionRIOAssumption, NEW s \in RIO!Sessions
    PROVE  s \div rioWorkers \in 0 .. Rounds - 1 /\ Rounds \in Nat
<1> DEFINE w == rioWorkers
           q == s \div w
           full == rioSockets \div w
           rest == rioSockets % w
           own == s % w
<1>1. w \in Nat /\ w >= 1 /\ rioSockets \in Nat /\ s \in Nat /\ s < rioSockets
  BY WorkersAreCounted DEF RIO!Sessions
<1>2. q \in Nat /\ own \in Nat /\ s = q * w + own
  BY <1>1, DivMod
<1>3. full \in Nat /\ rest \in Nat /\ rest < w /\ rioSockets = full * w + rest
  BY <1>1, DivMod
<1>4. Rounds = full + (IF rest # 0 THEN 1 ELSE 0)
  BY DEF Rounds
<1> HIDE DEF q, full, rest, own, w
<1>5. CASE q <= full - 1
  BY <1>2, <1>3, <1>4, <1>5 DEF q, w
<1>6. CASE q >= full + 1
  <2>1. (full + 1) * w <= q * w /\ (full + 1) * w = full * w + w
    BY <1>1, <1>2, <1>3, <1>6, TimesMonotone, TimesNext
  <2>2. full * w \in Nat /\ q * w \in Nat
    BY <1>1, <1>2, <1>3, TimesNext
  <2> DEFINE whole == full * w
             before == q * w
  <2> HIDE DEF whole, before
  <2>3. /\ whole \in Nat /\ before \in Nat /\ whole + w <= before
        /\ s = before + own /\ rioSockets = whole + rest
    BY <1>2, <1>3, <2>1, <2>2 DEF whole, before
  <2> QED
    BY <1>1, <1>2, <1>3, <2>3
<1>7. CASE q = full
  <2>1. full * w \in Nat
    BY <1>1, <1>3, TimesNext
  <2>2. s = full * w + own
    BY <1>2, <1>7
  <2>3. rest # 0
    <3> DEFINE whole == full * w
    <3> HIDE DEF whole
    <3>1. whole \in Nat /\ s = whole + own /\ rioSockets = whole + rest
      BY <1>3, <2>1, <2>2 DEF whole
    <3> QED
      BY <1>1, <1>2, <1>3, <3>1
  <2> QED
    BY <1>2, <1>3, <1>4, <1>7, <2>3 DEF q, w
<1> QED
  BY <1>2, <1>3, <1>5, <1>6, <1>7

LEMMA FewPerWorker ==
    ASSUME RIO!SessionRIOAssumption, NEW w
    PROVE  IsFiniteSet(OfWorker(w)) /\ Cardinality(OfWorker(w)) <= Rounds /\ Rounds \in Nat
<1>1. CASE OfWorker(w) = {}
  <2>1. Rounds \in Nat
    BY WorkersAreCounted, DivMod DEF Rounds
  <2> QED
    BY <1>1, <2>1, FS_EmptySet
<1>2. CASE OfWorker(w) # {}
  <2> DEFINE f == [s \in OfWorker(w) |-> s \div rioWorkers]
  <2>1. Rounds \in Nat
    BY <1>2, RoundOfSession DEF OfWorker
  <2>2. f \in [OfWorker(w) -> 0 .. Rounds - 1]
    BY RoundOfSession DEF OfWorker
  <2>3. ASSUME NEW s \in OfWorker(w), NEW t \in OfWorker(w), f[s] = f[t]
        PROVE  s = t
    <3>1. s \in Nat /\ t \in Nat /\ rioWorkers \in Nat /\ rioWorkers >= 1
      BY WorkersAreCounted DEF OfWorker, RIO!Sessions
    <3>2. s % rioWorkers = t % rioWorkers /\ s \div rioWorkers = t \div rioWorkers
      BY <2>3 DEF OfWorker, RIO!ThreadId
    <3> DEFINE whole == (s \div rioWorkers) * rioWorkers
    <3>3. s = whole + (s % rioWorkers)
      BY <3>1, DivMod
    <3>4. t = (t \div rioWorkers) * rioWorkers + (t % rioWorkers)
      BY <3>1, DivMod
    <3>5. t = whole + (s % rioWorkers)
      BY <3>2, <3>4
    <3> QED
      BY <3>3, <3>5
  <2> HIDE DEF f
  <2>4. f \in Injection(OfWorker(w), 0 .. Rounds - 1)
    BY <2>2, <2>3 DEF Injection, IsInjective
  <2>5. IsFiniteSet(0 .. Rounds - 1) /\ Cardinality(0 .. Rounds - 1) = Rounds
    BY <2>1, FS_Interval
  <2> QED
    BY <2>1, <2>4, <2>5, FS_Injection
<1> QED
  BY <1>1, <1>2

\* RIOCreateRequestQueue finds room in the completion queue of the worker, whatever the
\* number of sockets and of workers: the size rounds up to the worker with the most.
THEOREM RoomInQueue == ASSUME RIO!SessionRIOAssumption PROVE RIO!Spec => []RIO!QueueHasRoom
<1>1. ASSUME RIOInv PROVE RIO!QueueHasRoom
  <2> SUFFICES ASSUME NEW s \in RIO!Sessions, rioPhase[s] = "queue"
        PROVE  RIO!Reserved(RIO!ThreadId(s)) + RIO!MaxCompletionsPerSession <= RIO!QueueSize
    BY DEF RIO!QueueHasRoom
  <2> DEFINE w == RIO!ThreadId(s)
             others == {t \in rioRQ : RIO!ThreadId(t) = w}
             m == RIO!MaxCompletionsPerSession
  <2>1. s \notin rioRQ /\ rioRQ \subseteq RIO!Sessions
    BY <1>1 DEF RIOInv, HeldInPhase, HeldIn, InUse, SessionsTyped
  <2>2. others \cup {s} \subseteq OfWorker(w) /\ s \notin others
    BY <2>1 DEF OfWorker
  <2>3. m \in Nat
    BY WorkersAreCounted, SlotsAreCounted DEF RIO!MaxCompletionsPerSession
  <2> HIDE DEF others, w
  <2>4. /\ IsFiniteSet(OfWorker(w)) /\ Cardinality(OfWorker(w)) \in Nat
        /\ Cardinality(OfWorker(w)) <= Rounds /\ Rounds \in Nat
    BY FewPerWorker, FS_CardinalityType
  <2>5. /\ IsFiniteSet(others) /\ IsFiniteSet(others \cup {s})
        /\ Cardinality(others \cup {s}) <= Cardinality(OfWorker(w))
    BY <2>2, <2>4, FS_Subset
  <2>6. Cardinality(others) \in Nat /\ Cardinality(others \cup {s}) = Cardinality(others) + 1
    BY <2>2, <2>5, FS_AddElement, FS_CardinalityType
  <2>7. Cardinality(others) + 1 <= Rounds
    BY <2>4, <2>5, <2>6
  <2> DEFINE n == Cardinality(others)
  <2>8. (n + 1) * m <= Rounds * m /\ (n + 1) * m = n * m + m
    <3> HIDE DEF n, m
    <3>1. n \in Nat /\ n + 1 <= Rounds /\ n + 1 \in Nat
      BY <2>6, <2>7 DEF n
    <3> QED
      BY <2>3, <2>4, <3>1, TimesMonotone, TimesNext
  <2>9. RIO!Reserved(RIO!ThreadId(s)) = n * m /\ RIO!QueueSize = Rounds * m
    BY RIOLibrary DEF RIO!Reserved, RIO!QueueSize, Rounds, others, w
  <2>10. n * m \in Nat /\ Rounds * m \in Nat
    BY <2>3, <2>4, <2>6, TimesNext
  <2> HIDE DEF n, m
  <2> QED
    BY <2>3, <2>8, <2>9, <2>10 DEF m
<1> QED
  BY <1>1, AlwaysRegistered, PTL

-------------------------------------------------------------------------------
(* The server's start and stop: what is there at each of their steps.        *)

Beginning == {"InitNetwork", "InitSessions"}
Preparing == {"InitRIO", "InitializeWorkerResources"}
Prepared == {"StartWorkerThreads", "StartSessionBroker", "on"}
Ending == {"broker", "joinBroker", "close", "drain"}
AfterDrain == {"signal", "join", "handles", "ticker", "clear", "delegate"}
Joined == {"handles", "ticker", "clear", "delegate"}

\* No thread has been started yet, or all have been joined.
NoThreads == \A t \in SV!Threads : thread[t] = "none"
ThreadsStarted ==
    /\ thread \in [SV!Threads -> {"none", "run", "exit"}]
    /\ svPc \in {"off", "StartWorkerThreads"} \union Beginning \union Preparing \union Joined
         => NoThreads

\* What StartServer has made at the step it is in, and StopServer has not taken away.
PartsMade ==
    /\ svPc \in {"off"} \union Beginning \union Preparing \union Prepared \union Ending
            \union AfterDrain
    /\ svPc \in Beginning \union Preparing \union Prepared => core /\ logger
    /\ svPc \in Beginning => manager # "initialized"
    /\ svPc \in Preparing \union Prepared => manager = "initialized"
    /\ svPc \in Prepared => svHandles /\ schedulers = svWorkers /\ ticker
    /\ broker # "none" => svPc \in {"on", "broker", "joinBroker"} /\ manager = "initialized"
PartsTaken ==
    /\ svPc \in {"ticker", "clear", "delegate"} => ~ svHandles /\ schedulers = {}
    /\ svPc \in {"clear", "delegate"} => ~ ticker
    /\ svPc = "delegate" => manager # "initialized"

\* What refers to a session that is in the pool: nothing.  One that was disconnected is with
\* the thread that did it, or listed, or dropped.
PoolSafe ==
    /\ svSession \in [svSessions -> {"unused", "reserved", "connected", "releasing"}]
    /\ pending \in [svSessions -> Nat]
    /\ outstanding \subseteq svSessions /\ shut \subseteq svSessions
    /\ claims \subseteq svSessions /\ releaseList \subseteq svSessions
    /\ claims \cap releaseList = {}
    /\ \A s \in claims \union releaseList : svSession[s] = "releasing"
    /\ \A s \in svSessions : svSession[s] = "unused" =>
          s \notin outstanding /\ s \notin shut /\ pending[s] = 0
AllUnused == \A s \in svSessions : svSession[s] = "unused"
SessionsKept == PoolSafe /\ (manager # "initialized" \/ svPc \in AfterDrain => AllUnused)

ServerInv ==
    /\ ThreadsStarted /\ PartsMade /\ PartsTaken /\ SessionsKept
    /\ SV!ThreadsHaveParts /\ SV!OffLeavesNothing

LEMMA ServerFromInv ==
    ServerInv => SV!ThreadsHaveParts /\ SV!DeletedWhenDrained /\ SV!OffLeavesNothing
BY DEF ServerInv, SessionsKept, PoolSafe, AllUnused, SV!DeletedWhenDrained

\* A step of a thread of the server, or of one that uses a session, starts no thread and
\* leaves what the start has made alone.
WorkStep ==
    \/ SV!WorkerStep
    \/ \E s \in svSessions : SV!Reserve(s) \/ SV!DoDisconnect(s)
    \/ \E kind \in {"io", "recv"}, w \in svWorkers : SV!FatalErrorIn(kind, w)

LEMMA WorkLeaves ==
    ASSUME WorkStep
    PROVE  UNCHANGED <<svPc, svStarts, failed, core, manager, isServerStopped, svHandles,
                       stopEvents, schedulers, ticker, logger, broker>>
BY DEF WorkStep, SV!WorkerStep, SV!Reserve, SV!DoDisconnect,
   SV!PushToDisconnectTargetSession, SV!FatalErrorIn, SV!IOCompleted,
   SV!OnRecvPacket, SV!HeartbeatFinds, SV!HeartbeatSends, SV!RecvLogicWakes,
   SV!RecvLogicDrained, SV!RecvLogicStops, SV!IOWorkerStops, SV!RetransmissionPops,
   SV!RetransmissionStops, SV!ReleaseWakes, SV!ReleaseStops, SV!HeartbeatStops, SV!control,
   SV!parts

\* Of the threads, one at most changes, one that runs or is about to end, and it ends.
LEMMA WorkEnds ==
    ASSUME WorkStep, ThreadsStarted
    PROVE  /\ thread' \in [SV!Threads -> {"none", "run", "exit"}]
           /\ \A t \in SV!Threads : thread'[t] = "run" => thread[t] = "run"
           /\ svPc # "join" /\ NoThreads => thread' = thread
<1>1. \/ UNCHANGED thread
      \/ \E t : /\ SV!Runs(t) \/ svPc = "join"
                /\ thread' = [thread EXCEPT ![t] = "exit"]
      \/ \E t : thread' = [thread EXCEPT ![t] = @]
  BY DEF WorkStep, SV!WorkerStep, SV!Reserve, SV!DoDisconnect,
   SV!PushToDisconnectTargetSession, SV!FatalErrorIn, SV!IOCompleted,
     SV!OnRecvPacket, SV!HeartbeatFinds, SV!HeartbeatSends, SV!RecvLogicWakes,
     SV!RecvLogicDrained, SV!RecvLogicStops, SV!IOWorkerStops, SV!RetransmissionPops,
     SV!RetransmissionStops, SV!ReleaseWakes, SV!ReleaseStops, SV!HeartbeatStops,
     SV!StopRequested
<1>2. ASSUME NEW t, SV!Runs(t) \/ svPc = "join", thread' = [thread EXCEPT ![t] = "exit"]
      PROVE  /\ thread' \in [SV!Threads -> {"none", "run", "exit"}]
             /\ \A u \in SV!Threads : thread'[u] = "run" => thread[u] = "run"
             /\ svPc # "join" /\ NoThreads => thread' = thread
  BY <1>2 DEF ThreadsStarted, NoThreads, SV!Runs
<1>3. ASSUME NEW t, thread' = [thread EXCEPT ![t] = @] PROVE thread' = thread
  BY <1>3 DEF ThreadsStarted
<1> QED
  BY <1>1, <1>2, <1>3 DEF ThreadsStarted

\* What refers to a session is added while it is with a client, and taken away before it
\* returns to the pool.
LEMMA WorkReceives ==
    ASSUME PoolSafe, NEW s \in svSessions, SV!IOCompleted(s) \/ SV!OnRecvPacket(s)
    PROVE  PoolSafe' /\ (AllUnused => AllUnused')
<1>1. CASE SV!IOCompleted(s)
  <2>1. /\ s \in outstanding /\ outstanding' \subseteq outstanding
        /\ \/ pending' = [pending EXCEPT ![s] = @ + 1]
           \/ UNCHANGED pending
        /\ UNCHANGED <<svSession, shut, claims, releaseList>>
    BY <1>1 DEF SV!IOCompleted, SV!release
  <2>2. svSession[s] # "unused"
    BY <2>1 DEF PoolSafe
  <2>3. pending' \in [svSessions -> Nat]
    BY <2>1 DEF PoolSafe
  <2>4. \A t \in svSessions : t # s => pending'[t] = pending[t]
    BY <2>1 DEF PoolSafe
  <2> QED
    BY <2>1, <2>2, <2>3, <2>4 DEF PoolSafe, AllUnused
<1>2. CASE SV!OnRecvPacket(s)
  <2>1. /\ pending[s] > 0 /\ pending' = [pending EXCEPT ![s] = @ - 1]
        /\ \/ UNCHANGED svSession
           \/ svSession[s] = "reserved" /\ svSession' = [svSession EXCEPT ![s] = "connected"]
        /\ UNCHANGED <<outstanding, shut, claims, releaseList>>
    BY <1>2 DEF SV!OnRecvPacket, SV!release
  <2>2. svSession[s] # "unused"
    BY <2>1 DEF PoolSafe
  <2>3. /\ pending' \in [svSessions -> Nat]
        /\ \A t \in svSessions : t # s => pending'[t] = pending[t]
    BY <2>1 DEF PoolSafe
  <2>4. /\ svSession' \in [svSessions -> {"unused", "reserved", "connected", "releasing"}]
        /\ svSession'[s] # "unused"
        /\ \A t \in svSessions : t # s => svSession'[t] = svSession[t]
    BY <2>1, <2>2 DEF PoolSafe
  <2> QED
    BY <2>1, <2>2, <2>3, <2>4 DEF PoolSafe, AllUnused
<1> QED
  BY <1>1, <1>2

\* ReleaseWakes: a session that still has a receive in the kernel stays listed, and one that
\* its second drain test drops stays as it is.
LEMMA WorkReleases ==
    ASSUME PoolSafe, SV!ReleaseWakes
    PROVE  PoolSafe' /\ (AllUnused => AllUnused')
<1> DEFINE idle == {s \in releaseList : pending[s] = 0}
           drained == idle \ outstanding
<1>1. PICK released \in SUBSET drained :
        /\ svSession' = [s \in svSessions |-> IF s \in released THEN "unused" ELSE svSession[s]]
        /\ shut' = (shut \union idle) \ released
  BY DEF SV!ReleaseWakes
<1>2. /\ releaseList' = releaseList \ drained
      /\ UNCHANGED <<outstanding, pending, claims>>
  BY DEF SV!ReleaseWakes
<1>3. /\ \A s \in released : s \in releaseList /\ pending[s] = 0 /\ s \notin outstanding
      /\ \A s \in released : s \notin releaseList' /\ s \notin claims
      /\ releaseList' \subseteq releaseList /\ idle \subseteq releaseList
  BY <1>2 DEF PoolSafe
<1> HIDE DEF idle, drained
<1>4. \A s \in svSessions : svSession'[s] = IF s \in released THEN "unused" ELSE svSession[s]
  BY <1>1
<1>5. \A s \in shut' : s \notin released /\ (s \in shut \/ s \in releaseList)
  BY <1>1, <1>3
<1>6. svSession' \in [svSessions -> {"unused", "reserved", "connected", "releasing"}]
  BY <1>1 DEF PoolSafe
<1>7. \A s \in svSessions : svSession'[s] = "unused" =>
        s \notin outstanding' /\ s \notin shut' /\ pending'[s] = 0
  BY <1>2, <1>3, <1>4, <1>5 DEF PoolSafe
<1>8. \A s \in claims' \union releaseList' : svSession'[s] = "releasing"
  BY <1>2, <1>3, <1>4 DEF PoolSafe
<1>9. shut' \subseteq svSessions /\ releaseList' \subseteq svSessions /\ claims' \cap releaseList' = {}
  BY <1>2, <1>3, <1>5 DEF PoolSafe
<1> QED
  BY <1>2, <1>4, <1>6, <1>7, <1>8, <1>9 DEF PoolSafe, AllUnused

LEMMA WorkElse ==
    ASSUME PoolSafe, WorkStep,
           \A s \in svSessions : ~ SV!Reserve(s) /\ ~ SV!IOCompleted(s) /\ ~ SV!OnRecvPacket(s),
           ~ SV!ReleaseWakes
    PROVE  PoolSafe' /\ (AllUnused => AllUnused')
<1>1. \/ UNCHANGED <<svSession, outstanding, shut, pending, claims, releaseList>>
      \/ \E w : /\ pending' = [s \in svSessions |-> IF svOwner[s] = w THEN 0 ELSE pending[s]]
                /\ UNCHANGED <<svSession, outstanding, shut, claims, releaseList>>
      \/ \E s \in svSessions : SV!DoDisconnect(s) \/ SV!PushToDisconnectTargetSession(s)
  BY DEF WorkStep, SV!WorkerStep, SV!FatalErrorIn,
     SV!HeartbeatFinds, SV!HeartbeatSends, SV!RecvLogicWakes, SV!RecvLogicDrained,
     SV!RecvLogicStops, SV!IOWorkerStops, SV!RetransmissionPops, SV!RetransmissionStops,
     SV!ReleaseStops, SV!HeartbeatStops, SV!drain, SV!release
<1>2. ASSUME NEW w, pending' = [s \in svSessions |-> IF svOwner[s] = w THEN 0 ELSE pending[s]],
             UNCHANGED <<svSession, outstanding, shut, claims, releaseList>>
      PROVE  PoolSafe' /\ (AllUnused => AllUnused')
  <2>1. \A s \in svSessions : pending'[s] \in Nat /\ (pending[s] = 0 => pending'[s] = 0)
    BY <1>2 DEF PoolSafe
  <2>2. pending' \in [svSessions -> Nat]
    BY <1>2, <2>1
  <2> QED
    BY <1>2, <2>1, <2>2 DEF PoolSafe, AllUnused
<1>3. ASSUME NEW s \in svSessions, SV!DoDisconnect(s) PROVE PoolSafe' /\ (AllUnused => AllUnused')
  <2>1. /\ svSession[s] \in {"reserved", "connected"} /\ claims' = claims \union {s}
        /\ svSession' = [svSession EXCEPT ![s] = "releasing"]
        /\ UNCHANGED <<outstanding, shut, pending, releaseList>>
    BY <1>3 DEF SV!DoDisconnect
  <2>2. s \notin releaseList /\ svSession[s] # "unused"
    BY <2>1 DEF PoolSafe
  <2> QED
    BY <2>1, <2>2 DEF PoolSafe, AllUnused
<1>4. ASSUME NEW s \in svSessions, SV!PushToDisconnectTargetSession(s)
      PROVE  PoolSafe' /\ (AllUnused => AllUnused')
  <2>1. /\ s \in claims /\ claims' = claims \ {s} /\ releaseList' = releaseList \union {s}
        /\ UNCHANGED <<svSession, outstanding, shut, pending>>
    BY <1>4 DEF SV!PushToDisconnectTargetSession, SV!Lists, SV!drain
  <2> QED
    BY <2>1 DEF PoolSafe, AllUnused
<1> QED
  BY <1>1, <1>2, <1>3, <1>4 DEF PoolSafe, AllUnused

\* No step of a thread, of the content or of a client takes a session from a pool that is not
\* there, or that is being drained: only the broker does, which runs while there is one.
LEMMA WorkKeeps == ASSUME ServerInv, WorkStep PROVE SessionsKept'
<1>1. PoolSafe /\ (manager # "initialized" \/ svPc \in AfterDrain => AllUnused)
  BY DEF ServerInv, SessionsKept
<1>2. UNCHANGED <<svPc, manager>>
  BY WorkLeaves
<1>3. CASE \E s \in svSessions : SV!Reserve(s)
  <2>1. PICK s \in svSessions : SV!Reserve(s)
    BY <1>3
  <2>2. PoolSafe'
    BY <1>1, <2>1 DEF SV!Reserve, PoolSafe, SV!release
  <2>3. manager = "initialized" /\ svPc \notin AfterDrain
    BY <2>1 DEF SV!Reserve, ServerInv, PartsMade, AfterDrain
  <2> QED
    BY <1>2, <2>2, <2>3 DEF SessionsKept
<1>4. CASE \A s \in svSessions : ~ SV!Reserve(s)
  <2>1. PoolSafe' /\ (AllUnused => AllUnused')
    BY <1>1, <1>4, WorkReceives, WorkReleases, WorkElse
  <2> QED
    BY <1>1, <1>2, <2>1 DEF SessionsKept, AllUnused
<1> QED
  BY <1>3, <1>4

LEMMA ServerWorks == ASSUME ServerInv, WorkStep PROVE ServerInv'
<1>1. /\ thread' \in [SV!Threads -> {"none", "run", "exit"}]
      /\ \A t \in SV!Threads : thread'[t] = "run" => thread[t] = "run"
      /\ svPc # "join" /\ NoThreads => thread' = thread
  BY WorkEnds DEF ServerInv
<1>2. /\ UNCHANGED <<svPc, core, manager>>
      /\ UNCHANGED <<svHandles, schedulers, ticker, logger, broker>>
  BY WorkLeaves
<1>3. ThreadsStarted'
  BY <1>1, <1>2 DEF ServerInv, ThreadsStarted, NoThreads, Beginning, Preparing, Joined
<1>4. PartsMade' /\ PartsTaken'
  BY <1>2 DEF ServerInv, PartsMade, PartsTaken
<1>5. SV!ThreadsHaveParts'
  BY <1>1, <1>2 DEF ServerInv, SV!ThreadsHaveParts, SV!Runs
<1>6. SV!OffLeavesNothing'
  BY <1>1, <1>2, <1>3 DEF ServerInv, SV!OffLeavesNothing, ThreadsStarted, NoThreads
<1> QED
  BY <1>3, <1>4, <1>5, <1>6, WorkKeeps DEF ServerInv

\* StartServer: a step that fails goes to the stop with what was made before it.
LEMMA ServerStarts == ASSUME ServerInv, SV!StartServer PROVE ServerInv'
<1>1. /\ UNCHANGED <<svSession, outstanding, shut, pending, claims, releaseList>>
      /\ svPc' \in {"InitNetwork", "broker", "off"} \union Beginning \union Preparing
           \union Prepared
  BY DEF SV!StartServer, SV!ReadOptionFile, SV!InitNetwork, SV!InitSessions, SV!InitRIO,
     SV!InitializeWorkerResources, SV!StartWorkerThreads, SV!StartSessionBroker, SV!StartFails,
     SV!Step, SV!World, SV!drain, SV!release, Beginning, Preparing, Prepared
<1>2. manager' # "initialized" => manager # "initialized"
  BY DEF SV!StartServer, SV!ReadOptionFile, SV!InitNetwork, SV!InitSessions, SV!InitRIO,
     SV!InitializeWorkerResources, SV!StartWorkerThreads, SV!StartSessionBroker, SV!StartFails,
     SV!Step, ServerInv, PartsMade, Beginning
<1>3. SessionsKept'
  BY <1>1, <1>2 DEF ServerInv, SessionsKept, PoolSafe, AllUnused, AfterDrain, Beginning, Preparing, Prepared
<1>4. PartsMade'
  BY DEF SV!StartServer, SV!ReadOptionFile, SV!InitNetwork, SV!InitSessions, SV!InitRIO,
     SV!InitializeWorkerResources, SV!StartWorkerThreads, SV!StartSessionBroker, SV!StartFails,
     SV!Step, SV!parts, ServerInv, PartsMade, Beginning, Preparing, Prepared, Ending,
     AfterDrain, SV!OffLeavesNothing
<1>5. PartsTaken'
  BY <1>1 DEF PartsTaken, Beginning, Preparing, Prepared
<1>6. CASE SV!StartWorkerThreads
  <2>1. /\ svPc = "StartWorkerThreads" /\ svPc' = "StartSessionBroker"
        /\ thread' = [t \in SV!Threads |-> "run"]
        /\ UNCHANGED <<core, manager, svHandles, schedulers, ticker, logger>>
    BY <1>6 DEF SV!StartWorkerThreads, SV!Step, SV!parts
  <2>2. ThreadsStarted'
    BY <2>1 DEF ThreadsStarted, Beginning, Preparing, Joined
  <2>3. SV!ThreadsHaveParts'
    BY <2>1 DEF ServerInv, PartsMade, Prepared, SV!ThreadsHaveParts
  <2> QED
    BY <1>3, <1>4, <1>5, <2>1, <2>2, <2>3 DEF ServerInv, SV!OffLeavesNothing
<1>7. CASE ~ SV!StartWorkerThreads
  <2>1. UNCHANGED thread
    BY <1>7 DEF SV!StartServer, SV!ReadOptionFile, SV!InitNetwork, SV!InitSessions, SV!InitRIO,
       SV!InitializeWorkerResources, SV!StartSessionBroker, SV!World
  <2>2. CASE SV!StartSessionBroker
    <3>1. /\ svPc = "StartSessionBroker" /\ svPc' \in {"on", "broker"}
          /\ UNCHANGED <<core, manager, svHandles, schedulers, ticker, logger>>
      BY <2>2 DEF SV!StartSessionBroker, SV!StartFails
    <3> QED
      BY <1>3, <1>4, <1>5, <2>1, <3>1 DEF ServerInv, ThreadsStarted, NoThreads, Beginning,
         Preparing, Joined, SV!ThreadsHaveParts, SV!Runs, SV!OffLeavesNothing
  <2>3. CASE ~ SV!StartSessionBroker
    <3>1. svPc \in {"off"} \union Beginning \union Preparing
      BY <1>7, <2>3 DEF SV!StartServer, SV!ReadOptionFile, SV!InitNetwork, SV!InitSessions,
         SV!InitRIO, SV!InitializeWorkerResources, Beginning, Preparing
    <3>2. NoThreads /\ NoThreads'
      BY <2>1, <3>1 DEF ServerInv, ThreadsStarted, NoThreads
    <3>3. ThreadsStarted' /\ SV!ThreadsHaveParts'
      BY <2>1, <3>2 DEF ServerInv, ThreadsStarted, NoThreads, SV!ThreadsHaveParts, SV!Runs
    <3>4. svPc' = "off" =>
            svPc = "off" /\ UNCHANGED <<core, manager, svHandles, schedulers, ticker, logger, broker>>
      BY <1>7, <2>3 DEF SV!StartServer, SV!ReadOptionFile, SV!InitNetwork, SV!InitSessions,
         SV!InitRIO, SV!InitializeWorkerResources, SV!StartFails
    <3>5. SV!OffLeavesNothing'
      BY <2>1, <3>4 DEF ServerInv, SV!OffLeavesNothing
    <3> QED
      BY <1>3, <1>4, <1>5, <3>3, <3>5 DEF ServerInv
  <2> QED
    BY <2>2, <2>3
<1> QED
  BY <1>6, <1>7

\* StopServer: the broker first, then the sessions, then the threads that drain them, then
\* what the threads use.
LEMMA ServerStops == ASSUME ServerInv, SV!StopServer PROVE ServerInv'
<1> USE DEF ServerInv
<1>1. CASE SV!CallStopServer
  <2>1. /\ svPc \in {"on", "off"} /\ svPc' = "broker"
        /\ UNCHANGED <<core, manager, svHandles, schedulers, ticker, logger, broker, thread>>
        /\ UNCHANGED <<svSession, outstanding, shut, pending, claims, releaseList>>
    BY <1>1 DEF SV!CallStopServer, SV!parts, SV!World, SV!drain, SV!release
  <2>2. ThreadsStarted' /\ PartsMade' /\ PartsTaken'
    BY <2>1 DEF ThreadsStarted, NoThreads, PartsMade, PartsTaken, Beginning, Preparing, Prepared,
       Ending, AfterDrain, Joined, SV!OffLeavesNothing
  <2>3. SessionsKept' /\ SV!ThreadsHaveParts' /\ SV!OffLeavesNothing'
    BY <2>1 DEF SessionsKept, PoolSafe, AllUnused, AfterDrain, SV!ThreadsHaveParts, SV!Runs, SV!OffLeavesNothing
  <2> QED
    BY <2>2, <2>3
<1>2. CASE SV!StopBroker \/ SV!JoinBroker
  <2>1. /\ \/ svPc = "broker" /\ svPc' = "joinBroker" /\ (broker' # "none" => broker # "none")
           \/ svPc = "joinBroker" /\ svPc' = "close" /\ broker' = "none"
        /\ UNCHANGED <<core, manager, svHandles, schedulers, ticker, logger, thread>>
        /\ UNCHANGED <<svSession, outstanding, shut, pending, claims, releaseList>>
    BY <1>2 DEF SV!StopBroker, SV!JoinBroker, SV!Step, SV!World, SV!drain, SV!release
  <2>2. ThreadsStarted' /\ PartsMade' /\ PartsTaken'
    BY <2>1 DEF ThreadsStarted, NoThreads, PartsMade, PartsTaken, Beginning, Preparing, Prepared,
       Ending, AfterDrain, Joined
  <2>3. SessionsKept' /\ SV!ThreadsHaveParts' /\ SV!OffLeavesNothing'
    BY <2>1 DEF SessionsKept, PoolSafe, AllUnused, AfterDrain, SV!ThreadsHaveParts, SV!Runs, SV!OffLeavesNothing
  <2> QED
    BY <2>2, <2>3
<1>3. CASE SV!CloseAllSessions
  <2>1. /\ svPc = "close" /\ svPc' = "drain"
        /\ svSession' = [s \in svSessions |-> IF s \in SV!Open THEN "releasing" ELSE svSession[s]]
        /\ releaseList' = releaseList \cup SV!Open
        /\ UNCHANGED <<core, manager, svHandles, schedulers, ticker, logger, broker, thread>>
        /\ UNCHANGED <<claims, outstanding, shut, pending>>
    BY <1>3 DEF SV!CloseAllSessions, SV!Step, SV!Lists, SV!parts
  <2>2. ThreadsStarted' /\ PartsMade' /\ PartsTaken'
    BY <2>1 DEF ThreadsStarted, NoThreads, PartsMade, PartsTaken, Beginning, Preparing, Prepared,
       Ending, AfterDrain, Joined
  <2>3. /\ \A s \in svSessions :
             svSession'[s] = IF s \in SV!Open THEN "releasing" ELSE svSession[s]
        /\ \A s \in SV!Open : s \in svSessions /\ svSession[s] # "unused"
        /\ svSession' \in [svSessions -> {"unused", "reserved", "connected", "releasing"}]
    BY <2>1 DEF SessionsKept, PoolSafe, SV!Open
  <2>4. /\ \A s \in claims \union releaseList : s \notin SV!Open
        /\ releaseList' \subseteq svSessions
    BY <2>1 DEF SessionsKept, PoolSafe, SV!Open
  <2>5. PoolSafe'
    BY <2>1, <2>3, <2>4 DEF SessionsKept, PoolSafe
  <2>6. SessionsKept'
    BY <2>1, <2>3, <2>5 DEF SessionsKept, AllUnused, AfterDrain
  <2>7. SV!ThreadsHaveParts' /\ SV!OffLeavesNothing'
    BY <2>1 DEF SV!ThreadsHaveParts, SV!Runs, SV!OffLeavesNothing
  <2> QED
    BY <2>2, <2>6, <2>7
<1>4. CASE SV!WaitForAllSessionsReleased
  <2>1. /\ svPc = "drain" /\ svPc' = "signal"
        /\ manager = "initialized" => \A s \in svSessions : svSession[s] = "unused"
        /\ UNCHANGED <<core, manager, svHandles, schedulers, ticker, logger, broker, thread>>
        /\ UNCHANGED <<svSession, outstanding, shut, pending, claims, releaseList>>
    BY <1>4 DEF SV!WaitForAllSessionsReleased, SV!Step, SV!World, SV!parts, SV!drain, SV!release
  <2>2. ThreadsStarted' /\ PartsMade' /\ PartsTaken'
    BY <2>1 DEF ThreadsStarted, NoThreads, PartsMade, PartsTaken, Beginning, Preparing, Prepared,
       Ending, AfterDrain, Joined
  <2>3. SessionsKept' /\ SV!ThreadsHaveParts' /\ SV!OffLeavesNothing'
    BY <2>1 DEF SessionsKept, PoolSafe, AllUnused, AfterDrain, SV!ThreadsHaveParts, SV!Runs, SV!OffLeavesNothing
  <2> QED
    BY <2>2, <2>3
<1>5. CASE SV!SignalWorkerStopEvents
  <2>1. /\ svPc = "signal" /\ svPc' = "join"
        /\ UNCHANGED <<core, manager, svHandles, schedulers, ticker, logger, broker, thread>>
        /\ UNCHANGED <<svSession, outstanding, shut, pending, claims, releaseList>>
    BY <1>5 DEF SV!SignalWorkerStopEvents, SV!Step, SV!World, SV!drain, SV!release
  <2>2. ThreadsStarted' /\ PartsMade' /\ PartsTaken'
    BY <2>1 DEF ThreadsStarted, NoThreads, PartsMade, PartsTaken, Beginning, Preparing, Prepared,
       Ending, AfterDrain, Joined
  <2>3. SessionsKept' /\ SV!ThreadsHaveParts' /\ SV!OffLeavesNothing'
    BY <2>1 DEF SessionsKept, PoolSafe, AllUnused, AfterDrain, SV!ThreadsHaveParts, SV!Runs, SV!OffLeavesNothing
  <2> QED
    BY <2>2, <2>3
<1>6. CASE SV!StopAllThreads
  <2>1. /\ svPc = "join" /\ svPc' = "handles" /\ thread' = [t \in SV!Threads |-> "none"]
        /\ UNCHANGED <<core, manager, svHandles, schedulers, ticker, logger, broker>>
        /\ UNCHANGED <<svSession, outstanding, shut, pending, claims, releaseList>>
    BY <1>6 DEF SV!StopAllThreads, SV!Step, SV!parts, SV!drain, SV!release
  <2>2. NoThreads' /\ thread' \in [SV!Threads -> {"none", "run", "exit"}]
    BY <2>1 DEF NoThreads
  <2>3. ThreadsStarted' /\ PartsMade' /\ PartsTaken'
    BY <2>1, <2>2 DEF ThreadsStarted, PartsMade, PartsTaken, Beginning, Preparing, Prepared,
       Ending, AfterDrain
  <2>4. SessionsKept' /\ SV!ThreadsHaveParts' /\ SV!OffLeavesNothing'
    BY <2>1, <2>2 DEF SessionsKept, PoolSafe, AllUnused, AfterDrain, NoThreads, SV!ThreadsHaveParts, SV!Runs,
       SV!OffLeavesNothing
  <2> QED
    BY <2>3, <2>4
<1>7. CASE SV!CloseHandles \/ SV!StopTicker \/ SV!Cleanup
  <2>1. /\ svPc \in Joined /\ UNCHANGED <<manager, broker, thread>>
        /\ UNCHANGED <<svSession, outstanding, shut, pending, claims, releaseList>>
        /\ svPc' \in {"ticker", "clear", "off"}
    BY <1>7 DEF SV!CloseHandles, SV!StopTicker, SV!Cleanup, SV!Step, SV!World, SV!drain,
       SV!release, Joined
  <2>2. NoThreads /\ NoThreads' /\ broker = "none"
    BY <2>1 DEF ThreadsStarted, NoThreads, Joined, PartsMade
  <2>3. \/ svPc' = "ticker" /\ ~ svHandles' /\ schedulers' = {}
        \/ svPc' = "clear" /\ ~ svHandles' /\ schedulers' = {} /\ ~ ticker'
        \/ /\ svPc' = "off" /\ ~ svHandles' /\ schedulers' = {} /\ ~ ticker' /\ ~ core' /\ ~ logger'
           /\ manager # "initialized"
    BY <1>7 DEF SV!CloseHandles, SV!StopTicker, SV!Cleanup, SV!Step, PartsTaken
  <2>4. ThreadsStarted' /\ PartsMade' /\ PartsTaken'
    BY <2>1, <2>2, <2>3 DEF ThreadsStarted, NoThreads, PartsMade, PartsTaken, Beginning,
       Preparing, Prepared, Ending, AfterDrain
  <2>5. manager # "initialized" \/ svPc \in AfterDrain
    BY <2>1 DEF Joined, AfterDrain
  <2>6. SessionsKept'
    BY <2>1, <2>5 DEF SessionsKept, PoolSafe, AllUnused
  <2>7. SV!ThreadsHaveParts' /\ SV!OffLeavesNothing'
    BY <2>1, <2>2, <2>3 DEF NoThreads, SV!ThreadsHaveParts, SV!Runs, SV!OffLeavesNothing
  <2> QED
    BY <2>4, <2>6, <2>7
<1>8. CASE SV!ClearAllSession
  <2>1. /\ svPc = "clear" /\ svPc' = "delegate" /\ manager' # "initialized" /\ releaseList' = {}
        /\ UNCHANGED <<core, svHandles, schedulers, ticker, logger, broker, thread>>
        /\ UNCHANGED <<claims, svSession, outstanding, shut, pending>>
    BY <1>8 DEF SV!ClearAllSession, SV!Step, SV!parts, SV!drain
  <2>2. ThreadsStarted' /\ PartsMade' /\ PartsTaken'
    BY <2>1 DEF ThreadsStarted, NoThreads, PartsMade, PartsTaken, Beginning, Preparing, Prepared,
       Ending, AfterDrain, Joined
  <2>3. SessionsKept'
    BY <2>1 DEF SessionsKept, PoolSafe, AllUnused, AfterDrain
  <2>4. SV!ThreadsHaveParts' /\ SV!OffLeavesNothing'
    BY <2>1 DEF ThreadsStarted, NoThreads, Joined, SV!ThreadsHaveParts, SV!Runs,
       SV!OffLeavesNothing
  <2> QED
    BY <2>2, <2>3, <2>4
<1> QED
  BY <1>1, <1>2, <1>3, <1>4, <1>5, <1>6, <1>7, <1>8 DEF SV!StopServer

LEMMA ServerAlways == SV!Init /\ [][SV!Next]_(SV!vars) => []ServerInv
<1>1. SV!Init => ServerInv
  BY DEF SV!Init, ServerInv, ThreadsStarted, NoThreads, PartsMade, PartsTaken, SessionsKept, PoolSafe, AllUnused,
     Beginning, Preparing, Prepared, Ending, AfterDrain, Joined, SV!ThreadsHaveParts, SV!Runs,
     SV!OffLeavesNothing
<1>2. ServerInv /\ UNCHANGED SV!vars => ServerInv'
  BY DEF SV!vars, SV!control, SV!parts, SV!drain, SV!release, ServerInv, ThreadsStarted,
     NoThreads, PartsMade, PartsTaken, SessionsKept, PoolSafe, AllUnused, SV!ThreadsHaveParts, SV!Runs,
     SV!OffLeavesNothing
<1>3. ServerInv /\ [SV!Next]_(SV!vars) => ServerInv'
  BY <1>2, ServerStarts, ServerStops, ServerWorks DEF SV!Next, WorkStep
<1> QED
  BY <1>1, <1>3, PTL

\* StopServer joins a thread before it closes the handles, frees the schedulers, clears the
\* sessions, and stops the ticker and the logger that the thread uses; a start that failed
\* half way has started none.
THEOREM PartsOutliveThreads == SV!Spec => []SV!ThreadsHaveParts
BY ServerAlways, ServerFromInv, PTL DEF SV!Spec

\* The drain of StopServer: ClearAllSession deletes the sessions only when the kernel, the
\* receive logic queue and the release list refer to none, after a stop and a failed start.
THEOREM DeletedAfterDrain == SV!Spec => []SV!DeletedWhenDrained
BY ServerAlways, ServerFromInv, PTL DEF SV!Spec

\* A server that is off has no thread, handle, scheduler or session left, whichever step of
\* StartServer failed.
THEOREM OffIsClean == SV!Spec => []SV!OffLeavesNothing
BY ServerAlways, ServerFromInv, PTL DEF SV!Spec

-------------------------------------------------------------------------------
(* The first fatal error and the handlers that are told.                     *)

\* The operators that FE takes from the library are those of the library.
LEMMA FELibrary ==
    \A S : FE!Cardinality(S) = Cardinality(S) /\ FE!IsFiniteSet(S) = IsFiniteSet(S)
BY DEF FE!Cardinality, Cardinality, FE!IsFiniteSet, IsFiniteSet

\* A thread on its way to a handler carries the stored error.
CarriesStoredError ==
    \A t \in FE!Threads : notifying[t] # feNone => errorToNotify[t] = fatalError

TellInv == FE!TypeOK /\ CarriesStoredError /\ FE!OnlyFirstTold /\ FE!InstalledHandlerTold

LEMMA InitTells == ASSUME FE!FatalAssumption PROVE FE!Init => TellInv
  BY DEF FE!Init, TellInv, FE!TypeOK, CarriesStoredError, FE!OnlyFirstTold,
     FE!InstalledHandlerTold, FE!Threads

\* The two locked sections leave with the handler of that moment and the stored error.
LEMMA LeaveTypes ==
  ASSUME FE!FatalAssumption, FE!TypeOK,
         NEW t \in FE!Threads, NEW handler \in feHandlers \cup {feNone}, NEW error \in feWorkers,
         FE!Leave(t, handler, error)
  PROVE  /\ notifying' \in [FE!Threads -> feHandlers \cup {feNone}]
         /\ errorToNotify' \in [FE!Threads -> feWorkers \cup {feNone}]
         /\ \A u \in FE!Threads : (notifying'[u] = feNone) = (errorToNotify'[u] = feNone)
         /\ notifying'[t] = handler
         /\ handler # feNone => errorToNotify'[t] = error
         /\ \A u \in FE!Threads \ {t} : /\ notifying'[u] = notifying[u]
                                     /\ errorToNotify'[u] = errorToNotify[u]
  BY DEF FE!FatalAssumption, FE!TypeOK, FE!Leave

LEMMA ReportTells ==
  ASSUME FE!FatalAssumption, TellInv, NEW w \in feWorkers, FE!ReportFatalError(w) PROVE TellInv'
<1>1. CASE fatalError # feNone
  BY <1>1 DEF FE!ReportFatalError, TellInv, FE!TypeOK, CarriesStoredError, FE!OnlyFirstTold,
              FE!InstalledHandlerTold
<1>2. CASE fatalError = feNone
  <2>1. w \in FE!Threads /\ fatalErrorHandler \in feHandlers \cup {feNone}
    BY DEF FE!Threads, TellInv, FE!TypeOK
  <2>2. FE!Leave(w, fatalErrorHandler, w) /\ fatalError' = w
        /\ UNCHANGED <<fatalErrorHandler, installs, feCalls>>
    BY <1>2 DEF FE!ReportFatalError
  <2>3. FE!TypeOK'
    BY <2>1, <2>2, LeaveTypes DEF FE!ReportFatalError, TellInv, FE!TypeOK
  <2>4. CarriesStoredError'
    BY <1>2, <2>1, <2>2, LeaveTypes DEF TellInv, CarriesStoredError, FE!TypeOK, FE!FatalAssumption
  <2>5. FE!OnlyFirstTold'
    BY <1>2, <2>2 DEF TellInv, FE!OnlyFirstTold, FE!FatalAssumption
  <2>6. FE!InstalledHandlerTold'
    BY <2>1, <2>2, LeaveTypes DEF TellInv, FE!InstalledHandlerTold
  <2> QED BY <2>3, <2>4, <2>5, <2>6 DEF TellInv
<1> QED BY <1>1, <1>2

LEMMA InstallTells ==
  ASSUME FE!FatalAssumption, TellInv, NEW c \in feControllers, NEW h \in feHandlers \cup {feNone},
         FE!SetFatalErrorHandler(c, h)
  PROVE  TellInv'
<1>1. c \in FE!Threads /\ notifying[c] = feNone /\ fatalErrorHandler' = h
      /\ UNCHANGED <<fatalError, reported, feCalls>>
  BY DEF FE!Threads, FE!SetFatalErrorHandler
<1>2. installs' \in [feHandlers -> Nat]
  BY DEF FE!SetFatalErrorHandler, TellInv, FE!TypeOK
<1>3. CASE fatalError = feNone
  BY <1>1, <1>2, <1>3 DEF FE!SetFatalErrorHandler, TellInv, FE!TypeOK, CarriesStoredError,
                          FE!OnlyFirstTold, FE!InstalledHandlerTold
<1>4. CASE fatalError # feNone
  <2>1. FE!Leave(c, h, fatalError) /\ fatalError \in feWorkers
    BY <1>4 DEF FE!SetFatalErrorHandler, TellInv, FE!TypeOK
  <2>2. FE!TypeOK'
    BY <1>1, <1>2, <2>1, LeaveTypes DEF TellInv, FE!TypeOK
  <2>3. CarriesStoredError'
    <3>1. /\ notifying'[c] = h /\ (h # feNone => errorToNotify'[c] = fatalError)
          /\ \A u \in FE!Threads \ {c} : /\ notifying'[u] = notifying[u]
                                      /\ errorToNotify'[u] = errorToNotify[u]
      BY <1>1, <2>1, LeaveTypes DEF TellInv
    <3> QED BY <1>1, <3>1 DEF TellInv, CarriesStoredError
  <2>4. FE!OnlyFirstTold' BY <1>1 DEF TellInv, FE!OnlyFirstTold
  <2>5. FE!InstalledHandlerTold'
    BY <1>1, <2>1, LeaveTypes DEF TellInv, FE!InstalledHandlerTold
  <2> QED BY <2>2, <2>3, <2>4, <2>5 DEF TellInv
<1> QED BY <1>3, <1>4

LEMMA CallTells ==
  ASSUME FE!FatalAssumption, TellInv, NEW t \in FE!Threads, FE!NotifyFatalErrorHandler(t)
  PROVE  TellInv'
<1>1. /\ notifying[t] \in feHandlers /\ errorToNotify[t] \in feWorkers
      /\ errorToNotify[t] = fatalError
      /\ feCalls' = [feCalls EXCEPT ![notifying[t]][errorToNotify[t]] = @ + 1]
      /\ notifying' = [notifying EXCEPT ![t] = feNone]
      /\ errorToNotify' = [errorToNotify EXCEPT ![t] = feNone]
      /\ UNCHANGED <<fatalError, fatalErrorHandler, reported, installs>>
  BY DEF FE!NotifyFatalErrorHandler, FE!Leave, TellInv, FE!TypeOK, CarriesStoredError
<1>2. /\ feCalls' \in [feHandlers -> [feWorkers -> Nat]]
      /\ \A h \in feHandlers, w \in feWorkers :
            feCalls'[h][w] = IF h = notifying[t] /\ w = fatalError
                           THEN feCalls[h][w] + 1 ELSE feCalls[h][w]
  BY <1>1 DEF TellInv, FE!TypeOK
<1>3. FE!TypeOK' BY <1>1, <1>2 DEF TellInv, FE!TypeOK
<1>4. CarriesStoredError' BY <1>1 DEF TellInv, FE!TypeOK, CarriesStoredError
<1>5. FE!OnlyFirstTold' BY <1>1, <1>2 DEF TellInv, FE!OnlyFirstTold
<1>6. FE!InstalledHandlerTold'
  <2> SUFFICES ASSUME fatalError' # feNone, fatalErrorHandler' # feNone
               PROVE  \/ \E u \in FE!Threads : notifying'[u] = fatalErrorHandler'
                      \/ feCalls'[fatalErrorHandler'][fatalError'] > 0
    BY DEF FE!InstalledHandlerTold
  <2>1. fatalErrorHandler \in feHandlers /\ fatalError \in feWorkers
    BY <1>1 DEF TellInv, FE!TypeOK
  <2>2. feCalls[fatalErrorHandler][fatalError] \in Nat
    BY <2>1 DEF TellInv, FE!TypeOK
  <2>3. CASE notifying[t] = fatalErrorHandler BY <1>1, <1>2, <2>1, <2>2, <2>3
  <2>4. CASE notifying[t] # fatalErrorHandler
    <3>1. CASE feCalls[fatalErrorHandler][fatalError] > 0 BY <1>1, <1>2, <2>1, <2>2, <3>1
    <3>2. CASE ~(feCalls[fatalErrorHandler][fatalError] > 0)
      <4>1. PICK u \in FE!Threads : notifying[u] = fatalErrorHandler
        BY <1>1, <2>1, <3>2 DEF TellInv, FE!InstalledHandlerTold, FE!FatalAssumption
      <4>2. u # t BY <2>4, <4>1
      <4> QED BY <1>1, <4>1, <4>2 DEF TellInv, FE!TypeOK
    <3> QED BY <3>1, <3>2
  <2> QED BY <2>3, <2>4
<1> QED BY <1>3, <1>4, <1>5, <1>6 DEF TellInv

LEMMA StepTells == ASSUME FE!FatalAssumption PROVE TellInv /\ [FE!Next]_(FE!vars) => TellInv'
<1> SUFFICES ASSUME TellInv, [FE!Next]_(FE!vars) PROVE TellInv' OBVIOUS
<1>1. ASSUME NEW w \in feWorkers, FE!ReportFatalError(w) PROVE TellInv' BY <1>1, ReportTells
<1>2. ASSUME NEW c \in feControllers, NEW h \in feHandlers \cup {feNone}, FE!SetFatalErrorHandler(c, h)
      PROVE  TellInv'
  BY <1>2, InstallTells
<1>3. ASSUME NEW t \in FE!Threads, FE!NotifyFatalErrorHandler(t) PROVE TellInv' BY <1>3, CallTells
<1>4. CASE UNCHANGED FE!vars
  BY <1>4 DEF FE!vars, TellInv, FE!TypeOK, CarriesStoredError, FE!OnlyFirstTold,
     FE!InstalledHandlerTold
<1> QED BY <1>1, <1>2, <1>3, <1>4 DEF FE!Next

\* Whatever the order of reports and installations, a handler is only ever called with
\* the error that was stored first (ReportFatalError, SetFatalErrorHandler).
THEOREM FirstErrorOnly == ASSUME FE!FatalAssumption PROVE FE!Spec => []FE!OnlyFirstTold
<1>1. TellInv => FE!OnlyFirstTold BY DEF TellInv
<1> QED BY <1>1, InitTells, StepTells, PTL DEF FE!Spec

\* The race of a report with an installation loses no call: one of the two threads
\* sees both the error and the handler under the lock.
THEOREM NoCallLost == ASSUME FE!FatalAssumption PROVE FE!Spec => []FE!InstalledHandlerTold
<1>1. TellInv => FE!InstalledHandlerTold BY DEF TellInv
<1> QED BY <1>1, InitTells, StepTells, PTL DEF FE!Spec
\* The calls under way: those threads that carry error w to handler h.
Carrying(h, w) == {t \in FE!Threads : notifying[t] = h /\ errorToNotify[t] = w}
OnceInv ==
    /\ FE!OncePerInstallation
    /\ fatalErrorHandler # feNone => installs[fatalErrorHandler] > 0

LEMMA CarryingIsCounted ==
  ASSUME FE!FatalAssumption, NEW h, NEW w
  PROVE  IsFiniteSet(Carrying(h, w)) /\ Cardinality(Carrying(h, w)) \in Nat
<1>1. IsFiniteSet(FE!Threads)
  BY FELibrary, FS_Union DEF FE!FatalAssumption, FE!Threads
<1>2. Carrying(h, w) \subseteq FE!Threads
  BY DEF Carrying
<1> QED
  BY <1>1, <1>2, FS_Subset, FS_CardinalityType

\* A thread that leaves the lock adds one call, of its handler with its error.
LEMMA LeaveCarries ==
  ASSUME FE!FatalAssumption, FE!TypeOK, NEW t \in FE!Threads, notifying[t] = feNone,
         NEW handler \in feHandlers \cup {feNone}, NEW error \in feWorkers, FE!Leave(t, handler, error),
         NEW h \in feHandlers, NEW w \in feWorkers
  PROVE  Cardinality(Carrying(h, w)') =
            Cardinality(Carrying(h, w)) + (IF h = handler /\ w = error THEN 1 ELSE 0)
<1>1. /\ notifying'[t] = handler /\ (handler # feNone => errorToNotify'[t] = error)
      /\ \A u \in FE!Threads \ {t} : notifying'[u] = notifying[u] /\ errorToNotify'[u] = errorToNotify[u]
  BY LeaveTypes
<1>2. h # feNone
  BY DEF FE!FatalAssumption
<1>3. t \notin Carrying(h, w)
  BY <1>2 DEF Carrying
<1>4. CASE h = handler /\ w = error
  <2>1. Carrying(h, w)' = Carrying(h, w) \cup {t}
    <3>1. \A u \in FE!Threads : u \in Carrying(h, w)' <=> u \in Carrying(h, w) \cup {t}
      BY <1>1, <1>2, <1>4 DEF Carrying
    <3>2. Carrying(h, w)' \subseteq FE!Threads /\ Carrying(h, w) \subseteq FE!Threads
      BY DEF Carrying
    <3> QED
      BY <3>1, <3>2, Zenon
  <2> QED
    BY <1>3, <1>4, <2>1, CarryingIsCounted, FS_AddElement
<1>5. CASE ~ (h = handler /\ w = error)
  <2>1. t \notin Carrying(h, w)'
    BY <1>1, <1>2, <1>5 DEF Carrying
  <2>2. Carrying(h, w)' = Carrying(h, w)
    BY <1>1, <1>3, <2>1 DEF Carrying
  <2> QED
    BY <1>5, <2>2, CarryingIsCounted
<1> QED
  BY <1>4, <1>5

LEMMA InitOnce == ASSUME FE!FatalAssumption, FE!Init PROVE OnceInv
<1>1. ASSUME NEW h \in feHandlers, NEW w \in feWorkers
      PROVE  Carrying(h, w) = {}
  BY DEF FE!Init, Carrying, FE!FatalAssumption
<1>2. ASSUME NEW h \in feHandlers, NEW w \in feWorkers
      PROVE  feCalls[h][w] + Cardinality(Carrying(h, w)) <= installs[h]
  BY <1>1, FS_EmptySet DEF FE!Init
<1> QED
  BY FELibrary, <1>2 DEF OnceInv, FE!OncePerInstallation, Carrying, FE!Init

LEMMA ReportOnce ==
  ASSUME FE!FatalAssumption, TellInv, OnceInv, NEW w \in feWorkers, FE!ReportFatalError(w) PROVE OnceInv'
<1>1. UNCHANGED <<fatalErrorHandler, installs, feCalls>>
  BY DEF FE!ReportFatalError
<1>2. CASE fatalError # feNone
  BY <1>1, <1>2 DEF FE!ReportFatalError, OnceInv, FE!OncePerInstallation
<1>3. CASE fatalError = feNone
  <2>1. FE!Leave(w, fatalErrorHandler, w) /\ w \in FE!Threads /\ fatalErrorHandler \in feHandlers \cup {feNone}
    BY <1>3 DEF FE!ReportFatalError, FE!Threads, TellInv, FE!TypeOK
  <2>2. \A t \in FE!Threads : notifying[t] = feNone
    BY <1>3 DEF TellInv, FE!TypeOK, CarriesStoredError
  <2>3. ASSUME NEW h \in feHandlers, NEW v \in feWorkers
        PROVE  feCalls'[h][v] + Cardinality(Carrying(h, v)') <= installs'[h]
    <3>1. Cardinality(Carrying(h, v)') =
             Cardinality(Carrying(h, v)) + (IF h = fatalErrorHandler /\ v = w THEN 1 ELSE 0)
      BY <2>1, <2>2, LeaveCarries DEF TellInv
    <3>2. feCalls[h][v] \in Nat /\ installs[h] \in Nat
      BY DEF TellInv, FE!TypeOK
    <3>3. feCalls[h][v] = 0 /\ h # feNone
      BY <1>3, <3>2 DEF TellInv, FE!OnlyFirstTold, FE!FatalAssumption
    <3>4. Carrying(h, v) = {}
      BY <2>2, <3>3 DEF Carrying
    <3>5. Cardinality(Carrying(h, v)) = 0
      BY <3>4, FS_EmptySet
    <3>6. h = fatalErrorHandler => installs[h] > 0
      BY <3>3 DEF OnceInv
    <3> QED
      BY <1>1, <3>1, <3>2, <3>3, <3>5, <3>6
  <2> QED
    BY FELibrary, <1>1, <2>3 DEF OnceInv, FE!OncePerInstallation, Carrying
<1> QED
  BY <1>2, <1>3

LEMMA InstallOnce ==
  ASSUME FE!FatalAssumption, TellInv, OnceInv, NEW c \in feControllers,
         NEW handler \in feHandlers \cup {feNone}, FE!SetFatalErrorHandler(c, handler)
  PROVE  OnceInv'
<1>1. /\ c \in FE!Threads /\ notifying[c] = feNone /\ fatalErrorHandler' = handler /\ UNCHANGED feCalls
      /\ \A h \in feHandlers : installs'[h] = installs[h] + (IF h = handler THEN 1 ELSE 0)
      /\ \A h \in feHandlers : installs[h] \in Nat /\ h # feNone
  BY DEF FE!SetFatalErrorHandler, FE!Threads, TellInv, FE!TypeOK, FE!FatalAssumption
<1>2. ASSUME NEW h \in feHandlers, NEW w \in feWorkers
      PROVE  /\ feCalls[h][w] \in Nat /\ Cardinality(Carrying(h, w)) \in Nat
             /\ feCalls[h][w] + Cardinality(Carrying(h, w)) <= installs[h]
  <2>1. feCalls[h][w] + Cardinality(Carrying(h, w)) <= installs[h]
    BY FELibrary DEF OnceInv, FE!OncePerInstallation, Carrying
  <2>2. feCalls[h][w] \in Nat
    BY DEF TellInv, FE!TypeOK
  <2> QED
    BY <2>1, <2>2, CarryingIsCounted
<1>3. ASSUME NEW h \in feHandlers, NEW w \in feWorkers
      PROVE  feCalls'[h][w] + Cardinality(Carrying(h, w)') <= installs'[h]
  <2>1. CASE fatalError = feNone
    <3>1. Carrying(h, w)' = Carrying(h, w)
      BY <2>1 DEF FE!SetFatalErrorHandler, Carrying
    <3> QED
      BY <1>1, <1>2, <3>1
  <2>2. CASE fatalError # feNone
    <3>1. FE!Leave(c, handler, fatalError) /\ fatalError \in feWorkers
      BY <2>2 DEF FE!SetFatalErrorHandler, TellInv, FE!TypeOK
    <3>2. Cardinality(Carrying(h, w)') =
             Cardinality(Carrying(h, w)) + (IF h = handler /\ w = fatalError THEN 1 ELSE 0)
      BY <1>1, <3>1, LeaveCarries DEF TellInv
    <3> QED
      BY <1>1, <1>2, <3>2
  <2> QED
    BY <2>1, <2>2
<1>4. fatalErrorHandler' # feNone => installs'[fatalErrorHandler'] > 0
  BY <1>1
<1> QED
  BY FELibrary, <1>3, <1>4 DEF OnceInv, FE!OncePerInstallation, Carrying

LEMMA CallOnce ==
  ASSUME FE!FatalAssumption, TellInv, OnceInv, NEW t \in FE!Threads, FE!NotifyFatalErrorHandler(t)
  PROVE  OnceInv'
<1>1. /\ notifying[t] \in feHandlers /\ errorToNotify[t] \in feWorkers
      /\ feCalls' = [feCalls EXCEPT ![notifying[t]][errorToNotify[t]] = @ + 1]
      /\ notifying' = [notifying EXCEPT ![t] = feNone]
      /\ errorToNotify' = [errorToNotify EXCEPT ![t] = feNone]
      /\ UNCHANGED <<fatalErrorHandler, installs>>
  BY DEF FE!NotifyFatalErrorHandler, FE!Leave, TellInv, FE!TypeOK
<1>2. ASSUME NEW h \in feHandlers, NEW w \in feWorkers
      PROVE  feCalls'[h][w] + Cardinality(Carrying(h, w)') <= installs'[h]
  <2>1. /\ feCalls[h][w] \in Nat /\ Cardinality(Carrying(h, w)) \in Nat /\ h # feNone
        /\ feCalls[h][w] + Cardinality(Carrying(h, w)) <= installs[h] /\ installs[h] \in Nat
    <3>1. feCalls[h][w] + Cardinality(Carrying(h, w)) <= installs[h]
      BY FELibrary DEF OnceInv, FE!OncePerInstallation, Carrying
    <3>2. feCalls[h][w] \in Nat /\ installs[h] \in Nat /\ h # feNone
      BY DEF TellInv, FE!TypeOK, FE!FatalAssumption
    <3> QED
      BY <3>1, <3>2, CarryingIsCounted
  <2>2. t \notin Carrying(h, w)'
    BY <1>1, <2>1 DEF Carrying, TellInv, FE!TypeOK
  <2>3. CASE h = notifying[t] /\ w = errorToNotify[t]
    <3>1. feCalls'[h][w] = feCalls[h][w] + 1
      BY <1>1, <2>3 DEF TellInv, FE!TypeOK
    <3>2. t \in Carrying(h, w) /\ Carrying(h, w)' = Carrying(h, w) \ {t}
      BY <1>1, <2>2, <2>3 DEF Carrying, TellInv, FE!TypeOK
    <3>3. Cardinality(Carrying(h, w)') = Cardinality(Carrying(h, w)) - 1
      BY <3>2, CarryingIsCounted, FS_RemoveElement
    <3> QED
      BY <1>1, <2>1, <3>1, <3>3
  <2>4. CASE ~ (h = notifying[t] /\ w = errorToNotify[t])
    <3>1. feCalls'[h][w] = feCalls[h][w]
      BY <1>1, <2>4 DEF TellInv, FE!TypeOK
    <3>2. Carrying(h, w)' = Carrying(h, w)
      BY <1>1, <2>2, <2>4 DEF Carrying, TellInv, FE!TypeOK
    <3> QED
      BY <1>1, <2>1, <3>1, <3>2
  <2> QED
    BY <2>3, <2>4
<1> QED
  BY FELibrary, <1>1, <1>2 DEF OnceInv, FE!OncePerInstallation, Carrying

\* Each call under way or made has an installation of its own: a handler that is there
\* when a worker fails hears from the worker, one that comes later from its own thread.
THEOREM CalledOnce == ASSUME FE!FatalAssumption PROVE FE!Spec => []FE!OncePerInstallation
<1>1. ASSUME TellInv, OnceInv, [FE!Next]_(FE!vars) PROVE OnceInv'
  <2>1. ASSUME NEW w \in feWorkers, FE!ReportFatalError(w) PROVE OnceInv'
    BY <1>1, <2>1, ReportOnce
  <2>2. ASSUME NEW c \in feControllers, NEW h \in feHandlers \cup {feNone}, FE!SetFatalErrorHandler(c, h)
        PROVE  OnceInv'
    BY <1>1, <2>2, InstallOnce
  <2>3. ASSUME NEW t \in FE!Threads, FE!NotifyFatalErrorHandler(t) PROVE OnceInv'
    BY <1>1, <2>3, CallOnce
  <2>4. CASE UNCHANGED FE!vars
    BY <1>1, <2>4 DEF FE!vars, OnceInv, FE!OncePerInstallation
  <2> QED
    BY <1>1, <2>1, <2>2, <2>3, <2>4 DEF FE!Next
<1>2. OnceInv => FE!OncePerInstallation
  BY DEF OnceInv
<1> QED
  BY <1>1, <1>2, InitOnce, InitTells, StepTells, PTL DEF FE!Spec

-------------------------------------------------------------------------------
(* The ticker: when its stop has returned.                                   *)

\* The flag that the thread of the ticker reads follows the calls of Start and Stop, and
\* Stop has joined the thread before it returns.
TickerJoined ==
    /\ tkStopper \in {"off", "running", "join", "clear"}
    /\ tkIsRunning \in BOOLEAN /\ (tkIsRunning <=> tkStopper = "running")
    /\ tkStopper \in {"off", "clear"} => tkPc = "off"

LEMMA TickerStep == TickerJoined /\ [TK!Next]_(TK!vars) => TickerJoined'
<1> SUFFICES ASSUME TickerJoined, [TK!Next]_(TK!vars) PROVE TickerJoined'
  OBVIOUS
<1>1. CASE UNCHANGED TK!vars
  BY <1>1 DEF TickerJoined, TK!vars, TK!tickVars, TK!threadVars
<1>2. CASE TK!Tick \/ TK!RegisterTimerEvent
             \/ \E t \in tkTimers : TK!SetNextTickOfRegistered(t) \/ TK!UnregisterTimerEvent(t)
  BY <1>2 DEF TickerJoined, TK!Tick, TK!RegisterTimerEvent, TK!SetNextTickOfRegistered,
     TK!UnregisterTimerEvent, TK!tickVars, TK!threadVars
<1>3. CASE TK!Start \/ TK!Stop \/ TK!Join \/ TK!Clear
  <2>1. \/ tkStopper = "off" /\ tkIsRunning' = TRUE /\ tkStopper' = "running"
        \/ tkStopper = "running" /\ tkIsRunning' = FALSE /\ tkStopper' = "join"
        \/ tkStopper = "join" /\ tkPc = "off" /\ tkStopper' = "clear"
              /\ UNCHANGED <<tkIsRunning, tkPc>>
        \/ tkStopper = "clear" /\ tkStopper' = "off" /\ UNCHANGED <<tkIsRunning, tkPc>>
    BY <1>3 DEF TK!Start, TK!Stop, TK!Join, TK!Clear, TK!tickVars, TK!threadVars
  <2>2. tkIsRunning' \in BOOLEAN /\ tkStopper' \in {"off", "running", "join", "clear"}
    BY <2>1 DEF TickerJoined
  <2>3. tkIsRunning' <=> tkStopper' = "running"
    BY <2>1 DEF TickerJoined
  <2>4. tkStopper' \in {"off", "clear"} => tkPc' = "off"
    BY <2>1 DEF TickerJoined
  <2> QED
    BY <2>2, <2>3, <2>4 DEF TickerJoined
<1>4. CASE TK!UpdateTick
  <2>1. tkPc # "off" /\ UNCHANGED <<tkIsRunning, tkStopper>>
    BY <1>4 DEF TK!UpdateTick, TK!BeginPass, TK!TakeUnregistered, TK!Erase, TK!Collect, TK!Fire,
       TK!SetNextTick, TK!EndPass, TK!tickVars, TK!threadVars
  <2> QED
    BY <2>1 DEF TickerJoined
<1> QED
  BY <1>1, <1>2, <1>3, <1>4 DEF TK!Next

LEMMA TickerAlways == TK!Init /\ [][TK!Next]_(TK!vars) => []TK!NoHandlerAfterStop
<1>1. TK!Init => TickerJoined
  BY DEF TK!Init, TickerJoined
<1>2. TickerJoined => TK!NoHandlerAfterStop
  BY DEF TickerJoined, TK!NoHandlerAfterStop
<1> QED
  BY <1>1, <1>2, TickerStep, PTL

\* Stop joins the thread of the ticker before it clears what the handlers use: when it has
\* returned no handler runs, and none is going to.
THEOREM NoHandlerLeft == TK!Spec => []TK!NoHandlerAfterStop
BY TickerAlways, PTL DEF TK!Spec

-------------------------------------------------------------------------------
(* The ticker: that timers fire in time, and once more at most.              *)

TimerNumbers ==
    /\ lag \in 0 .. TK!Saturated /\ wait \in [tkTimers -> -TK!Saturated .. TK!Saturated]
    /\ since \in [tkTimers -> Nat] /\ first \in [tkTimers -> BOOLEAN]
    /\ lateFires \in [tkTimers -> Nat]
TimerLists ==
    /\ timerEvents \subseteq tkTimers /\ IsFiniteSet(timerEvents) /\ wanted \subseteq tkTimers
    /\ unregisterTargetList \in Seq(tkTimers) /\ copied \in Seq(tkTimers)
    /\ fireTargets \in Seq(tkTimers) /\ registering \in tkTimers \union {0}
    /\ \A i, j \in 1 .. Len(fireTargets) : i < j => fireTargets[i] < fireTargets[j]
    /\ tkPc \in {"off", "top", "unregister", "erase", "collect", "fire", "setNextTick"}
    /\ tkPc = "setNextTick" => fireTargets # << >>

\* A list of timers that one is appended to, that the first one is taken from.
LEMMA CardinalityOfTimers == \A S : TK!Cardinality(S) = Cardinality(S)
BY DEF TK!Cardinality, Cardinality

LEMMA RestOfTimers ==
    ASSUME NEW q \in Seq(tkTimers), q # << >>, NEW i \in 1 .. Len(q) - 1
    PROVE  Tail(q)[i] = q[i + 1]
OBVIOUS

LEMMA TimersOf ==
    ASSUME NEW q \in Seq(tkTimers)
    PROVE  /\ TK!ToSet(q) \subseteq tkTimers /\ TK!ToSet(<< >>) = {}
           /\ \A t : TK!Contains(q, t) <=> t \in TK!ToSet(q)
           /\ \A t \in tkTimers : TK!ToSet(Append(q, t)) = TK!ToSet(q) \union {t}
           /\ q # << >> => /\ Head(q) \in TK!ToSet(q)
                           /\ TK!ToSet(q) = TK!ToSet(Tail(q)) \union {Head(q)}
                           /\ \A i \in 1 .. Len(q) - 1 : Tail(q)[i] = q[i + 1]
<1>1. TK!ToSet(q) \subseteq tkTimers /\ TK!ToSet(<< >>) = {}
  BY DEF TK!ToSet
<1>2. ASSUME NEW t PROVE TK!Contains(q, t) <=> t \in TK!ToSet(q)
  BY DEF TK!ToSet, TK!Contains
<1>3. ASSUME NEW t \in tkTimers PROVE TK!ToSet(Append(q, t)) = TK!ToSet(q) \union {t}
  <2>1. TK!ToSet(Append(q, t)) \subseteq TK!ToSet(q) \union {t}
    BY DEF TK!ToSet
  <2>2. t \in TK!ToSet(Append(q, t))
    <3>1. Len(q) + 1 \in DOMAIN Append(q, t) /\ Append(q, t)[Len(q) + 1] = t
      OBVIOUS
    <3> QED
      BY <3>1 DEF TK!ToSet
  <2>3. ASSUME NEW i \in 1 .. Len(q) PROVE q[i] \in TK!ToSet(Append(q, t))
    <3>1. i \in DOMAIN Append(q, t) /\ Append(q, t)[i] = q[i]
      OBVIOUS
    <3> QED
      BY <3>1 DEF TK!ToSet
  <2> QED
    BY <2>1, <2>2, <2>3 DEF TK!ToSet
<1>4. ASSUME q # << >>
      PROVE  /\ TK!ToSet(q) = TK!ToSet(Tail(q)) \union {Head(q)}
             /\ \A i \in 1 .. Len(q) - 1 : Tail(q)[i] = q[i + 1]
  <2>1. Len(q) \in Nat /\ Len(q) >= 1 /\ Head(q) = q[1] /\ Tail(q) \in Seq(tkTimers)
        /\ Len(Tail(q)) = Len(q) - 1
    BY <1>4
  <2>2. ASSUME NEW i \in 1 .. Len(q) - 1 PROVE Tail(q)[i] = q[i + 1]
    BY <1>4, <2>1
  <2>3. TK!ToSet(Tail(q)) \subseteq TK!ToSet(q) /\ Head(q) \in TK!ToSet(q)
    BY <2>1, <2>2 DEF TK!ToSet
  <2>4. ASSUME NEW i \in 1 .. Len(q), i # 1 PROVE q[i] \in TK!ToSet(Tail(q))
    <3>1. i - 1 \in 1 .. Len(q) - 1 /\ (i - 1) + 1 = i
      BY <2>1, <2>4
    <3>2. Tail(q)[i - 1] = q[i]
      BY <2>2, <3>1
    <3>3. i - 1 \in DOMAIN Tail(q)
      BY <2>1, <3>1
    <3> QED
      BY <3>2, <3>3 DEF TK!ToSet
  <2> QED
    BY <2>1, <2>2, <2>3, <2>4 DEF TK!ToSet
<1> QED
  BY <1>1, <1>2, <1>3, <1>4

\* A timer that is put in the list of those to unregister is in it once more or already.
LEMMA ListedTimers ==
    ASSUME TimerLists, NEW t \in tkTimers
    PROVE  /\ TK!Listed(t) \in Seq(tkTimers)
           /\ TK!ToSet(TK!Listed(t)) = TK!ToSet(unregisterTargetList) \union {t}
BY TimersOf DEF TimerLists, TK!Listed

\* The first target is no later one.
LEMMA TargetsDiffer ==
    ASSUME TK!TickerAssumption, TimerLists, fireTargets # << >>
    PROVE  /\ Head(fireTargets) \in tkTimers
           /\ Head(fireTargets) \notin TK!ToSet(Tail(fireTargets))
           /\ Tail(fireTargets) \in Seq(tkTimers)
           /\ \A i, j \in 1 .. Len(Tail(fireTargets)) :
                 i < j => Tail(fireTargets)[i] < Tail(fireTargets)[j]
<1>1. /\ fireTargets \in Seq(tkTimers) /\ fireTargets # << >> /\ tkTimers \subseteq Nat
      /\ \A i, j \in 1 .. Len(fireTargets) : i < j => fireTargets[i] < fireTargets[j]
  BY DEF TimerLists, TK!TickerAssumption
<1>2. /\ Len(fireTargets) \in Nat /\ Len(fireTargets) >= 1 /\ Head(fireTargets) = fireTargets[1]
      /\ Tail(fireTargets) \in Seq(tkTimers) /\ Len(Tail(fireTargets)) = Len(fireTargets) - 1
      /\ Head(fireTargets) \in tkTimers
  BY <1>1
<1>3. ASSUME NEW i \in 1 .. Len(fireTargets) - 1
      PROVE  /\ Tail(fireTargets)[i] = fireTargets[i + 1] /\ i + 1 \in 1 .. Len(fireTargets)
             /\ fireTargets[i + 1] \in Nat /\ fireTargets[1] < fireTargets[i + 1]
             /\ fireTargets[1] \in Nat
  <2>1. i + 1 \in 1 .. Len(fireTargets) /\ 1 \in 1 .. Len(fireTargets) /\ 1 < i + 1
    BY <1>2
  <2>2. Tail(fireTargets)[i] = fireTargets[i + 1]
    BY <1>1, RestOfTimers
  <2>3. fireTargets[i + 1] \in Nat /\ fireTargets[1] \in Nat
    <3>1. fireTargets[i + 1] \in tkTimers /\ fireTargets[1] \in tkTimers
      BY <1>1, <2>1
    <3> QED
      BY <1>1, <3>1
  <2> QED
    BY <1>1, <2>1, <2>2, <2>3
<1>4. ASSUME NEW i \in 1 .. Len(Tail(fireTargets)) PROVE Tail(fireTargets)[i] # Head(fireTargets)
  BY <1>2, <1>3
<1>5. ASSUME NEW i \in 1 .. Len(Tail(fireTargets)), NEW j \in 1 .. Len(Tail(fireTargets)), i < j
      PROVE  Tail(fireTargets)[i] < Tail(fireTargets)[j]
  BY <1>1, <1>2, <1>3, <1>5
<1> QED
  BY <1>2, <1>4, <1>5 DEF TK!ToSet

\* Those that are due are collected once each, in order.
LEMMA CollectedTimers ==
    ASSUME TimerLists, TK!Collect
    PROVE  /\ fireTargets' \in Seq(tkTimers)
           /\ TK!ToSet(fireTargets') = {t \in timerEvents : wait[t] <= -lag}
           /\ \A i, j \in 1 .. Len(fireTargets') : i < j => fireTargets'[i] < fireTargets'[j]
           /\ tkPc = "collect" /\ tkPc' = "fire"
<1> DEFINE due == {t \in timerEvents : TK!ShouldFire(t)}
<1>1. PICK targets \in [1 .. TK!Cardinality(due) -> due] :
         /\ \A i, j \in DOMAIN targets : i < j => targets[i] < targets[j]
         /\ TK!ToSet(targets) = due /\ fireTargets' = targets
  BY Zenon DEF TK!Collect
<1>2. due = {t \in timerEvents : wait[t] <= -lag}
  BY DEF TK!ShouldFire
<1> HIDE DEF due
<1>3. due \subseteq tkTimers /\ TK!Cardinality(due) \in Nat
  <2>1. IsFiniteSet(timerEvents) /\ due \subseteq timerEvents /\ due \subseteq tkTimers
    BY <1>2 DEF TimerLists
  <2> QED
    BY <2>1, FS_Subset, FS_CardinalityType, CardinalityOfTimers, Zenon
<1>4. targets \in Seq(tkTimers) /\ DOMAIN targets = 1 .. Len(targets)
  BY <1>1, <1>3
<1>5. \A i, j \in 1 .. Len(fireTargets') : i < j => fireTargets'[i] < fireTargets'[j]
  BY <1>1, <1>4
<1> QED
  BY <1>1, <1>2, <1>4, <1>5 DEF TK!Collect

LEMMA NumbersStep ==
    ASSUME TK!TickerAssumption, TimerNumbers, TimerLists, [TK!Next]_(TK!vars)
    PROVE  TimerNumbers'
<1>1. /\ tkInterval \in Nat /\ tkInterval >= 1 /\ tkMaxLag \in Nat /\ tkMaxLag >= 1
      /\ TK!Saturated = 2 * tkInterval + 2 * tkMaxLag + 1 /\ lag \in 0 .. TK!Saturated
      /\ tkTimers \subseteq Nat
  BY DEF TK!TickerAssumption, TK!Saturated, TimerNumbers
<1>2. CASE UNCHANGED TK!vars
  BY <1>2 DEF TimerNumbers, TK!vars, TK!tickVars, TK!ghosts
<1>3. CASE TK!Tick
  <2>1. lag' \in 0 .. TK!Saturated
    BY <1>1, <1>3 DEF TK!Tick, TK!AtMost
  <2>2. wait' \in [tkTimers -> -TK!Saturated .. TK!Saturated]
    BY <1>1, <1>3 DEF TK!Tick, TK!AtLeast, TimerNumbers
  <2>3. since' \in [tkTimers -> Nat]
    BY <1>1, <1>3 DEF TK!Tick, TK!AtMost, TimerNumbers
  <2> QED
    BY <1>3, <2>1, <2>2, <2>3 DEF TK!Tick, TimerNumbers
<1>4. CASE TK!Start \/ TK!BeginPass
  BY <1>1, <1>4 DEF TK!Start, TK!BeginPass, TimerNumbers, TK!ghosts
<1>5. CASE TK!Stop \/ TK!Join \/ TK!Clear \/ TK!TakeUnregistered \/ TK!Erase \/ TK!Collect
             \/ TK!EndPass \/ \E t \in tkTimers : TK!UnregisterTimerEvent(t)
  <2>1. UNCHANGED <<lag, wait, since, first, lateFires>>
    BY <1>5 DEF TK!Stop, TK!Join, TK!Clear, TK!TakeUnregistered, TK!Erase, TK!Collect, TK!EndPass,
       TK!UnregisterTimerEvent, TK!tickVars, TK!ghosts
  <2> QED
    BY <2>1 DEF TimerNumbers
<1>6. CASE \E t \in tkTimers : TK!SetNextTickOfRegistered(t)
  <2>1. PICK t \in tkTimers : TK!SetNextTickOfRegistered(t)
    BY <1>6
  <2>2. TK!AtLeast(2 * tkInterval - lag, -TK!Saturated) \in -TK!Saturated .. TK!Saturated
    BY <1>1 DEF TK!AtLeast
  <2>3. wait' \in [tkTimers -> -TK!Saturated .. TK!Saturated]
    BY <2>1, <2>2 DEF TK!SetNextTickOfRegistered, TimerNumbers
  <2> QED
    BY <2>1, <2>3 DEF TK!SetNextTickOfRegistered, TimerNumbers, TK!ghosts
<1>7. CASE TK!RegisterTimerEvent
  BY <1>7 DEF TK!RegisterTimerEvent, TimerNumbers, TimerLists, TK!tickVars
<1>8. CASE TK!Fire
  <2>1. UNCHANGED <<lag, wait>>
    BY <1>8 DEF TK!Fire, TK!tickVars
  <2>2. since' \in [tkTimers -> Nat] /\ first' \in [tkTimers -> BOOLEAN]
    BY <1>8 DEF TK!Fire, TimerNumbers
  <2>3. lateFires' \in [tkTimers -> Nat]
    <3>1. \/ lateFires' = lateFires
          \/ lateFires' = [lateFires EXCEPT ![Head(fireTargets)] = @ + 1]
      BY <1>8, Zenon DEF TK!Fire
    <3>2. Head(fireTargets) \in tkTimers
      BY <1>8, TargetsDiffer DEF TK!Fire
    <3> QED
      BY <3>1, <3>2 DEF TimerNumbers
  <2> QED
    BY <2>1, <2>2, <2>3 DEF TimerNumbers
<1>9. CASE TK!SetNextTick
  <2>1. tkInterval - lag \in -TK!Saturated .. TK!Saturated
    BY <1>1
  <2>2. wait' \in [tkTimers -> -TK!Saturated .. TK!Saturated]
    BY <1>9, <2>1 DEF TK!SetNextTick, TimerNumbers
  <2> QED
    BY <1>9, <2>2 DEF TK!SetNextTick, TimerNumbers, TK!ghosts
<1> QED
  BY <1>2, <1>3, <1>4, <1>5, <1>6, <1>7, <1>8, <1>9 DEF TK!Next, TK!UpdateTick

LEMMA ListsStep ==
    ASSUME TK!TickerAssumption, TimerLists, [TK!Next]_(TK!vars)
    PROVE  TimerLists'
<1>1. CASE UNCHANGED TK!vars
  BY <1>1 DEF TimerLists, TK!vars, TK!listVars, TK!threadVars, TK!ghosts
<1>2. CASE TK!Tick \/ TK!Start \/ TK!Stop \/ TK!Join \/ TK!BeginPass \/ TK!EndPass
  <2>1. /\ UNCHANGED <<timerEvents, unregisterTargetList, copied, fireTargets, registering, wanted>>
        /\ tkPc' = tkPc \/ tkPc' \in {"off", "top", "unregister"}
    BY <1>2 DEF TK!Tick, TK!Start, TK!Stop, TK!Join, TK!BeginPass, TK!EndPass, TK!listVars,
       TK!threadVars, TK!ghosts
  <2> QED
    BY <2>1 DEF TimerLists
<1>3. CASE TK!Clear
  <2>1. IsFiniteSet({})
    BY FS_EmptySet, Zenon
  <2> QED
    BY <1>3, <2>1 DEF TimerLists, TK!Clear, TK!threadVars
<1>4. CASE \E t \in tkTimers : TK!SetNextTickOfRegistered(t)
  BY <1>4 DEF TimerLists, TK!SetNextTickOfRegistered, TK!listVars, TK!threadVars, TK!ghosts
<1>5. CASE TK!RegisterTimerEvent
  <2>1. IsFiniteSet(timerEvents \union {registering})
    BY FS_AddElement, Zenon DEF TimerLists
  <2> QED
    BY <1>5, <2>1 DEF TimerLists, TK!RegisterTimerEvent, TK!threadVars
<1>6. CASE \E t \in tkTimers : TK!UnregisterTimerEvent(t)
  <2>1. PICK t \in tkTimers : TK!UnregisterTimerEvent(t)
    BY <1>6
  <2>2. TK!Listed(t) \in Seq(tkTimers)
    BY ListedTimers
  <2>3. /\ unregisterTargetList' = TK!Listed(t) /\ wanted' = wanted \ {t}
    BY <2>1 DEF TK!UnregisterTimerEvent
  <2>5. UNCHANGED <<timerEvents, copied, fireTargets, registering, tkPc>>
    BY <2>1 DEF TK!UnregisterTimerEvent, TK!threadVars
  <2>4. unregisterTargetList' \in Seq(tkTimers) /\ wanted' \subseteq tkTimers
    BY <2>2, <2>3 DEF TimerLists
  <2> QED
    BY <2>4, <2>5 DEF TimerLists
<1>7. CASE TK!TakeUnregistered
  BY <1>7 DEF TimerLists, TK!TakeUnregistered, TK!ghosts
<1>8. CASE TK!Erase
  <2>1. IsFiniteSet(timerEvents \ TK!ToSet(copied))
    <3> DEFINE left == timerEvents \ TK!ToSet(copied)
    <3>1. IsFiniteSet(timerEvents) /\ left \subseteq timerEvents
      BY DEF TimerLists
    <3> HIDE DEF left
    <3>2. IsFiniteSet(left)
      BY <3>1, FS_Subset, Zenon
    <3> QED
      BY <3>2 DEF left
  <2>2. /\ timerEvents' = timerEvents \ TK!ToSet(copied) /\ tkPc' = "collect"
        /\ copied' = << >> /\ UNCHANGED <<unregisterTargetList, fireTargets, registering, wanted>>
    BY <1>8 DEF TK!Erase, TK!ghosts
  <2>3. timerEvents' \subseteq tkTimers
    BY <2>2 DEF TimerLists
  <2> QED
    BY <2>1, <2>2, <2>3 DEF TimerLists
<1>9. CASE TK!Collect
  BY <1>9, CollectedTimers DEF TimerLists, TK!Collect, TK!listVars, TK!ghosts
<1>10. CASE TK!Fire
  <2>1. Head(fireTargets) \in tkTimers
    BY <1>10, TargetsDiffer DEF TK!Fire
  <2> QED
    BY <1>10, <2>1, ListedTimers DEF TimerLists, TK!Fire
<1>11. CASE TK!SetNextTick
  BY <1>11, TargetsDiffer DEF TimerLists, TK!SetNextTick, TK!listVars, TK!ghosts
<1> QED
  BY <1>1, <1>2, <1>3, <1>4, <1>5, <1>6, <1>7, <1>8, <1>9, <1>10, <1>11 DEF TK!Next, TK!UpdateTick

-------------------------------------------------------------------------------
\* A timer that is registered no more is in the list that is erased next.
WillBeErased(t) ==
    t \in timerEvents \ wanted =>
        \/ t \in TK!ToSet(unregisterTargetList)
        \/ tkPc = "erase" /\ t \in TK!ToSet(copied)

\* One that fired since then is erased before it would be collected again.
NotAgain(t) ==
    lateFires[t] >= 1 =>
        /\ lateFires[t] = 1 /\ t \notin wanted
        /\ tkPc = "erase" /\ t \in timerEvents => t \in TK!ToSet(copied)
        /\ tkPc = "collect" => t \notin timerEvents
        /\ tkPc = "fire" => t \notin TK!ToSet(fireTargets)
        /\ tkPc = "setNextTick" => t \notin TK!ToSet(Tail(fireTargets))
FiredOnce == \A t \in tkTimers : WillBeErased(t) /\ NotAgain(t)

LEMMA ErasedStep ==
    ASSUME TK!TickerAssumption, TickerJoined, TimerLists, NEW t \in tkTimers, WillBeErased(t),
           [TK!Next]_(TK!vars)
    PROVE  WillBeErased(t)'
<1>1. CASE UNCHANGED TK!vars
  BY <1>1 DEF WillBeErased, TK!vars, TK!listVars, TK!threadVars, TK!ghosts
<1>2. CASE TK!Tick \/ TK!Stop \/ TK!Join \/ TK!Collect \/ TK!SetNextTick \/ TK!EndPass
             \/ \E u \in tkTimers : TK!SetNextTickOfRegistered(u)
  <2>1. /\ UNCHANGED <<timerEvents, unregisterTargetList, copied, wanted>>
        /\ tkPc' = tkPc \/ tkPc # "erase"
    BY <1>2 DEF TK!Tick, TK!Stop, TK!Join, TK!Collect, TK!SetNextTick, TK!EndPass,
       TK!SetNextTickOfRegistered, TK!listVars, TK!threadVars, TK!ghosts
  <2> QED
    BY <2>1 DEF WillBeErased
<1>3. CASE TK!Start \/ TK!BeginPass
  <2>1. tkPc # "erase" /\ UNCHANGED <<timerEvents, unregisterTargetList, wanted>>
    BY <1>3 DEF TK!Start, TK!BeginPass, TickerJoined, TK!listVars, TK!ghosts
  <2> QED
    BY <2>1 DEF WillBeErased
<1>4. CASE TK!Clear
  BY <1>4 DEF WillBeErased, TK!Clear
<1>5. CASE TK!RegisterTimerEvent
  BY <1>5 DEF WillBeErased, TK!RegisterTimerEvent, TK!threadVars
<1>6. CASE \E u \in tkTimers : TK!UnregisterTimerEvent(u)
  <2>1. PICK u \in tkTimers : TK!UnregisterTimerEvent(u)
    BY <1>6
  <2>2. TK!ToSet(unregisterTargetList') = TK!ToSet(unregisterTargetList) \union {u}
    BY <2>1, ListedTimers DEF TK!UnregisterTimerEvent
  <2> QED
    BY <2>1, <2>2 DEF WillBeErased, TK!UnregisterTimerEvent, TK!threadVars
<1>7. CASE TK!TakeUnregistered
  BY <1>7 DEF WillBeErased, TK!TakeUnregistered, TK!ghosts
<1>8. CASE TK!Erase
  BY <1>8 DEF WillBeErased, TK!Erase, TK!ghosts
<1>9. CASE TK!Fire
  <2> DEFINE h == Head(fireTargets)
  <2>1. h \in tkTimers
    BY <1>9, TargetsDiffer DEF TK!Fire
  <2>2. \/ /\ TK!ToSet(unregisterTargetList') = TK!ToSet(unregisterTargetList) \union {h}
           /\ wanted' = wanted \ {h}
        \/ UNCHANGED <<unregisterTargetList, wanted>>
    BY <1>9, <2>1, ListedTimers DEF TK!Fire
  <2>3. tkPc # "erase" /\ UNCHANGED timerEvents
    BY <1>9 DEF TK!Fire
  <2> HIDE DEF h
  <2> QED
    BY <2>2, <2>3 DEF WillBeErased
<1> QED
  BY <1>1, <1>2, <1>3, <1>4, <1>5, <1>6, <1>7, <1>8, <1>9 DEF TK!Next, TK!UpdateTick

LEMMA NotAgainStep ==
    ASSUME TK!TickerAssumption, TickerJoined, TimerNumbers, TimerLists, NEW t \in tkTimers,
           WillBeErased(t), NotAgain(t), [TK!Next]_(TK!vars)
    PROVE  NotAgain(t)'
<1>1. CASE UNCHANGED TK!vars
  BY <1>1 DEF NotAgain, TK!vars, TK!listVars, TK!threadVars, TK!ghosts
<1>2. CASE TK!Tick \/ TK!Stop \/ TK!Join \/ \E u \in tkTimers : TK!SetNextTickOfRegistered(u)
  <2>1. UNCHANGED <<timerEvents, copied, fireTargets, tkPc, wanted, lateFires>>
    BY <1>2 DEF TK!Tick, TK!Stop, TK!Join, TK!SetNextTickOfRegistered, TK!listVars,
       TK!threadVars, TK!ghosts
  <2> QED
    BY <2>1 DEF NotAgain
<1>3. CASE TK!Start \/ TK!BeginPass \/ TK!EndPass
  <2>1. tkPc' \in {"off", "top", "unregister"} /\ UNCHANGED <<wanted, lateFires>>
    BY <1>3 DEF TK!Start, TK!BeginPass, TK!EndPass, TK!ghosts
  <2> QED
    BY <2>1 DEF NotAgain
<1>4. CASE TK!Clear
  <2>1. tkPc' = "off" /\ wanted' = {} /\ UNCHANGED lateFires
    BY <1>4 DEF TickerJoined, TK!Clear, TK!threadVars
  <2> QED
    BY <2>1 DEF NotAgain
<1>5. CASE TK!RegisterTimerEvent
  <2>1. lateFires' = [lateFires EXCEPT ![registering] = 0] /\ registering \in tkTimers
        /\ timerEvents' = timerEvents \union {registering}
        /\ wanted' = wanted \union {registering}
        /\ UNCHANGED <<copied, fireTargets, tkPc>>
    BY <1>5 DEF TK!RegisterTimerEvent, TK!threadVars, TimerLists
  <2>2. CASE t = registering
    <3>1. lateFires'[t] = 0
      BY <2>1, <2>2 DEF TimerNumbers
    <3> QED
      BY <3>1 DEF NotAgain
  <2>3. CASE t # registering
    <3>1. lateFires'[t] = lateFires[t]
      BY <2>1, <2>3 DEF TimerNumbers
    <3> QED
      BY <2>1, <2>3, <3>1 DEF NotAgain
  <2> QED
    BY <2>2, <2>3
<1>6. CASE \E u \in tkTimers : TK!UnregisterTimerEvent(u)
  <2>1. wanted' \subseteq wanted /\ UNCHANGED <<timerEvents, copied, fireTargets, tkPc, lateFires>>
    BY <1>6 DEF TK!UnregisterTimerEvent, TK!threadVars
  <2> QED
    BY <2>1 DEF NotAgain
<1>7. CASE TK!TakeUnregistered
  <2>1. tkPc = "unregister" /\ tkPc' = "erase" /\ copied' = unregisterTargetList
        /\ UNCHANGED <<timerEvents, wanted, lateFires>>
    BY <1>7 DEF TK!TakeUnregistered, TK!ghosts
  <2> QED
    BY <2>1 DEF NotAgain, WillBeErased
<1>8. CASE TK!Erase
  <2>1. tkPc = "erase" /\ tkPc' = "collect" /\ timerEvents' = timerEvents \ TK!ToSet(copied)
        /\ UNCHANGED <<wanted, lateFires>>
    BY <1>8 DEF TK!Erase, TK!ghosts
  <2> QED
    BY <2>1 DEF NotAgain
<1>9. CASE TK!Collect
  <2>1. tkPc = "collect" /\ tkPc' = "fire" /\ TK!ToSet(fireTargets') \subseteq timerEvents
    BY <1>9, CollectedTimers
  <2>2. UNCHANGED <<wanted, lateFires>>
    BY <1>9 DEF TK!Collect, TK!ghosts
  <2> QED
    BY <2>1, <2>2 DEF NotAgain
<1>10. CASE TK!Fire
  <2> DEFINE h == Head(fireTargets)
  <2>1. /\ tkPc = "fire" /\ tkPc' = "setNextTick" /\ fireTargets' = fireTargets
        /\ h \in tkTimers /\ h \in TK!ToSet(fireTargets) /\ h \notin TK!ToSet(Tail(fireTargets))
        /\ TK!ToSet(Tail(fireTargets)) \subseteq TK!ToSet(fireTargets)
    BY <1>10, TargetsDiffer, TimersOf DEF TK!Fire, TimerLists
  <2>2. wanted' = (IF h \in tkOneShot THEN wanted \ {h} ELSE wanted)
    BY <1>10 DEF TK!Fire
  <2>3. lateFires' = IF h \in wanted \ tkOneShot THEN lateFires
                     ELSE [lateFires EXCEPT ![h] = @ + 1]
    BY <1>10 DEF TK!Fire
  <2> HIDE DEF h
  <2>4. CASE t = h
    <3>1. lateFires[t] = 0
      BY <2>1, <2>4 DEF NotAgain, TimerNumbers
    <3>2. lateFires'[t] = IF t \in wanted \ tkOneShot THEN 0 ELSE 1
      BY <2>3, <2>4, <3>1 DEF TimerNumbers
    <3>3. lateFires'[t] >= 1 => lateFires'[t] = 1 /\ t \notin wanted'
      BY <2>2, <2>4, <3>2
    <3> QED
      BY <2>1, <2>4, <3>3 DEF NotAgain
  <2>5. CASE t # h
    <3>1. lateFires'[t] = lateFires[t]
      BY <2>3, <2>5 DEF TimerNumbers
    <3>2. wanted' \subseteq wanted
      BY <2>2
    <3> QED
      BY <2>1, <3>1, <3>2 DEF NotAgain
  <2> QED
    BY <2>4, <2>5
<1>11. CASE TK!SetNextTick
  <2>1. tkPc = "setNextTick" /\ tkPc' = "fire" /\ fireTargets' = Tail(fireTargets)
        /\ UNCHANGED <<timerEvents, wanted, lateFires>>
    BY <1>11 DEF TK!SetNextTick, TK!listVars, TK!ghosts
  <2> QED
    BY <2>1 DEF NotAgain
<1> QED
  BY <1>1, <1>2, <1>3, <1>4, <1>5, <1>6, <1>7, <1>8, <1>9, <1>10, <1>11 DEF TK!Next, TK!UpdateTick

LEMMA TimersBegin == TK!TickerAssumption /\ TK!Init => TimerNumbers /\ TimerLists /\ FiredOnce
<1> SUFFICES ASSUME TK!TickerAssumption, TK!Init PROVE TimerNumbers /\ TimerLists /\ FiredOnce
  OBVIOUS
<1>1. TimerNumbers
  BY DEF TK!TickerAssumption, TK!Init, TimerNumbers, TK!Saturated
<1>2. TimerLists
  <2>1. IsFiniteSet({})
    BY FS_EmptySet, Zenon
  <2> QED
    BY <2>1 DEF TK!Init, TimerLists
<1>3. FiredOnce
  BY DEF TK!Init, FiredOnce, WillBeErased, NotAgain
<1> QED
  BY <1>1, <1>2, <1>3

LEMMA OnceAlways ==
    ASSUME TK!TickerAssumption
    PROVE  TK!Init /\ [][TK!Next]_(TK!vars) => []TK!OnceMoreAtMost
<1> DEFINE Inv == TickerJoined /\ TimerNumbers /\ TimerLists /\ FiredOnce
<1>1. TK!Init => Inv
  BY TimersBegin DEF TK!Init, TickerJoined
<1>2. Inv /\ [TK!Next]_(TK!vars) => Inv'
  BY TickerStep, NumbersStep, ListsStep, ErasedStep, NotAgainStep DEF FiredOnce
<1>3. Inv => TK!OnceMoreAtMost
  <2> SUFFICES ASSUME Inv, NEW t \in tkTimers PROVE lateFires[t] <= 1
    BY DEF TK!OnceMoreAtMost
  <2> QED
    BY DEF FiredOnce, NotAgain, TimerNumbers
<1> QED
  BY <1>1, <1>2, <1>3, PTL

\* Unregistering a timer takes effect at the next pass, whatever the ticker is doing with the
\* timer when it is asked: it fires once more at most.
THEOREM FiresOnceMore == ASSUME TK!TickerAssumption PROVE TK!Spec => []TK!OnceMoreAtMost
BY OnceAlways, PTL DEF TK!Spec

-------------------------------------------------------------------------------
\* With the switches off a timer is registered only while the ticker runs, and not again
\* before its id is erased.
RegisteredOnce == TK!TickerAssumption /\ ~ tkReregister /\ ~ tkEarlyRegister

\* A wanted timer is in the map and in no list of those to erase, and one that is being
\* registered is in neither; those that are about to be fired are in the map and due.
TimersWanted ==
    /\ wanted \subseteq timerEvents
    /\ \A t \in wanted : t \notin TK!ToSet(unregisterTargetList) /\ t \notin TK!ToSet(copied)
    /\ registering # 0 =>
        /\ registering \notin timerEvents /\ registering \notin TK!ToSet(unregisterTargetList)
        /\ registering \notin TK!ToSet(copied)
        /\ tkStopper = "running" /\ wait[registering] <= 2 * tkInterval
    /\ tkStopper = "off" => wanted = {}
    /\ tkPc \in {"fire", "setNextTick"} =>
          \A t \in TK!ToSet(fireTargets) : t \in timerEvents /\ wait[t] <= 0
PassInTime ==
    /\ tkPc # "off" => lag <= tkMaxLag
    /\ tkStopper = "running" => tkPc # "off"

\* The time since a timer fired and the time until its next tick add up to its interval; it
\* fired at most a pass after its tick, and one that a pass has looked at fired in that pass
\* or is not due.
DueInTime(t) ==
    /\ since[t] + wait[t] <= (IF first[t] THEN 2 * tkInterval ELSE tkInterval)
    /\ wait[t] + lag + tkMaxLag >= 1 \/ since[t] <= lag + tkMaxLag
SeenByPass(t) ==
    tkPc = "top" \/ (tkPc \in {"fire", "setNextTick"} /\ t \notin TK!ToSet(fireTargets)) =>
        wait[t] + lag >= 1 \/ since[t] <= lag
JustFired(t) == tkPc = "setNextTick" /\ t = Head(fireTargets) => since[t] <= lag
TimersInTime ==
    tkStopper = "running" => \A t \in wanted : DueInTime(t) /\ SeenByPass(t) /\ JustFired(t)

LEMMA TimerFacts ==
    ASSUME TK!TickerAssumption, TimerNumbers
    PROVE  /\ tkInterval \in Nat /\ tkInterval >= 1 /\ tkMaxLag \in Nat /\ tkMaxLag >= 1
           /\ TK!Saturated = 2 * tkInterval + 2 * tkMaxLag + 1
           /\ lag \in Nat /\ lag <= TK!Saturated /\ 0 \notin tkTimers
           /\ \A t \in tkTimers : /\ wait[t] \in Int /\ wait[t] >= -TK!Saturated
                                  /\ since[t] \in Nat /\ first[t] \in BOOLEAN
BY DEF TK!TickerAssumption, TimerNumbers, TK!Saturated

LEMMA TimersWantedStep ==
    ASSUME RegisteredOnce, TickerJoined, TimerNumbers, TimerLists, TimersWanted,
           [TK!Next]_(TK!vars)
    PROVE  TimersWanted'
<1> USE DEF RegisteredOnce
<1>1. CASE UNCHANGED TK!vars
  BY <1>1 DEF TimersWanted, TK!vars, TK!tickVars, TK!listVars, TK!threadVars, TK!ghosts
<1>2. CASE TK!Tick
  <2>1. /\ UNCHANGED <<timerEvents, unregisterTargetList, copied, fireTargets, tkPc, tkStopper,
                       registering, wanted>>
        /\ registering = 0
    BY <1>2 DEF TK!Tick, TK!listVars, TK!threadVars
  <2>2. ASSUME NEW t \in tkTimers, wait[t] <= 0 PROVE wait'[t] <= 0
    BY <1>2, <2>2, TimerFacts DEF TK!Tick, TK!AtLeast
  <2>3. ASSUME tkPc \in {"fire", "setNextTick"}, NEW t \in TK!ToSet(fireTargets)
        PROVE  t \in timerEvents /\ wait'[t] <= 0
    BY <2>2, <2>3 DEF TimersWanted, TimerLists
  <2> QED
    BY <2>1, <2>3 DEF TimersWanted
<1>3. CASE TK!Start \/ TK!Stop \/ TK!Join
  <2>1. /\ UNCHANGED <<wait, timerEvents, unregisterTargetList, copied, fireTargets, registering,
                       wanted>>
        /\ registering = 0 /\ tkStopper' # "off"
        /\ tkPc' = tkPc \/ tkPc' = "top"
    BY <1>3 DEF TK!Start, TK!Stop, TK!Join, TK!tickVars, TK!listVars, TK!threadVars, TK!ghosts,
       TimersWanted
  <2> QED
    BY <2>1 DEF TimersWanted
<1>4. CASE TK!Clear
  <2>1. /\ timerEvents' = {} /\ wanted' = {} /\ unregisterTargetList' = << >>
        /\ registering' = 0 /\ tkPc' = "off"
    BY <1>4 DEF TK!Clear, TickerJoined, TimersWanted, TK!threadVars
  <2> QED
    BY <2>1 DEF TimersWanted
<1>5. CASE \E t \in tkTimers : TK!SetNextTickOfRegistered(t)
  <2>1. PICK t \in tkTimers : TK!SetNextTickOfRegistered(t)
    BY <1>5
  <2>2. /\ UNCHANGED <<timerEvents, unregisterTargetList, copied, fireTargets, tkPc, tkStopper,
                       wanted>>
        /\ tkStopper = "running" /\ registering' = t /\ t \notin timerEvents
        /\ ~ TK!Contains(unregisterTargetList \o copied, t)
        /\ wait' = [wait EXCEPT ![t] = TK!AtLeast(2 * tkInterval - lag, -TK!Saturated)]
    BY <2>1 DEF TK!SetNextTickOfRegistered, TK!listVars, TK!threadVars, TK!ghosts
  <2>3. t \notin TK!ToSet(unregisterTargetList) /\ t \notin TK!ToSet(copied)
    <3>1. unregisterTargetList \in Seq(tkTimers) /\ copied \in Seq(tkTimers)
      BY DEF TimerLists
    <3>2. ASSUME NEW i \in 1 .. Len(unregisterTargetList) PROVE unregisterTargetList[i] # t
      BY <2>2, <3>1, i \in 1 .. Len(unregisterTargetList \o copied),
         (unregisterTargetList \o copied)[i] = unregisterTargetList[i] DEF TK!Contains
    <3>3. ASSUME NEW i \in 1 .. Len(copied) PROVE copied[i] # t
      <4>1. /\ Len(unregisterTargetList) + i \in 1 .. Len(unregisterTargetList \o copied)
            /\ (unregisterTargetList \o copied)[Len(unregisterTargetList) + i] = copied[i]
        BY <3>1
      <4> QED
        BY <2>2, <4>1 DEF TK!Contains
    <3> QED
      BY <3>1, <3>2, <3>3 DEF TK!ToSet
  <2>4. wait'[t] <= 2 * tkInterval
    BY <2>2, TimerFacts DEF TK!AtLeast, TimerNumbers
  <2>5. \A u \in timerEvents : wait'[u] = wait[u]
    BY <2>2 DEF TimerNumbers, TimerLists
  <2>6. tkPc \in {"fire", "setNextTick"} =>
           \A u \in TK!ToSet(fireTargets) : u \in timerEvents /\ wait'[u] <= 0
    BY <2>5 DEF TimersWanted
  <2> QED
    BY <2>2, <2>3, <2>4, <2>6 DEF TimersWanted
<1>6. CASE TK!RegisterTimerEvent
  BY <1>6 DEF TimersWanted, TK!RegisterTimerEvent, TK!tickVars, TK!threadVars
<1>7. CASE \E t \in tkTimers : TK!UnregisterTimerEvent(t)
  <2>1. PICK t \in tkTimers : TK!UnregisterTimerEvent(t)
    BY <1>7
  <2>2. TK!ToSet(unregisterTargetList') = TK!ToSet(unregisterTargetList) \union {t}
    BY <2>1, ListedTimers DEF TK!UnregisterTimerEvent
  <2> QED
    BY <2>1, <2>2 DEF TimersWanted, TK!UnregisterTimerEvent, TK!tickVars, TK!threadVars
<1>8. CASE TK!BeginPass \/ TK!EndPass
  <2>1. /\ UNCHANGED <<wait, timerEvents, unregisterTargetList, copied, registering, wanted,
                       tkStopper>>
        /\ tkPc' \in {"off", "top", "unregister"}
    BY <1>8 DEF TK!BeginPass, TK!EndPass, TK!tickVars, TK!listVars, TK!ghosts
  <2> QED
    BY <2>1 DEF TimersWanted
<1>9. CASE TK!TakeUnregistered
  <2>1. TK!ToSet(<< >>) = {}
    BY DEF TK!ToSet
  <2> QED
    BY <1>9, <2>1 DEF TimersWanted, TK!TakeUnregistered, TK!tickVars, TK!ghosts
<1>10. CASE TK!Erase
  <2>1. TK!ToSet(<< >>) = {}
    BY DEF TK!ToSet
  <2> QED
    BY <1>10, <2>1 DEF TimersWanted, TK!Erase, TK!tickVars, TK!ghosts
<1>11. CASE TK!Collect
  <2>1. ASSUME NEW t \in TK!ToSet(fireTargets') PROVE t \in timerEvents /\ wait[t] <= 0
    <3>1. t \in timerEvents /\ wait[t] <= -lag
      BY <1>11, CollectedTimers
    <3> QED
      BY <3>1, TimerFacts DEF TimerLists
  <2> QED
    BY <1>11, <2>1 DEF TimersWanted, TK!Collect, TK!tickVars, TK!listVars, TK!ghosts
<1>12. CASE TK!Fire
  <2> DEFINE h == Head(fireTargets)
  <2>1. h \in tkTimers /\ h \in timerEvents
    BY <1>12, TargetsDiffer, TimersOf DEF TK!Fire, TimerLists, TimersWanted
  <2>2. \/ /\ TK!ToSet(unregisterTargetList') = TK!ToSet(unregisterTargetList) \union {h}
           /\ wanted' = wanted \ {h}
        \/ UNCHANGED <<unregisterTargetList, wanted>>
    BY <1>12, <2>1, ListedTimers DEF TK!Fire
  <2>3. /\ UNCHANGED <<wait, timerEvents, copied, fireTargets, registering, tkStopper>>
        /\ tkPc = "fire"
    BY <1>12 DEF TK!Fire, TK!tickVars
  <2> HIDE DEF h
  <2> QED
    BY <2>1, <2>2, <2>3 DEF TimersWanted
<1>13. CASE TK!SetNextTick
  <2> DEFINE h == Head(fireTargets)
  <2>1. /\ h \in tkTimers /\ h \in timerEvents /\ h \notin TK!ToSet(Tail(fireTargets))
        /\ TK!ToSet(Tail(fireTargets)) \subseteq TK!ToSet(fireTargets)
    BY <1>13, TargetsDiffer, TimersOf DEF TK!SetNextTick, TimerLists, TimersWanted
  <2>2. /\ wait' = [wait EXCEPT ![h] = tkInterval - lag] /\ fireTargets' = Tail(fireTargets)
        /\ UNCHANGED <<timerEvents, unregisterTargetList, copied, registering, wanted, tkStopper>>
        /\ tkPc = "setNextTick"
    BY <1>13 DEF TK!SetNextTick, TK!listVars, TK!ghosts
  <2> HIDE DEF h
  <2>3. \A u : u # h => wait'[u] = wait[u]
    BY <2>2 DEF TimerNumbers
  <2> QED
    BY <2>1, <2>2, <2>3 DEF TimersWanted
<1> QED
  BY <1>1, <1>2, <1>3, <1>4, <1>5, <1>6, <1>7, <1>8, <1>9, <1>10, <1>11, <1>12, <1>13
     DEF TK!Next, TK!UpdateTick

LEMMA PassStep ==
    ASSUME RegisteredOnce, TickerJoined, TimerNumbers, PassInTime, [TK!Next]_(TK!vars)
    PROVE  PassInTime'
<1> USE TimerFacts DEF RegisteredOnce
<1>1. CASE UNCHANGED TK!vars
  BY <1>1 DEF PassInTime, TK!vars, TK!tickVars, TK!threadVars
<1>2. CASE TK!Tick
  BY <1>2 DEF PassInTime, TK!Tick, TK!AtMost, TK!threadVars
<1>3. CASE TK!Start \/ TK!BeginPass
  <2>1. \/ lag' = 0 /\ tkPc' # "off"
        \/ tkPc' = "off" /\ tkStopper' # "running"
    BY <1>3 DEF TK!Start, TK!BeginPass, TickerJoined
  <2> QED
    BY <2>1 DEF PassInTime
<1>4. CASE \/ TK!Stop \/ TK!Join \/ TK!Clear \/ TK!RegisterTimerEvent
           \/ \E t \in tkTimers : TK!SetNextTickOfRegistered(t) \/ TK!UnregisterTimerEvent(t)
           \/ TK!TakeUnregistered \/ TK!Erase \/ TK!Collect \/ TK!Fire \/ TK!SetNextTick
           \/ TK!EndPass
  <2>1. /\ lag' = lag /\ (tkStopper' = "running" => tkStopper = "running")
        /\ (tkPc' = tkPc \/ (tkPc # "off" /\ tkPc' # "off"))
    BY <1>4 DEF TK!Stop, TK!Join, TK!Clear, TK!RegisterTimerEvent, TK!SetNextTickOfRegistered,
       TK!UnregisterTimerEvent, TK!TakeUnregistered, TK!Erase, TK!Collect, TK!Fire,
       TK!SetNextTick, TK!EndPass, TK!tickVars, TK!threadVars
  <2> QED
    BY <1>4, <2>1 DEF PassInTime
<1> QED
  BY <1>1, <1>2, <1>3, <1>4 DEF TK!Next, TK!UpdateTick

\* A step that leaves the clock and a timer alone.
LEMMA SameTimer ==
    ASSUME NEW t \in tkTimers, TimerNumbers, DueInTime(t),
           UNCHANGED lag, wait'[t] = wait[t], since'[t] = since[t], first'[t] = first[t]
    PROVE  DueInTime(t)'
BY DEF DueInTime

LEMMA InTimeStep ==
    ASSUME RegisteredOnce, TickerJoined, TimerNumbers, TimerLists, TimersWanted, PassInTime,
           TimersInTime, [TK!Next]_(TK!vars), tkStopper' = "running", NEW t \in wanted'
    PROVE  DueInTime(t)' /\ SeenByPass(t)' /\ JustFired(t)'
<1> USE DEF RegisteredOnce
<1>1. CASE UNCHANGED TK!vars
  BY <1>1 DEF TimersInTime, DueInTime, SeenByPass, JustFired, TK!vars, TK!tickVars,
     TK!threadVars, TK!ghosts
<1>2. CASE TK!Tick
  <2>1. /\ t \in wanted /\ t \in tkTimers /\ tkStopper = "running" /\ lag' = lag + 1
        /\ lag + 1 <= tkMaxLag /\ tkPc' = tkPc /\ fireTargets' = fireTargets
    BY <1>2, TimerFacts DEF TK!Tick, TK!AtMost, TK!threadVars, TimerLists, PassInTime
  <2>2. DueInTime(t) /\ SeenByPass(t) /\ JustFired(t)
    BY <2>1 DEF TimersInTime
  <2>3. /\ since'[t] \in Nat /\ since'[t] <= since[t] + 1 /\ first'[t] = first[t]
        /\ wait'[t] \in Int /\ wait'[t] >= wait[t] - 1
        /\ wait'[t] = wait[t] - 1 \/ (wait'[t] = -TK!Saturated /\ wait[t] <= -TK!Saturated)
    BY <1>2, <2>1, TimerFacts DEF TK!Tick, TK!AtMost, TK!AtLeast
  <2>4. since'[t] + wait'[t] <= (IF first'[t] THEN 2 * tkInterval ELSE tkInterval)
    <3>1. CASE wait'[t] = wait[t] - 1
      BY <2>1, <2>2, <2>3, <3>1, TimerFacts DEF DueInTime
    <3>2. CASE wait'[t] = -TK!Saturated /\ wait[t] <= -TK!Saturated
      <4>1. since[t] <= lag + tkMaxLag
        BY <2>1, <2>2, <3>2, TimerFacts DEF DueInTime
      <4> QED
        BY <2>1, <2>3, <3>2, <4>1, TimerFacts
    <3> QED
      BY <2>3, <3>1, <3>2
  <2>5. wait'[t] + lag' + tkMaxLag >= 1 \/ since'[t] <= lag' + tkMaxLag
    BY <2>1, <2>2, <2>3, TimerFacts DEF DueInTime
  <2>6. wait[t] + lag >= 1 \/ since[t] <= lag => wait'[t] + lag' >= 1 \/ since'[t] <= lag'
    BY <2>1, <2>3, TimerFacts
  <2>7. since[t] <= lag => since'[t] <= lag'
    BY <2>1, <2>3, TimerFacts
  <2>8. SeenByPass(t)'
    BY <2>1, <2>2, <2>6 DEF SeenByPass
  <2>9. JustFired(t)'
    BY <2>1, <2>2, <2>7 DEF JustFired
  <2> QED
    BY <2>4, <2>5, <2>8, <2>9 DEF DueInTime
<1>3. CASE TK!Start
  BY <1>3 DEF TK!Start, TimersWanted
<1>4. CASE TK!Stop \/ TK!Join \/ TK!Clear
  BY <1>4 DEF TK!Stop, TK!Join, TK!Clear
<1>5. CASE \E u \in tkTimers : TK!SetNextTickOfRegistered(u)
  <2>1. PICK u \in tkTimers : TK!SetNextTickOfRegistered(u)
    BY <1>5
  <2>2. /\ UNCHANGED <<lag, since, first, fireTargets, tkPc, tkStopper, wanted>>
        /\ u \notin timerEvents
        /\ wait' = [wait EXCEPT ![u] = TK!AtLeast(2 * tkInterval - lag, -TK!Saturated)]
    BY <2>1 DEF TK!SetNextTickOfRegistered, TK!listVars, TK!threadVars, TK!ghosts
  <2>3. t \in wanted /\ t \in tkTimers /\ t # u
    BY <2>2 DEF TimersWanted, TimerLists
  <2>4. wait'[t] = wait[t]
    BY <2>2, <2>3 DEF TimerNumbers
  <2>5. DueInTime(t) /\ SeenByPass(t) /\ JustFired(t)
    BY <2>2, <2>3 DEF TimersInTime
  <2> QED
    BY <2>2, <2>3, <2>4, <2>5, SameTimer DEF SeenByPass, JustFired
<1>6. CASE TK!RegisterTimerEvent
  <2>1. /\ UNCHANGED <<lag, wait, fireTargets, tkPc, tkStopper>>
        /\ registering \in tkTimers /\ wanted' = wanted \union {registering}
        /\ since' = [since EXCEPT ![registering] = 0]
        /\ first' = [first EXCEPT ![registering] = TRUE]
    BY <1>6 DEF TK!RegisterTimerEvent, TK!tickVars, TK!threadVars, TimerLists
  <2>2. CASE t = registering
    <3>1. since'[t] = 0 /\ first'[t] = TRUE /\ wait[t] <= 2 * tkInterval
      BY <1>6, <2>1, <2>2 DEF TimerNumbers, TimersWanted, TK!RegisterTimerEvent
    <3>2. wait[t] \in Int /\ lag \in Nat /\ tkMaxLag \in Nat /\ tkInterval \in Nat
      BY <2>1, <2>2, TimerFacts
    <3>3. DueInTime(t)'
      BY <2>1, <3>1, <3>2 DEF DueInTime
    <3> QED
      BY <2>1, <3>1, <3>2, <3>3 DEF SeenByPass, JustFired
  <2>3. CASE t # registering
    <3>1. /\ t \in wanted /\ t \in tkTimers /\ since'[t] = since[t] /\ first'[t] = first[t]
      BY <2>1, <2>3 DEF TimerNumbers, TimerLists
    <3>2. DueInTime(t) /\ SeenByPass(t) /\ JustFired(t)
      BY <2>1, <3>1 DEF TimersInTime
    <3> QED
      BY <2>1, <3>1, <3>2, SameTimer DEF SeenByPass, JustFired
  <2> QED
    BY <2>2, <2>3
<1>7. CASE \E u \in tkTimers : TK!UnregisterTimerEvent(u)
  <2>1. wanted' \subseteq wanted
        /\ UNCHANGED <<lag, wait, since, first, fireTargets, tkPc, tkStopper>>
    BY <1>7 DEF TK!UnregisterTimerEvent, TK!tickVars, TK!threadVars
  <2> QED
    BY <2>1 DEF TimersInTime, DueInTime, SeenByPass, JustFired
<1>8. CASE TK!BeginPass
  <2>1. /\ tkPc = "top" /\ tkPc' = "unregister" /\ lag' = 0 /\ lag <= tkMaxLag
        /\ tkStopper = "running" /\ UNCHANGED <<wait, since, first, wanted>>
    BY <1>8 DEF TK!BeginPass, TickerJoined, PassInTime, TK!ghosts
  <2>2. t \in tkTimers /\ DueInTime(t) /\ (wait[t] + lag >= 1 \/ since[t] <= lag)
    BY <2>1 DEF TimersInTime, SeenByPass, TimerLists
  <2>3. wait[t] + 0 + tkMaxLag >= 1 \/ since[t] <= 0 + tkMaxLag
    BY <2>1, <2>2, TimerFacts
  <2>4. DueInTime(t)'
    BY <2>1, <2>2, <2>3 DEF DueInTime
  <2> QED
    BY <2>1, <2>4 DEF SeenByPass, JustFired
<1>9. CASE TK!TakeUnregistered \/ TK!Erase
  <2>1. /\ tkPc' \in {"erase", "collect"}
        /\ UNCHANGED <<lag, wait, since, first, tkStopper, wanted>>
    BY <1>9 DEF TK!TakeUnregistered, TK!Erase, TK!tickVars, TK!ghosts
  <2> QED
    BY <2>1 DEF TimersInTime, DueInTime, SeenByPass, JustFired
<1>10. CASE TK!Collect
  <2>1. /\ UNCHANGED <<lag, wait, since, first, tkStopper, wanted>> /\ tkPc' = "fire"
    BY <1>10 DEF TK!Collect, TK!tickVars, TK!ghosts
  <2>2. t \in tkTimers /\ t \in timerEvents /\ DueInTime(t)
    BY <2>1 DEF TimersInTime, TimersWanted, TimerLists
  <2>3. t \notin TK!ToSet(fireTargets') => wait[t] + lag >= 1
    BY <1>10, <2>2, CollectedTimers, TimerFacts
  <2>4. DueInTime(t)'
    BY <2>1, <2>2 DEF DueInTime
  <2> QED
    BY <2>1, <2>3, <2>4 DEF SeenByPass, JustFired
<1>11. CASE TK!Fire
  <2> DEFINE h == Head(fireTargets)
  <2>1. /\ h \in tkTimers /\ h \in TK!ToSet(fireTargets) /\ wait[h] <= 0
    BY <1>11, TargetsDiffer, TimersOf DEF TK!Fire, TimerLists, TimersWanted
  <2>2. /\ UNCHANGED <<lag, wait, fireTargets, tkStopper>> /\ wanted' \subseteq wanted
        /\ since' = [since EXCEPT ![h] = 0] /\ first' = [first EXCEPT ![h] = FALSE]
        /\ tkPc = "fire" /\ tkPc' = "setNextTick"
    BY <1>11 DEF TK!Fire, TK!tickVars
  <2>3. t \in wanted /\ t \in tkTimers
    BY <2>2 DEF TimerLists
  <2>4. DueInTime(t) /\ SeenByPass(t)
    BY <2>2, <2>3 DEF TimersInTime
  <2>5. CASE t = h
    <3>1. since'[t] = 0 /\ first'[t] = FALSE
      BY <2>1, <2>2, <2>5 DEF TimerNumbers
    <3>2. wait[t] \in Int /\ wait[t] <= 0 /\ lag \in Nat /\ tkMaxLag \in Nat /\ tkInterval \in Nat
      BY <2>1, <2>5, TimerFacts
    <3>3. DueInTime(t)'
      BY <2>2, <3>1, <3>2 DEF DueInTime
    <3> QED
      BY <2>2, <3>1, <3>2, <3>3 DEF SeenByPass, JustFired
  <2>6. CASE t # h
    <3>1. since'[t] = since[t] /\ first'[t] = first[t]
      BY <2>1, <2>2, <2>3, <2>6 DEF TimerNumbers
    <3>2. DueInTime(t)'
      BY <2>2, <2>3, <2>4, <3>1, SameTimer
    <3> QED
      BY <2>2, <2>4, <2>6, <3>1, <3>2 DEF SeenByPass, JustFired
  <2> QED
    BY <2>5, <2>6
<1>12. CASE TK!SetNextTick
  <2> DEFINE h == Head(fireTargets)
  <2>1. /\ h \in tkTimers
        /\ TK!ToSet(fireTargets) = TK!ToSet(Tail(fireTargets)) \union {h}
    BY <1>12, TargetsDiffer, TimersOf DEF TK!SetNextTick, TimerLists
  <2>2. /\ wait' = [wait EXCEPT ![h] = tkInterval - lag] /\ fireTargets' = Tail(fireTargets)
        /\ UNCHANGED <<lag, since, first, wanted, tkStopper>>
        /\ tkPc = "setNextTick" /\ tkPc' = "fire"
    BY <1>12 DEF TK!SetNextTick, TK!listVars, TK!ghosts
  <2>3. t \in wanted /\ t \in tkTimers
    BY <2>2 DEF TimerLists
  <2>4. DueInTime(t) /\ SeenByPass(t) /\ JustFired(t)
    BY <2>2, <2>3 DEF TimersInTime
  <2>5. CASE t = h
    <3>1. wait'[t] = tkInterval - lag /\ since[t] <= lag
      BY <2>1, <2>2, <2>4, <2>5 DEF TimerNumbers, JustFired
    <3>2. /\ since[t] \in Nat /\ lag \in Nat /\ tkMaxLag \in Nat /\ tkInterval \in Nat
          /\ tkInterval >= 1
      BY <2>3, TimerFacts
    <3>3. wait'[t] + lag >= 1 /\ wait'[t] + lag + tkMaxLag >= 1 /\ since[t] + wait'[t] <= tkInterval
      BY <3>1, <3>2
    <3>4. DueInTime(t)'
      BY <2>2, <3>1, <3>2, <3>3 DEF DueInTime
    <3> QED
      BY <2>2, <3>3, <3>4 DEF SeenByPass, JustFired
  <2>6. CASE t # h
    <3>1. wait'[t] = wait[t]
      BY <2>2, <2>3, <2>6 DEF TimerNumbers
    <3>2. DueInTime(t)'
      BY <2>2, <2>3, <2>4, <3>1, SameTimer
    <3> QED
      BY <2>1, <2>2, <2>4, <2>6, <3>1, <3>2 DEF SeenByPass, JustFired
  <2> QED
    BY <2>5, <2>6
<1>13. CASE TK!EndPass
  <2>1. /\ UNCHANGED <<lag, wait, since, first, wanted, tkStopper>>
        /\ tkPc = "fire" /\ fireTargets = << >> /\ tkPc' = "top"
    BY <1>13 DEF TK!EndPass, TK!tickVars, TK!ghosts
  <2>2. DueInTime(t) /\ SeenByPass(t) /\ t \notin TK!ToSet(fireTargets)
    BY <2>1 DEF TimersInTime, TK!ToSet
  <2> QED
    BY <2>1, <2>2 DEF DueInTime, SeenByPass, JustFired
<1> QED
  BY <1>1, <1>2, <1>3, <1>4, <1>5, <1>6, <1>7, <1>8, <1>9, <1>10, <1>11, <1>12, <1>13
     DEF TK!Next, TK!UpdateTick

LEMMA TimersInTimeFires ==
    ASSUME TK!TickerAssumption, TimerNumbers, TimerLists, PassInTime, TimersInTime
    PROVE  TK!FiresInTime
<1> SUFFICES ASSUME tkStopper = "running", NEW t \in wanted
             PROVE  since[t] <= (IF first[t] THEN 2 * tkInterval ELSE tkInterval) + 2 * tkMaxLag
  BY DEF TK!FiresInTime
<1>1. DueInTime(t) /\ t \in tkTimers /\ lag <= tkMaxLag
  BY DEF TimersInTime, TimerLists, PassInTime
<1> QED
  BY <1>1, TimerFacts DEF DueInTime

LEMMA FiresAlways ==
    ASSUME RegisteredOnce
    PROVE  TK!Init /\ [][TK!Next]_(TK!vars) => []TK!FiresInTime
<1> DEFINE Inv == /\ TickerJoined /\ TimerNumbers /\ TimerLists /\ TimersWanted /\ PassInTime
                  /\ TimersInTime
<1>1. TK!Init => Inv
  <2> SUFFICES ASSUME TK!Init PROVE Inv
    OBVIOUS
  <2>1. TimerNumbers /\ TimerLists
    BY TimersBegin DEF RegisteredOnce
  <2> QED
    BY <2>1 DEF TK!Init, TickerJoined, TimersWanted, PassInTime, TimersInTime
<1>2. Inv /\ [TK!Next]_(TK!vars) => Inv'
  <2> SUFFICES ASSUME Inv, [TK!Next]_(TK!vars) PROVE Inv'
    OBVIOUS
  <2>1. TickerJoined' /\ TimerNumbers' /\ TimerLists' /\ TimersWanted' /\ PassInTime'
    BY TickerStep, NumbersStep, ListsStep, TimersWantedStep, PassStep DEF RegisteredOnce
  <2>2. TimersInTime'
    BY InTimeStep DEF TimersInTime
  <2> QED
    BY <2>1, <2>2
<1>3. Inv => TK!FiresInTime
  BY TimersInTimeFires DEF RegisteredOnce
<1> QED
  BY <1>1, <1>2, <1>3, PTL

\* A timer that is registered while the ticker runs, and not again before its id is erased,
\* fires late by two passes at most: no pass misses one that is due, and none is left behind
\* by the lists and the clock the pass read before.
THEOREM TimersFire == ASSUME RegisteredOnce PROVE TK!Spec => []TK!FiresInTime
BY FiresAlways, PTL DEF TK!Spec

-------------------------------------------------------------------------------
(* The logger: when its last user has stopped it.                            *)

LoggerPcs == {"out", "createLog", "createStop", "spawn", "assign", "in", "signal", "join"}
Counted == {u \in lgUsers : lgPc[u] \in {"createLog", "createStop", "spawn", "assign", "in"}}
UnderWay(u) == lgPc[u] \notin {"out", "in"}
Handed(w) == \E u \in lgUsers : lgPc[u] = "assign" /\ spawned[u] = w

\* One user at a time is in a call, the counter is the number of users that have run the
\* logger and not stopped it, and a worker that runs is in the jthread or about to be.
UsersCounted ==
    /\ lgPc \in [lgUsers -> LoggerPcs]
    /\ \A u, v \in lgUsers : UnderWay(u) /\ UnderWay(v) => u = v
    /\ currentConnectedClientCount = Cardinality(Counted)
    /\ spawned \in [lgUsers -> Nat]
ThreadsOfLogger ==
    /\ lgWorker \in [LG!Workers -> {"none", "top", "wait", "swapLog", "swapStop", "writeLog",
                                    "writeStop", "ended"}]
    /\ \A w \in LG!Workers : LG!Running(w) => w = loggerThread \/ Handed(w)
LoggerInv == UsersCounted /\ ThreadsOfLogger /\ LG!StopsForLast

\* A user that goes from one step of its call to the next is counted as before, or once
\* more, or once less.
LEMMA CountedMoves ==
    ASSUME LG!LoggerAssumption, UsersCounted, NEW u \in lgUsers, NEW step,
           lgPc' = [lgPc EXCEPT ![u] = step]
    PROVE  /\ Cardinality(Counted) \in Nat
           /\ step \in {"createLog", "createStop", "spawn", "assign", "in"} =>
                Counted' = Counted \union {u}
           /\ step \notin {"createLog", "createStop", "spawn", "assign", "in"} =>
                Counted' = Counted \ {u}
           /\ Cardinality(Counted \union {u}) =
                Cardinality(Counted) + (IF u \in Counted THEN 0 ELSE 1)
           /\ Cardinality(Counted \ {u}) =
                Cardinality(Counted) - (IF u \in Counted THEN 1 ELSE 0)
<1>1. IsFiniteSet(Counted)
  BY FS_Subset DEF LG!LoggerAssumption, LG!IsFiniteSet, IsFiniteSet, Counted
<1>2. Cardinality(Counted) \in Nat
  BY <1>1, FS_CardinalityType
<1> DEFINE before == Counted
<1>a. before = Counted
  OBVIOUS
<1> HIDE DEF before
<1>b. /\ Cardinality(before \union {u}) =
           IF u \in before THEN Cardinality(before) ELSE Cardinality(before) + 1
      /\ Cardinality(before \ {u}) =
           IF u \in before THEN Cardinality(before) - 1 ELSE Cardinality(before)
  BY <1>1, <1>a, FS_AddElement, FS_RemoveElement, Zenon
<1>3. Cardinality(Counted \union {u}) = Cardinality(Counted) + (IF u \in Counted THEN 0 ELSE 1)
  BY <1>2, <1>a, <1>b
<1>4. Cardinality(Counted \ {u}) = Cardinality(Counted) - (IF u \in Counted THEN 1 ELSE 0)
  BY <1>2, <1>a, <1>b
<1>5. \A v \in lgUsers : lgPc'[v] = IF v = u THEN step ELSE lgPc[v]
  BY DEF UsersCounted
<1>6. step \in {"createLog", "createStop", "spawn", "assign", "in"} =>
        Counted' = Counted \union {u}
  BY <1>5 DEF Counted
<1>7. step \notin {"createLog", "createStop", "spawn", "assign", "in"} =>
        Counted' = Counted \ {u}
  BY <1>5 DEF Counted
<1> QED
  BY <1>2, <1>3, <1>4, <1>6, <1>7

\* A call begins only while nobody else is in one, and goes on as the only one.
LEMMA OneCallAtATime ==
    ASSUME ~ lgOverlap, UsersCounted, NEW u \in lgUsers, NEW step,
           lgPc' = [lgPc EXCEPT ![u] = step], LG!Alone(u) \/ UnderWay(u)
    PROVE  \A v, w \in lgUsers : UnderWay(v)' /\ UnderWay(w)' => v = w
<1>1. \A v \in lgUsers \ {u} : lgPc[v] \in {"out", "in"}
  BY DEF UsersCounted, LG!Alone, UnderWay
<1>2. \A v \in lgUsers : lgPc'[v] = IF v = u THEN step ELSE lgPc[v]
  BY DEF UsersCounted
<1> QED
  BY <1>1, <1>2 DEF UnderWay

LEMMA CountStepLG ==
    ASSUME LG!LoggerAssumption, ~ lgOverlap, ~ lgStopTwice, LoggerInv, NEW u \in lgUsers,
           LG!Run(u) \/ LG!Stop(u) \/ LG!User(u)
    PROVE  UsersCounted'
<1>1. PICK step \in LoggerPcs : lgPc' = [lgPc EXCEPT ![u] = step]
  BY DEF LG!Run, LG!Stop, LG!User, LG!CreateEvent, LG!Spawn, LG!Assign, LG!Signal, LG!Join,
     LG!GoTo, LoggerPcs
<1>2. LG!Alone(u) \/ UnderWay(u)
  BY DEF LG!Run, LG!Stop, LG!User, LG!CreateEvent, LG!Spawn, LG!Assign, LG!Signal, LG!Join,
     UnderWay
<1>3. lgPc'[u] = step /\ lgPc' \in [lgUsers -> LoggerPcs]
  BY <1>1 DEF LoggerInv, UsersCounted
<1>4. \A v, w \in lgUsers : UnderWay(v)' /\ UnderWay(w)' => v = w
  BY <1>1, <1>2, OneCallAtATime DEF LoggerInv
<1>5. /\ Cardinality(Counted) \in Nat
      /\ step \in {"createLog", "createStop", "spawn", "assign", "in"} =>
           Counted' = Counted \union {u}
      /\ step \notin {"createLog", "createStop", "spawn", "assign", "in"} =>
           Counted' = Counted \ {u}
      /\ Cardinality(Counted \union {u}) =
           Cardinality(Counted) + (IF u \in Counted THEN 0 ELSE 1)
      /\ Cardinality(Counted \ {u}) = Cardinality(Counted) - (IF u \in Counted THEN 1 ELSE 0)
  BY <1>1, CountedMoves DEF LoggerInv
<1>6. currentConnectedClientCount' = Cardinality(Counted')
  <2>1. CASE LG!Run(u)
    <3>1. /\ lgPc[u] = "out" /\ step \in {"in", "createLog"}
          /\ currentConnectedClientCount' = currentConnectedClientCount + 1
      BY <2>1, <1>1, <1>3 DEF LG!Run, LG!GoTo, LoggerInv, UsersCounted
    <3>2. u \notin Counted /\ Counted' = Counted \union {u}
      BY <3>1, <1>5 DEF Counted
    <3> QED
      BY <3>1, <3>2, <1>5 DEF LoggerInv, UsersCounted
  <2>2. CASE LG!Stop(u)
    <3>1. /\ lgPc[u] = "in" /\ step \in {"out", "signal"}
          /\ currentConnectedClientCount' = currentConnectedClientCount - 1
      BY <2>2, <1>1, <1>3 DEF LG!Stop, LG!GoTo, LoggerInv, UsersCounted
    <3>2. u \in Counted /\ Counted' = Counted \ {u}
      BY <3>1, <1>5 DEF Counted
    <3> QED
      BY <3>1, <3>2, <1>5 DEF LoggerInv, UsersCounted
  <2>3. CASE LG!CreateEvent(u) \/ LG!Spawn(u) \/ LG!Assign(u)
    <3>1. /\ lgPc[u] \in {"createLog", "createStop", "spawn", "assign"}
          /\ step \in {"createStop", "spawn", "assign", "in"}
          /\ UNCHANGED currentConnectedClientCount
      BY <2>3, <1>1, <1>3 DEF LG!CreateEvent, LG!Spawn, LG!Assign, LG!GoTo, LoggerInv,
         UsersCounted
    <3>2. u \in Counted /\ Counted' = Counted \union {u}
      BY <3>1, <1>5 DEF Counted
    <3>3. Counted' = Counted
      BY <3>2
    <3> QED
      BY <3>1, <3>3 DEF LoggerInv, UsersCounted
  <2>4. CASE LG!Signal(u) \/ LG!Join(u)
    <3>1. /\ lgPc[u] \in {"signal", "join"} /\ step \in {"join", "out"}
          /\ UNCHANGED currentConnectedClientCount
      BY <2>4, <1>1, <1>3 DEF LG!Signal, LG!Join, LG!GoTo, LoggerInv, UsersCounted
    <3>2. u \notin Counted /\ Counted' = Counted \ {u}
      BY <3>1, <1>5 DEF Counted
    <3>3. Counted' = Counted
      BY <3>2
    <3> QED
      BY <3>1, <3>3 DEF LoggerInv, UsersCounted
  <2> QED
    BY <2>1, <2>2, <2>3, <2>4 DEF LG!User
<1>7. spawned' \in [lgUsers -> Nat]
  <2>1. LG!Started \in Nat
    <3>1. LG!Workers = 1 .. lgMaxRounds * Cardinality(lgUsers)
      BY DEF LG!Workers, LG!Cardinality, Cardinality
    <3>2. Cardinality(lgUsers) \in Nat
      BY FS_CardinalityType DEF LG!LoggerAssumption, LG!IsFiniteSet, IsFiniteSet
    <3>3. IsFiniteSet(LG!Workers)
      BY <3>1, <3>2, FS_Interval DEF LG!LoggerAssumption
    <3>4. IsFiniteSet({w \in LG!Workers : lgWorker[w] # "none"})
      BY <3>3, FS_Subset
    <3>5. Cardinality({w \in LG!Workers : lgWorker[w] # "none"}) \in Nat
      BY <3>4, FS_CardinalityType
    <3> QED
      BY <3>5 DEF LG!Started, LG!Cardinality, Cardinality
  <2> QED
    BY <2>1 DEF LG!Run, LG!Stop, LG!User, LG!CreateEvent, LG!Spawn, LG!Assign, LG!Signal,
       LG!Join, LoggerInv, UsersCounted
<1> QED
  BY <1>3, <1>4, <1>6, <1>7 DEF UsersCounted

\* A call of RunLoggerThread or StopLoggerThread.
LEMMA CallsOfLogger ==
    ASSUME LG!LoggerAssumption, ~ lgOverlap, ~ lgStopTwice, LoggerInv, NEW u \in lgUsers,
           LG!Run(u) \/ LG!Stop(u) \/ LG!User(u)
    PROVE  LoggerInv'
<1>1. UsersCounted'
  BY CountStepLG
<1>2. \A v \in lgUsers : v # u => lgPc'[v] = lgPc[v] /\ (UnderWay(u) => ~ UnderWay(v))
  BY DEF LG!Run, LG!Stop, LG!User, LG!CreateEvent, LG!Spawn, LG!Assign, LG!Signal, LG!Join,
     LG!GoTo, LoggerInv, UsersCounted
<1>3. CASE LG!Run(u) \/ LG!CreateEvent(u) \/ LG!Signal(u)
  <2>1. /\ lgPc[u] # "assign" /\ lgPc'[u] \notin {"assign", "out"}
        /\ UNCHANGED <<loggerThread, lgWorker, spawned>>
    BY <1>3 DEF LG!Run, LG!CreateEvent, LG!Signal, LG!GoTo, LoggerInv, UsersCounted,
       LG!eventVars, LG!threadVars
  <2>2. \A w : Handed(w) => Handed(w)'
    BY <2>1, <1>2 DEF Handed
  <2>3. ThreadsOfLogger'
    BY <2>1, <2>2 DEF LoggerInv, ThreadsOfLogger, LG!Running, LG!Workers
  <2>4. LG!StopsForLast'
    BY <2>1 DEF LG!StopsForLast
  <2> QED
    BY <1>1, <2>3, <2>4 DEF LoggerInv
<1>4. CASE LG!Stop(u)
  <2>1. /\ lgPc[u] = "in" /\ lgPc'[u] # "assign"
        /\ lgPc'[u] = "out" => currentConnectedClientCount # 1
        /\ UNCHANGED <<loggerThread, lgWorker, spawned>>
    BY <1>4 DEF LG!Stop, LG!GoTo, LoggerInv, UsersCounted, LG!eventVars, LG!threadVars
  <2>2. \A w : Handed(w) => Handed(w)'
    BY <2>1, <1>2 DEF Handed
  <2>3. ThreadsOfLogger'
    BY <2>1, <2>2 DEF LoggerInv, ThreadsOfLogger, LG!Running, LG!Workers
  <2>4. \E v \in lgUsers : lgPc'[v] # "out"
    <3> SUFFICES ASSUME \A v \in lgUsers : lgPc'[v] = "out" PROVE FALSE
      OBVIOUS
    <3>1. Counted = {u}
      BY <1>2, <2>1 DEF Counted
    <3>2. Cardinality(Counted) = 1
      BY <3>1, FS_Singleton
    <3> QED
      BY <2>1, <3>2 DEF LoggerInv, UsersCounted
  <2> QED
    BY <1>1, <2>3, <2>4 DEF LoggerInv, LG!StopsForLast
<1>5. CASE LG!Spawn(u)
  <2>0. PICK new : new = LG!Started + 1
    OBVIOUS
  <2>1. /\ lgPc[u] = "spawn" /\ lgPc'[u] = "assign" /\ spawned'[u] = new
        /\ UNCHANGED loggerThread /\ lgWorker' = [lgWorker EXCEPT ![new] = "top"]
    BY <1>5, <2>0 DEF LG!Spawn, LG!GoTo, LoggerInv, UsersCounted, LG!eventVars
  <2>2. ~ \E w : Handed(w)
    BY <2>1, <1>2 DEF Handed, UnderWay
  <2>3. Handed(new)'
    BY <2>1 DEF Handed
  <2>4. ThreadsOfLogger'
    BY <2>1, <2>2, <2>3 DEF LoggerInv, ThreadsOfLogger, LG!Running, LG!Workers
  <2> QED
    BY <1>1, <2>1, <2>4 DEF LoggerInv, LG!StopsForLast
<1>6. CASE LG!Assign(u)
  <2>1. /\ lgPc[u] = "assign" /\ lgPc'[u] = "in" /\ ~ LG!Running(loggerThread)
        /\ loggerThread' = spawned[u] /\ UNCHANGED lgWorker
    BY <1>6 DEF LG!Assign, LG!GoTo, LoggerInv, UsersCounted, LG!threadVars
  <2>2. \A w : Handed(w) => w = spawned[u]
    BY <2>1, <1>2 DEF Handed, UnderWay
  <2>3. ThreadsOfLogger'
    BY <2>1, <2>2 DEF LoggerInv, ThreadsOfLogger, LG!Running, LG!Workers
  <2> QED
    BY <1>1, <2>1, <2>3 DEF LoggerInv, LG!StopsForLast
<1>7. CASE LG!Join(u)
  <2>1. /\ lgPc[u] = "join" /\ lgPc'[u] = "out" /\ ~ LG!Running(loggerThread)
        /\ UNCHANGED lgWorker
    BY <1>7 DEF LG!Join, LG!GoTo, LoggerInv, UsersCounted, LG!threadVars
  <2>2. ~ \E w : Handed(w)
    BY <2>1, <1>2 DEF Handed, UnderWay
  <2>3. \A w \in LG!Workers : ~ LG!Running(w) /\ ~ LG!Running(w)'
    BY <2>1, <2>2 DEF LoggerInv, ThreadsOfLogger, LG!Running
  <2> QED
    BY <1>1, <2>1, <2>3 DEF LoggerInv, ThreadsOfLogger, LG!StopsForLast, LG!Workers
<1> QED
  BY <1>3, <1>4, <1>5, <1>6, <1>7 DEF LG!User

\* The worker takes and writes logs; only its own step makes it end.
LEMMA WorkOfLogger ==
    ASSUME LoggerInv, LG!WriteLog \/ LG!Destroy \/ \E w \in LG!Workers : LG!Worker(w)
    PROVE  LoggerInv'
<1>1. UNCHANGED <<currentConnectedClientCount, lgPc, spawned, loggerThread>>
  BY DEF LG!WriteLog, LG!Destroy, LG!Worker, LG!Wait, LG!Wake, LG!Swap, LG!WriteLogImpl,
     LG!eventVars, LG!userVars
<1>2. UsersCounted' /\ \A w : Handed(w)' <=> Handed(w)
  BY <1>1 DEF LoggerInv, UsersCounted, UnderWay, Counted, Handed
<1>3. /\ lgWorker' \in [LG!Workers -> {"none", "top", "wait", "swapLog", "swapStop", "writeLog",
                                        "writeStop", "ended"}]
      /\ \A w \in LG!Workers : LG!Running(w)' => LG!Running(w)
  BY DEF LG!WriteLog, LG!Destroy, LG!Worker, LG!Wait, LG!Wake, LG!Swap, LG!WriteLogImpl,
     LG!threadVars, LG!Running, LoggerInv, ThreadsOfLogger
<1> QED
  BY <1>1, <1>2, <1>3 DEF LoggerInv, ThreadsOfLogger, LG!StopsForLast, LG!Workers

LEMMA LoggerAlways ==
    ASSUME LG!LoggerAssumption, ~ lgOverlap, ~ lgStopTwice
    PROVE  LG!Init /\ [][LG!Next]_(LG!vars) => []LG!StopsForLast
<1>1. LG!Init => LoggerInv
  <2> SUFFICES ASSUME LG!Init PROVE LoggerInv
    OBVIOUS
  <2>1. Counted = {} /\ Cardinality(Counted) = 0
    BY FS_EmptySet DEF LG!Init, Counted
  <2> QED
    BY <2>1 DEF LG!Init, LoggerInv, UsersCounted, ThreadsOfLogger, LG!StopsForLast, LG!Running,
       UnderWay, LoggerPcs
<1>2. LoggerInv /\ UNCHANGED LG!vars => LoggerInv'
  BY DEF LoggerInv, UsersCounted, ThreadsOfLogger, LG!StopsForLast, LG!Running, UnderWay,
     Counted, Handed, LG!vars, LG!eventVars, LG!userVars, LG!threadVars, LG!Workers
<1>3. LoggerInv /\ [LG!Next]_(LG!vars) => LoggerInv'
  BY <1>2, CallsOfLogger, WorkOfLogger DEF LG!Next
<1>4. LoggerInv => LG!StopsForLast
  BY DEF LoggerInv
<1> QED
  BY <1>1, <1>3, <1>4, PTL

\* The counter of the users decides who joins: when the last user has stopped the logger its
\* thread has ended, as long as the calls of two users do not cross and none stops it twice.
THEOREM LoggerEndsWithLast ==
    ASSUME LG!LoggerAssumption, ~ lgOverlap, ~ lgStopTwice
    PROVE  LG!Spec => []LG!StopsForLast
BY LoggerAlways, PTL DEF LG!Spec
================================================================================
