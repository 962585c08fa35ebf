----------------------------- MODULE FastIDProofs -----------------------------
(***************************************************************************)
(* Proofs about FastID, for any number of nodes and calls and any width of *)
(* the bit fields.                                                         *)
(***************************************************************************)
EXTENDS FastID, TLAPS

USE FastIDAssumption

LEMMA Division ==
    ASSUME NEW t \in Nat, NEW k \in Nat \ {0}, NEW r \in 0 .. (k - 1)
    PROVE  (t * k + r) \div k = t /\ (t * k + r) % k = r
OBVIOUS

(* An id is the sum of its three fields. *)
LEMMA Fields ==
    ASSUME NEW id \in Nat
    PROVE  /\ TimeFromID(id) \in Nat /\ SeqFromID(id) \in 0 .. (SeqSize - 1)
           /\ MachineIDFromID(id) \in 0 .. (MachineSize - 1)
           /\ id = TimeFromID(id) * TickSize + SeqFromID(id) * MachineSize + MachineIDFromID(id)
<1> DEFINE q == id \div MachineSize
           r == id % MachineSize
           s == q % SeqSize
           u == q \div SeqSize
<1>1. /\ q \in Nat /\ r \in 0 .. (MachineSize - 1) /\ id = q * MachineSize + r
      /\ u \in Nat /\ s \in 0 .. (SeqSize - 1) /\ q = u * SeqSize + s
  OBVIOUS
<1> HIDE DEF q, r, s, u
<1>2. id = u * TickSize + (s * MachineSize + r)
  BY <1>1 DEF TickSize
<1>3. TickSize \in Nat \ {0} /\ s * MachineSize + r \in 0 .. (TickSize - 1)
  <2>1. s * MachineSize <= (SeqSize - 1) * MachineSize
    BY <1>1
  <2>2. QED
    BY <1>1, <2>1 DEF TickSize
<1>4. id \div TickSize = u
  BY <1>1, <1>2, <1>3, Division
<1>5. id = u * TickSize + s * MachineSize + r
  <2>1. u * TickSize \in Nat /\ s * MachineSize \in Nat
    BY <1>1, <1>3
  <2>2. QED
    BY <1>1, <1>2, <2>1
<1>6. TimeFromID(id) = u /\ SeqFromID(id) = s /\ MachineIDFromID(id) = r
  BY <1>4 DEF TimeFromID, SeqFromID, MachineIDFromID, q, r, s
<1>7. QED
  BY <1>1, <1>5, <1>6

(* Packing keeps the fields apart. *)
LEMMA Packed ==
    ASSUME NEW n \in Node, NEW t \in Nat, NEW s \in 0 .. (SeqSize - 1)
    PROVE  /\ Pack(n, t, s) \in Nat
           /\ TimeFromID(Pack(n, t, s)) = t
           /\ MachineIDFromID(Pack(n, t, s)) = MachineID(n)
           /\ t < TimeSize => Pack(n, t, s) \in ID
<1> DEFINE m == MachineID(n)
<1>1. m \in 0 .. (MachineSize - 1)
  BY DEF MachineID
<1> HIDE DEF m
<1>2. Pack(n, t, s) = t * TickSize + (s * MachineSize + m)
  BY <1>1 DEF Pack, TickSize, m
<1>3. TickSize \in Nat \ {0} /\ s * MachineSize + m \in 0 .. (TickSize - 1)
  <2>1. s * MachineSize <= (SeqSize - 1) * MachineSize
    OBVIOUS
  <2>2. QED
    BY <1>1, <2>1 DEF TickSize
<1>4. (t * TickSize + (s * MachineSize + m)) \div TickSize = t
  BY <1>3, Division
<1>5. Pack(n, t, s) % MachineSize = m
  <2> DEFINE x == t * SeqSize + s
  <2>1. Pack(n, t, s) = x * MachineSize + m /\ x \in Nat
    BY <1>1, <1>2 DEF TickSize
  <2> HIDE DEF x
  <2>2. (x * MachineSize + m) % MachineSize = m
    BY <1>1, <2>1, Division
  <2>3. QED
    BY <2>1, <2>2
<1>6. ASSUME t < TimeSize
      PROVE  Pack(n, t, s) \in ID
  <2>1. t * TickSize <= (TimeSize - 1) * TickSize
    BY <1>3, <1>6
  <2>2. (TimeSize - 1) * TickSize = TimeSize * TickSize - TickSize
    BY <1>3
  <2>3. TimeSize * TickSize \in Nat /\ t * TickSize \in Nat
    BY <1>3
  <2>4. QED
    BY <1>2, <1>3, <2>1, <2>2, <2>3 DEF ID
<1>7. QED
  BY <1>2, <1>3, <1>4, <1>5, <1>6 DEF TimeFromID, MachineIDFromID, m

LEMMA IDsAreNaturals == ID \subseteq Nat
BY DEF ID, TickSize

(* What ReadClock computes, whatever the clock says. *)
LEMMA NextID ==
    ASSUME NEW n \in Node, NEW id \in ID, NEW now \in Nat, now < TimeSize,
           ~(now <= TimeFromID(id) /\ Exhausted(SeqFromID(id)))
    PROVE  /\ Pack(n, now, NextSeq(id, now)) \in ID
           /\ TimeFromID(Pack(n, now, NextSeq(id, now))) = now
           /\ MachineIDFromID(Pack(n, now, NextSeq(id, now))) = MachineID(n)
           /\ now >= TimeFromID(id) => Pack(n, now, NextSeq(id, now)) > id
<1>1. id \in Nat
  BY IDsAreNaturals
<1>2. NextSeq(id, now) \in 0 .. (SeqSize - 1)
  BY <1>1, Fields DEF NextSeq, Exhausted
<1>3. /\ Pack(n, now, NextSeq(id, now)) \in ID
      /\ TimeFromID(Pack(n, now, NextSeq(id, now))) = now
      /\ MachineIDFromID(Pack(n, now, NextSeq(id, now))) = MachineID(n)
  BY <1>2, Packed
<1>4. ASSUME now >= TimeFromID(id)
      PROVE  Pack(n, now, NextSeq(id, now)) > id
  <2> DEFINE t == TimeFromID(id)
             s == SeqFromID(id)
             m == MachineIDFromID(id)
             k == MachineID(n)
  <2>1. /\ t \in Nat /\ s \in 0 .. (SeqSize - 1) /\ m \in 0 .. (MachineSize - 1)
        /\ id = t * TickSize + s * MachineSize + m
    BY <1>1, Fields
  <2>2. k \in Nat
    BY DEF MachineID
  <2>3. CASE now > t
    <3>1. Pack(n, now, NextSeq(id, now)) = now * TickSize + k
      BY <2>2, <2>3 DEF Pack, NextSeq, TickSize
    <3> HIDE DEF t, s, m, k
    <3>2. (t + 1) * TickSize <= now * TickSize /\ TickSize \in Nat
      BY <2>1, <2>3 DEF TickSize
    <3>3. s * MachineSize + m < TickSize
      <4>1. s * MachineSize <= (SeqSize - 1) * MachineSize
        BY <2>1
      <4>2. QED
        BY <2>1, <4>1 DEF TickSize
    <3>4. (t + 1) * TickSize = t * TickSize + TickSize
      BY <2>1, <3>2
    <3>5. t * TickSize \in Nat /\ s * MachineSize \in Nat /\ now * TickSize \in Nat
      BY <2>1, <3>2
    <3>6. QED
      BY <2>1, <2>2, <3>1, <3>2, <3>3, <3>4, <3>5
  <2>4. CASE now = t
    <3>1. Pack(n, now, NextSeq(id, now)) = t * TickSize + (s + 1) * MachineSize + k
      BY <2>4 DEF Pack, NextSeq
    <3> HIDE DEF t, s, m, k
    <3>2. (s + 1) * MachineSize = s * MachineSize + MachineSize
      BY <2>1
    <3>3. t * TickSize \in Nat /\ s * MachineSize \in Nat
      BY <2>1 DEF TickSize
    <3>4. QED
      BY <2>1, <2>2, <3>1, <3>2, <3>3
  <2>5. QED
    BY <1>4, <2>1, <2>3, <2>4
<1>5. QED
  BY <1>3, <1>4

-------------------------------------------------------------------------------

LEMMA Now ==
    ASSUME TypeOK, NEW n \in Node
    PROVE  /\ CurrentTimestamp(n) \in Nat /\ CurrentTimestamp(n) < TimeSize
           /\ SteadyClocks => CurrentTimestamp(n) = clock[n]
<1>1. clock[n] \in Nat /\ clock[n] <= Horizon
  BY DEF TypeOK
<1>2. QED
  BY <1>1 DEF CurrentTimestamp, SteadyClocks

LEMMA TypeStep == TypeOK /\ [Next]_vars => TypeOK'
<1> SUFFICES ASSUME TypeOK, [Next]_vars
             PROVE  TypeOK'
  OBVIOUS
<1> USE DEF TypeOK
<1>1. ASSUME NEW c \in Call, Load(c)
      PROVE  TypeOK'
  BY <1>1 DEF Load
<1>2. ASSUME NEW c \in Call, ReadClock(c)
      PROVE  TypeOK'
  <2> DEFINE now == CurrentTimestamp(NodeOf[c])
             id == local[c]
  <2>1. CASE now <= TimeFromID(id) /\ Exhausted(SeqFromID(id))
    BY <1>2, <2>1 DEF ReadClock, Retry
  <2>2. CASE ~(now <= TimeFromID(id) /\ Exhausted(SeqFromID(id)))
    <3>1. Pack(NodeOf[c], now, NextSeq(id, now)) \in ID
      BY <2>2, Now, NextID
    <3>2. QED
      BY <1>2, <2>2, <3>1 DEF ReadClock
  <2>3. QED
    BY <2>1, <2>2
<1>3. ASSUME NEW c \in Call, CompareAndSwap(c)
      PROVE  TypeOK'
  BY <1>3 DEF CompareAndSwap, Retry
<1>4. ASSUME NEW n \in Node, Tick(n)
      PROVE  TypeOK'
  BY <1>4 DEF Tick, NextReadings
<1>5. CASE UNCHANGED vars
  BY <1>5 DEF vars
<1>6. QED
  BY <1>1, <1>2, <1>3, <1>4, <1>5 DEF Next, Step

LEMMA TypeInit == Init => TypeOK
<1>1. TimeSize * TickSize \in Nat \ {0}
  BY DEF TickSize
<1>2. QED
  BY <1>1 DEF Init, TypeOK, ID

(* Every id fits its 63 bits, whatever the clocks do. *)
THEOREM TypeCorrect == Spec => []TypeOK
BY TypeInit, TypeStep, PTL DEF Spec

(* With steady clocks lastID only grows: what a call has read is at most lastID,
   what it is about to store is more than what it has read, and what was handed
   out is at most lastID.                                                        *)
ClockInv ==
    /\ \A n \in Node : TimeFromID(lastID[n]) <= clock[n]
    /\ \A c \in Call :
          /\ pc[c] \in {"clock", "cas"} => /\ local[c] <= lastID[NodeOf[c]]
                                           /\ TimeFromID(local[c]) <= clock[NodeOf[c]]
          /\ pc[c] = "cas" => newID[c] > local[c]
          /\ pc[c] = "done" => newID[c] <= lastID[NodeOf[c]]
          /\ pc[c] \in {"cas", "done"} =>
                /\ TimeFromID(newID[c]) <= clock[NodeOf[c]]
                /\ MachineIDFromID(newID[c]) = MachineID(NodeOf[c])

OnceInv ==
    \A c, d \in Call :
        pc[c] = "done" /\ pc[d] = "done" /\ NodeOf[c] = NodeOf[d] /\ newID[c] = newID[d] => c = d

IInv == TypeOK /\ ClockInv /\ OnceInv

LEMMA IInvInit == SteadyClocks /\ Init => IInv
<1> SUFFICES ASSUME SteadyClocks, Init
             PROVE  IInv
  OBVIOUS
<1>1. TypeOK
  BY TypeInit
<1>2. TimeFromID(0) = 0
  BY DEF TimeFromID, TickSize
<1>3. QED
  BY <1>1, <1>2 DEF IInv, ClockInv, OnceInv, Init

(* A call that swaps stores an id above every id its node has handed out. *)
LEMMA SwapGrows ==
    ASSUME IInv, NEW c \in Call, CompareAndSwap(c), pc'[c] = "done"
    PROVE  /\ lastID' = [lastID EXCEPT ![NodeOf[c]] = newID[c]]
           /\ pc' = [pc EXCEPT ![c] = "done"]
           /\ newID[c] > lastID[NodeOf[c]]
           /\ \A d \in Call : pc[d] = "done" /\ NodeOf[d] = NodeOf[c] => newID[d] < newID[c]
<1>1. /\ lastID' = [lastID EXCEPT ![NodeOf[c]] = newID[c]]
      /\ pc' = [pc EXCEPT ![c] = "done"]
      /\ pc[c] = "cas" /\ lastID[NodeOf[c]] = local[c]
  BY DEF CompareAndSwap, Swappable, Retry, IInv, TypeOK
<1>2. \A d \in Call : newID[d] \in Nat /\ lastID[NodeOf[d]] \in Nat /\ local[d] \in Nat
  BY IDsAreNaturals DEF IInv, TypeOK
<1>3. newID[c] > lastID[NodeOf[c]]
  BY <1>1 DEF IInv, ClockInv
<1>4. QED
  BY <1>1, <1>2, <1>3 DEF IInv, ClockInv

LEMMA ClockStep == SteadyClocks /\ IInv /\ [Next]_vars => ClockInv'
<1> SUFFICES ASSUME SteadyClocks, IInv, [Next]_vars
             PROVE  ClockInv'
  OBVIOUS
<1>0. /\ \A n \in Node : lastID[n] \in Nat
      /\ \A c \in Call : local[c] \in Nat /\ newID[c] \in Nat
      /\ \A n \in Node : clock[n] \in Nat
  <2>1. /\ lastID \in [Node -> ID] /\ clock \in [Node -> 1 .. Horizon]
        /\ local \in [Call -> ID] /\ newID \in [Call -> ID]
    BY DEF IInv, TypeOK
  <2>2. \A x \in ID : x \in Nat
    BY IDsAreNaturals
  <2>3. \A x \in 1 .. Horizon : x \in Nat
    OBVIOUS
  <2>4. QED
    BY <2>1, <2>2, <2>3, Zenon
<1> USE DEF IInv, TypeOK, ClockInv
<1>1. ASSUME NEW c \in Call, Load(c)
      PROVE  ClockInv'
  BY <1>0, <1>1 DEF Load
<1>2. ASSUME NEW c \in Call, ReadClock(c)
      PROVE  ClockInv'
  <2> DEFINE now == CurrentTimestamp(NodeOf[c])
             id == local[c]
             next == Pack(NodeOf[c], now, NextSeq(id, now))
  <2>1. UNCHANGED <<lastID, clock, local>> /\ pc[c] = "clock"
    BY <1>2 DEF ReadClock
  <2>2. CASE now <= TimeFromID(id) /\ Exhausted(SeqFromID(id))
    BY <1>2, <2>1, <2>2 DEF ReadClock, Retry
  <2>3. CASE ~(now <= TimeFromID(id) /\ Exhausted(SeqFromID(id)))
    <3>1. now = clock[NodeOf[c]] /\ now \in Nat /\ now < TimeSize
      BY Now
    <3>2. /\ next > id /\ TimeFromID(next) = now
          /\ MachineIDFromID(next) = MachineID(NodeOf[c])
      BY <2>1, <2>3, <3>1, NextID
    <3>3. newID' = [newID EXCEPT ![c] = next] /\ pc' = [pc EXCEPT ![c] = "cas"]
      BY <1>2, <2>3 DEF ReadClock
    <3> HIDE DEF next
    <3>4. QED
      BY <1>0, <2>1, <3>1, <3>2, <3>3
  <2>4. QED
    BY <2>2, <2>3
<1>3. ASSUME NEW c \in Call, CompareAndSwap(c)
      PROVE  ClockInv'
  <2>1. pc[c] = "cas" /\ UNCHANGED <<clock, local, newID>>
    BY <1>3 DEF CompareAndSwap
  <2>2. CASE pc'[c] = "done"
    <3>1. /\ lastID' = [lastID EXCEPT ![NodeOf[c]] = newID[c]]
          /\ pc' = [pc EXCEPT ![c] = "done"]
          /\ newID[c] > lastID[NodeOf[c]]
      BY <1>3, <2>2, SwapGrows
    <3>2. \A n \in Node : lastID'[n] \in Nat /\ lastID'[n] >= lastID[n]
      BY <1>0, <3>1
    <3>3. QED
      BY <1>0, <2>1, <3>1, <3>2
  <2>3. CASE pc'[c] # "done"
    <3>1. UNCHANGED lastID /\ pc' = [pc EXCEPT ![c] = "load"]
      BY <1>3, <2>3 DEF CompareAndSwap, Retry
    <3>2. QED
      BY <2>1, <3>1
  <2>4. QED
    BY <2>2, <2>3
<1>4. ASSUME NEW n \in Node, Tick(n)
      PROVE  ClockInv'
  <2>1. clock' = [clock EXCEPT ![n] = @ + 1] /\ UNCHANGED <<lastID, pc, local, newID>>
    BY <1>4 DEF Tick, NextReadings, SteadyClocks
  <2>2. \A m \in Node : clock'[m] >= clock[m] /\ clock'[m] \in Nat
    BY <1>0, <2>1
  <2>3. \A x \in Nat : TimeFromID(x) \in Nat
    BY Fields
  <2>4. QED
    BY <1>0, <2>1, <2>2, <2>3
<1>5. CASE UNCHANGED vars
  BY <1>5 DEF vars
<1>6. QED
  BY <1>1, <1>2, <1>3, <1>4, <1>5 DEF Next, Step

LEMMA OnceStep == IInv /\ [Next]_vars => OnceInv'
<1> SUFFICES ASSUME IInv, [Next]_vars
             PROVE  OnceInv'
  OBVIOUS
<1> USE DEF IInv, TypeOK, OnceInv
<1>1. ASSUME NEW c \in Call, CompareAndSwap(c), pc'[c] = "done"
      PROVE  OnceInv'
  <2>1. UNCHANGED newID /\ \A d \in Call : newID[d] \in Nat
    BY <1>1, IDsAreNaturals DEF CompareAndSwap
  <2>2. QED
    BY <1>1, <2>1, SwapGrows
<1>2. ASSUME NEW c \in Call, Step(c), pc'[c] # "done"
      PROVE  OnceInv'
  <2>1. /\ pc[c] # "done" /\ \A d \in Call \ {c} : pc'[d] = pc[d] /\ newID'[d] = newID[d]
    BY <1>2 DEF Step, Load, ReadClock, CompareAndSwap, Retry
  <2>2. QED
    BY <1>2, <2>1
<1>3. ASSUME NEW n \in Node, Tick(n)
      PROVE  OnceInv'
  BY <1>3 DEF Tick, NextReadings
<1>4. CASE UNCHANGED vars
  BY <1>4 DEF vars
<1>5. \A c \in Call : Step(c) /\ pc'[c] = "done" => CompareAndSwap(c)
  BY DEF Step, Load, ReadClock, Retry
<1>6. QED
  BY <1>1, <1>2, <1>3, <1>4, <1>5 DEF Next

LEMMA IInvHolds == ASSUME SteadyClocks PROVE Spec => []IInv
<1>1. IInv /\ [Next]_vars => IInv'
  BY TypeStep, ClockStep, OnceStep DEF IInv
<1>2. Init => IInv
  BY IInvInit
<1>3. QED
  BY <1>1, <1>2, PTL DEF Spec

(* Steady clocks and distinct machine fields are enough for ids that are unique
   across calls and nodes.                                                      *)
THEOREM UniqueHolds == ASSUME SteadyClocks, DistinctMachines PROVE Spec => []Unique
<1>1. IInv => Unique
  BY DEF IInv, ClockInv, OnceInv, Unique, DistinctMachines
<1>2. QED
  BY <1>1, IInvHolds, PTL

(* The time and the machine of an id can be read back from it. *)
THEOREM NoIDFromTheFutureHolds == ASSUME SteadyClocks PROVE Spec => []NoIDFromTheFuture
<1>1. IInv => NoIDFromTheFuture
  BY DEF IInv, ClockInv, NoIDFromTheFuture
<1>2. QED
  BY <1>1, IInvHolds, PTL

(* The ids of a node grow in the order they are handed out. *)
THEOREM GrowingHolds == ASSUME SteadyClocks PROVE Spec => Growing
<1> DEFINE Grows ==
        \A c \in Call : pc[c] = "cas" /\ pc'[c] = "done" =>
          \A d \in Call : NodeOf[d] = NodeOf[c] /\ pc[d] = "done" => newID[d] < newID[c]
<1>1. IInv /\ [Next]_vars => [Grows]_vars
  <2> SUFFICES ASSUME IInv, Next, NEW c \in Call, pc[c] = "cas", pc'[c] = "done"
               PROVE  \A d \in Call :
                         NodeOf[d] = NodeOf[c] /\ pc[d] = "done" => newID[d] < newID[c]
    OBVIOUS
  <2>1. CompareAndSwap(c)
    BY DEF Next, Step, Load, ReadClock, CompareAndSwap, Retry, Tick, IInv, TypeOK
  <2>2. QED
    BY <2>1, SwapGrows
<1>2. QED
  BY <1>1, IInvHolds, PTL DEF Spec, Growing

-------------------------------------------------------------------------------
(* The refinement of IDSource. *)

Handed == [c \in Call |-> IF pc[c] = "done" THEN newID[c] ELSE NoID]

(* A swap that succeeds hands out an id that no call was handed. *)
LEMMA SwapHands ==
    ASSUME IInv, DistinctMachines, NEW c \in Call, CompareAndSwap(c), pc'[c] = "done"
    PROVE  IDs!Next
<1>1. /\ pc' = [pc EXCEPT ![c] = "done"] /\ pc[c] = "cas" /\ newID' = newID
      /\ \A d \in Call : pc[d] = "done" /\ NodeOf[d] = NodeOf[c] => newID[d] < newID[c]
  BY SwapGrows DEF CompareAndSwap
<1>2. \A d \in Call : newID[d] \in ID /\ newID[d] \in Nat
  BY IDsAreNaturals DEF IInv, TypeOK
<1>3. \A d \in Call : Handed[d] # NoID => pc[d] = "done" /\ Handed[d] = newID[d]
  BY DEF Handed
<1>4. Handed[c] = NoID
  BY <1>1 DEF Handed
<1>5. ASSUME NEW d \in Call, Handed[d] # NoID
      PROVE  Handed[d] # newID[c] /\ (NodeOf[d] = NodeOf[c] => Handed[d] < newID[c])
  <2>1. CASE NodeOf[d] = NodeOf[c]
    BY <1>1, <1>2, <1>3, <1>5, <2>1
  <2>2. CASE NodeOf[d] # NodeOf[c]
    <3>1. MachineIDFromID(newID[d]) # MachineIDFromID(newID[c])
      BY <1>1, <1>3, <1>5, <2>2 DEF IInv, ClockInv, DistinctMachines
    <3>2. QED
      BY <1>3, <1>5, <2>2, <3>1
  <2>3. QED
    BY <2>1, <2>2
<1>6. Handed' = [Handed EXCEPT ![c] = newID[c]]
  BY <1>1 DEF Handed, IInv, TypeOK
<1>7. PICK id \in ID : id = newID[c]
  BY <1>2
<1>8. IDs!Hand(c, id)
  BY <1>4, <1>5, <1>6, <1>7 DEF IDs!Hand, IDs!Served, Handed
<1>9. QED
  BY <1>8 DEF IDs!Next

(* Every other step hands out nothing. *)
LEMMA OthersHandNothing ==
    ASSUME IInv, [Next]_vars,
           \A c \in Call : ~(CompareAndSwap(c) /\ pc'[c] = "done")
    PROVE  UNCHANGED Handed
<1>1. ASSUME NEW c \in Call, Step(c)
      PROVE  UNCHANGED Handed
  <2>1. /\ pc[c] # "done" /\ pc'[c] # "done"
        /\ \A d \in Call \ {c} : pc'[d] = pc[d] /\ newID'[d] = newID[d]
    BY <1>1 DEF Step, Load, ReadClock, CompareAndSwap, Retry, IInv, TypeOK
  <2>2. QED
    BY <2>1 DEF Handed
<1>2. ASSUME NEW n \in Node, Tick(n)
      PROVE  UNCHANGED Handed
  BY <1>2 DEF Tick, Handed
<1>3. CASE UNCHANGED vars
  BY <1>3 DEF vars, Handed
<1>4. QED
  BY <1>1, <1>2, <1>3 DEF Next

(* The compare-and-swap loop implements the source of unique, growing ids: the
   swap that succeeds is the abstract step, all the others stutter.            *)
THEOREM ImplementsIDSourceHolds ==
    ASSUME SteadyClocks, DistinctMachines PROVE Spec => ImplementsIDSource
<1>1. Init => IDs!Init
  BY DEF Init, IDs!Init
<1>2. IInv /\ [Next]_vars => [IDs!Next]_Handed
  BY SwapHands, OthersHandNothing
<1>3. QED
  BY <1>1, <1>2, IInvHolds, PTL DEF Spec, ImplementsIDSource, IDs!Spec, Handed

===============================================================================
