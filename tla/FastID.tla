-------------------------------- MODULE FastID --------------------------------
(***************************************************************************)
(* deps/fastid: 63-bit ids made of a timestamp, a sequence number and a    *)
(* machine id, generated without a lock by concurrent calls of GenInt64ID  *)
(* on each node.  Session ids of NetMgr are such ids, and its login        *)
(* timeout reads the time back from them.                                  *)
(*                                                                         *)
(* Ids are integers and are packed and unpacked by arithmetic, as in the   *)
(* code; a bit field of b bits is a factor 2^b (40, 10 and 13 bits in      *)
(* CommonConfig).  clock is the wall clock in units of 2^20 ns since the   *)
(* epoch of the package; it may be set back (NTP, an operator).            *)
(***************************************************************************)
EXTENDS Integers

CONSTANTS Node, Call,
          NodeOf,      \* the node each call runs on
          Address,     \* what getMachineID returns on each node
          TimeSize, SeqSize, MachineSize,
          Horizon,     \* bound: the last clock value modelled
          Lead,        \* bound: how far a clock runs ahead of the node's last id
          MayStepBack  \* whether a wall clock may be set back

ASSUME FastIDAssumption ==
    /\ NodeOf \in [Call -> Node]
    /\ Address \in [Node -> Nat]
    /\ TimeSize \in Nat \ {0} /\ SeqSize \in Nat \ {0} /\ MachineSize \in Nat \ {0}
    /\ Horizon \in Nat \ {0} /\ Lead \in Nat \ {0}
    /\ MayStepBack \in BOOLEAN

TickSize == SeqSize * MachineSize
ID == 0 .. (TimeSize * TickSize - 1)

VARIABLES lastID, \* Config.lastID of each node
          clock,  \* the wall clock of each node
          pc,     \* progress of each call
          local,  \* localLastID of each call
          newID   \* newID of each call; what it returned once pc is "done"

vars == <<lastID, clock, pc, local, newID>>

TypeOK ==
    /\ lastID \in [Node -> ID]
    /\ clock \in [Node -> 1 .. Horizon]
    /\ pc \in [Call -> {"load", "clock", "cas", "done"}]
    /\ local \in [Call -> ID]
    /\ newID \in [Call -> ID]

Init ==
    /\ lastID = [n \in Node |-> 0]
    /\ clock = [n \in Node |-> 1]
    /\ pc = [c \in Call |-> "load"]
    /\ local = [c \in Call |-> 0]
    /\ newID = [c \in Call |-> 0]

(* Mutated forms; only the mutation runs use them. *)
WholeAddress(n) == Address[n]
ExhaustedLate(seq) == seq > SeqSize - 1
SameSeq(id, now) == IF now > id \div TickSize THEN 0 ELSE (id \div MachineSize) % SeqSize
StoreBlindly(c) == TRUE
RetryStale(c) == pc' = [pc EXCEPT ![c] = "clock"]

-------------------------------------------------------------------------------

SeqFromID(id) == (id \div MachineSize) % SeqSize
TimeFromID(id) == id \div TickSize
MachineIDFromID(id) == id % MachineSize

MachineID(n) == Address[n] % MachineSize

Pack(n, time, seq) == time * TickSize + seq * MachineSize + MachineID(n)

CurrentTimestamp(n) == clock[n] % TimeSize

Exhausted(seq) == seq >= SeqSize - 1

NextSeq(id, now) == IF now > TimeFromID(id) THEN 0 ELSE SeqFromID(id) + 1

(* After a sleep, the loop starts over. *)
Retry(c) == pc' = [pc EXCEPT ![c] = "load"]

Load(c) ==
    /\ pc[c] = "load"
    /\ local' = [local EXCEPT ![c] = lastID[NodeOf[c]]]
    /\ pc' = [pc EXCEPT ![c] = "clock"]
    /\ UNCHANGED <<lastID, clock, newID>>

ReadClock(c) ==
    LET now == CurrentTimestamp(NodeOf[c])
        mustWait == now <= TimeFromID(local[c]) /\ Exhausted(SeqFromID(local[c]))
    IN  /\ pc[c] = "clock"
        /\ \/ mustWait /\ Retry(c) /\ UNCHANGED newID
           \/ /\ ~mustWait
              /\ newID' = [newID EXCEPT ![c] = Pack(NodeOf[c], now, NextSeq(local[c], now))]
              /\ pc' = [pc EXCEPT ![c] = "cas"]
        /\ UNCHANGED <<lastID, clock, local>>

(* The comparison of CompareAndSwapInt64. *)
Swappable(c) == lastID[NodeOf[c]] = local[c]

CompareAndSwap(c) ==
    /\ pc[c] = "cas"
    /\ \/ /\ Swappable(c)
          /\ lastID' = [lastID EXCEPT ![NodeOf[c]] = newID[c]]
          /\ pc' = [pc EXCEPT ![c] = "done"]
       \/ ~Swappable(c) /\ Retry(c) /\ UNCHANGED lastID
    /\ UNCHANGED <<clock, local, newID>>

(* What time.Now may show next on n. *)
NextReadings(n) ==
    {t \in 1 .. Horizon :
        \/ t = clock[n] + 1 /\ clock[n] < TimeFromID(lastID[n]) + Lead
        \/ t = clock[n] - 1 /\ MayStepBack}

Tick(n) ==
    /\ \E t \in NextReadings(n) : clock' = [clock EXCEPT ![n] = t]
    /\ UNCHANGED <<lastID, pc, local, newID>>

Step(c) == Load(c) \/ ReadClock(c) \/ CompareAndSwap(c)

Next ==
    \/ \E c \in Call : Step(c)
    \/ \E n \in Node : Tick(n)

Spec == Init /\ [][Next]_vars

(* Goroutines run, and time passes. *)
FairSpec ==
    /\ Spec
    /\ \A c \in Call : WF_vars(Step(c))
    /\ \A n \in Node : WF_vars(Tick(n))

-------------------------------------------------------------------------------
(* What a deployment must provide: clocks that never go back nor reach the end
   of the timestamp field, and node addresses that differ in their low bits.   *)
SteadyClocks == ~MayStepBack /\ Horizon < TimeSize
DistinctMachines == \A n, m \in Node : MachineID(n) = MachineID(m) => n = m

(* "GenInt64ID generates unique int64 IDs": no two calls return one id, on one
   node (the CAS) or on two (the machine field).                              *)
Unique ==
    \A c, d \in Call : pc[c] = "done" /\ pc[d] = "done" /\ newID[c] = newID[d] => c = d

(* The time read back from an id has come: a sequence number never carries into
   the timestamp, even when more ids are asked for than a tick has.  NetMgr
   measures the age of a session by it.                                        *)
NoIDFromTheFuture ==
    \A c \in Call :
        pc[c] = "done" => /\ TimeFromID(newID[c]) <= clock[NodeOf[c]]
                          /\ MachineIDFromID(newID[c]) = MachineID(NodeOf[c])

(* "k-ordered": the ids a node hands out grow, in the order of the CASes. *)
Growing ==
    [][\A c \in Call : pc[c] = "cas" /\ pc'[c] = "done" =>
          \A d \in Call : NodeOf[d] = NodeOf[c] /\ pc[d] = "done" => newID[d] < newID[c]]_vars

NoID == -1

IDs == INSTANCE IDSource WITH
           handed <- [c \in Call |-> IF pc[c] = "done" THEN newID[c] ELSE NoID]

(* GenInt64ID with its retries is a source that hands out, in one step each, ids
   that are all different and that grow on each node.                            *)
ImplementsIDSource == IDs!Spec

(* Every call returns: it retries only when another call got an id, or until the
   clock has passed the exhausted tick.                                          *)
EveryCallReturns == \A c \in Call : <>(pc[c] = "done")

===============================================================================
