------------------------------ MODULE ServerProofs ------------------------------
(***************************************************************************)
(* Proofs about Server, for any processes, services, configurations and    *)
(* requests: the order in which services start and stop, and what holds of *)
(* stores, sockets and the etcd entry on the way.                          *)
(***************************************************************************)
EXTENDS Server, SequenceTheorems, WellFoundedInduction, TLAPS

USE ServerAssumption

(* A set of services has a first and a last one. *)
LEMMA MinExists ==
    ASSUME NEW K, K \subseteq Nat, K # {}
    PROVE  \E k \in K : \A j \in K : k <= j
<1>1. PICK k \in K : \A j \in K : ~(<<j, k>> \in OpToRel(<, Nat))
  BY WFMin, NatLessThanWellFounded, Zenon
<1>2. \A j \in K : ~(j < k)
  BY <1>1, Zenon DEF OpToRel
<1>3. QED
  BY <1>2

LEMMA FirstIsFirst ==
    ASSUME NEW K, K \subseteq Nat, K # {}
    PROVE  First(K) \in K /\ \A j \in K : First(K) <= j
BY MinExists DEF First

LEMMA LastIsLast ==
    ASSUME NEW n \in Nat, NEW K, K \subseteq 1 .. n, K # {}
    PROVE  Last(K) \in K /\ \A j \in K : j <= Last(K)
<1> DEFINE T == {n - k : k \in K}
<1>1. T \subseteq Nat /\ T # {}
  <2>1. \A k \in K : n - k \in Nat
    OBVIOUS
  <2>2. PICK k \in K : TRUE
    OBVIOUS
  <2>3. n - k \in T
    OBVIOUS
  <2>4. QED
    BY <2>1, <2>3
<1>2. PICK t \in T : \A u \in T : t <= u
  BY <1>1, MinExists
<1>3. PICK k \in K : t = n - k
  OBVIOUS
<1>4. \A j \in K : n - k <= n - j
  BY <1>2, <1>3
<1>5. \A j \in K : j <= k
  BY <1>4
<1>6. QED
  BY <1>5 DEF Last

-------------------------------------------------------------------------------
(* The inductive invariant, for each process. *)

(* How far the services are: none before the start, a prefix started during it, all
   while requests are served, a suffix stopped during the stop, with one service at
   most on its way up or down.                                                       *)
Ordered(p) ==
    /\ pc[p] \in {"load", "redis", "mongo", "registry", "register", "keepalive"} =>
          \A k \in DOMAIN ServicesOf[p] : svc[p][k] = "new"
    /\ pc[p] = "start" =>
          \A k \in DOMAIN ServicesOf[p] :
             /\ svc[p][k] \in Beginning \cup {"started"}
             /\ svc[p][k] # "new" => \A j \in DOMAIN ServicesOf[p] : j < k => svc[p][j] = "started"
    /\ pc[p] \in {"serve", "shutdown"} =>
          \A k \in DOMAIN ServicesOf[p] : svc[p][k] = "started"
    /\ pc[p] = "stopping" =>
          \A k \in DOMAIN ServicesOf[p] :
             /\ svc[p][k] \in Up \cup {"stopped"}
             /\ svc[p][k] # "started" => \A j \in DOMAIN ServicesOf[p] : k < j => svc[p][j] = "stopped"
    /\ pc[p] = "deferred" \/ (pc[p] = "exited" /\ p \notin crashed) =>
          p \in failed \/ \A k \in DOMAIN ServicesOf[p] : svc[p][k] \in {"new", "stopped"}

(* What the sockets say of the services and of Run; only a gate stands between two
   listeners.                                                                      *)
Listens(p) ==
    /\ pc[p] # "exited" =>
          \A k \in DOMAIN ServicesOf[p] : ServicesOf[p][k] = "gate" =>
             /\ <<p, "tcp">> \in sockets <=> svc[p][k] \in {"half", "started", "draining"}
             /\ <<p, "grpc">> \in sockets <=> svc[p][k] = "started"
    /\ \A k \in DOMAIN ServicesOf[p] :
          svc[p][k] \in {"half", "undoing", "draining", "waiting"} => ServicesOf[p][k] = "gate"
    /\ <<p, "tcp">> \in sockets \/ <<p, "grpc">> \in sockets =>
          \E k \in DOMAIN ServicesOf[p] : ServicesOf[p][k] = "gate"
    /\ <<p, "http">> \in sockets => pc[p] = "serve"

(* Requests that Shutdown waits for keep Run where it serves or shuts down. *)
Waits(p) ==
    p \notin hurried /\ inflight[p] \ Hijacked # {} =>
        \/ pc[p] = "serve" /\ <<p, "http">> \in sockets
        \/ pc[p] = "shutdown"

(* Run has opened a store once it is past it, and has deferred nothing else. *)
Past(store) ==
    {"register", "keepalive", "start", "serve", "shutdown", "stopping"}
    \cup {state \in {"mongo", "registry"} : store = "redis"}
    \cup {state \in {"registry"} : store = "mongo"}

Opened(p) ==
    /\ \A store \in Store : pc[p] \in Past(store) /\ Uses(cfg[p], store) =>
          \E i \in DOMAIN defers[p] : defers[p][i] = store
    /\ pc[p] \in {"load", "redis"} => Len(defers[p]) = 0
    /\ pc[p] = "mongo" => Len(defers[p]) <= 1
    /\ pc[p] = "registry" => Len(defers[p]) <= 2

(* From the start of the services on, a lease that was never lost is kept alive. *)
Registered(p) ==
    /\ pc[p] \in {"start", "serve", "shutdown", "stopping"} /\ HasEtcd(cfg[p]) /\ p \notin signalled \cup lost
    => p \in entry /\ p \in renewing

IInv ==
    /\ TypeOK
    /\ \A p \in Proc : Ordered(p) /\ Listens(p) /\ Waits(p) /\ Opened(p) /\ Registered(p)

-------------------------------------------------------------------------------
(* A step of one process leaves the others alone. *)

Same(p) ==
    /\ pc'[p] = pc[p] /\ cfg'[p] = cfg[p] /\ given'[p] = given[p] /\ svc'[p] = svc[p]
    /\ defers'[p] = defers[p] /\ inflight'[p] = inflight[p]
    /\ \A kind : <<p, kind>> \in sockets' <=> <<p, kind>> \in sockets
    /\ p \in signalled' <=> p \in signalled
    /\ p \in entry' <=> p \in entry
    /\ p \in renewing' <=> p \in renewing
    /\ p \in hurried' <=> p \in hurried
    /\ p \in failed' <=> p \in failed
    /\ p \in crashed' <=> p \in crashed
    /\ p \in lost' <=> p \in lost

LEMMA OthersStay ==
    ASSUME TypeOK, NEW p \in Proc, NEW q \in Proc, p # q, Move(q)
    PROVE  Same(p)
<1> USE DEF TypeOK, Same, Goto, At, etcd, history
<1>1. CASE LoadConfig(q) \/ \E store \in Store : OpenStore(q, store) \/ SkipStore(q, store) \/ OpenStoreFails(q, store)
  BY <1>1 DEF LoadConfig, OpenStore, SkipStore, OpenStoreFails
<1>2. CASE PutEntry(q) \/ StartKeepAlive(q) \/ RegisterFails(q)
  BY <1>2 DEF PutEntry, StartKeepAlive, Renewed, RegisterFails
<1>3. CASE InitService(q) \/ StartPlain(q)
  BY <1>3 DEF InitService, StartPlain, Starting
<1>4. CASE ListenTCP(q) \/ ListenGRPC(q) \/ UndoTCP(q)
  BY <1>4 DEF ListenTCP, ListenGRPC, GateListens, UndoTCP, WithoutTCP, Starting
<1>5. CASE StartFails(q) \/ AllStarted(q) \/ BeginShutdown(q)
  BY <1>5 DEF StartFails, AllStarted, BeginShutdown
<1>6. CASE ShutdownReturns(q) \/ ShutdownTimesOut(q) \/ AllStopped(q)
  BY <1>6 DEF ShutdownReturns, ShutdownTimesOut, AllStopped
<1>7. CASE CloseGRPC(q) \/ CloseTCP(q) \/ StopService(q) \/ StopFails(q)
  BY <1>7 DEF CloseGRPC, CloseTCP, WithoutTCP, StopService, StopFails
<1>8. CASE RunDeferred(q)
  BY <1>8 DEF RunDeferred
<1>9. CASE Return(q) \/ Crash(q)
  BY <1>9 DEF Return, Crash, Ends
<1>10. CASE ListenHTTP(q) \/ ServeFails(q) \/ Signal(q)
  BY <1>10 DEF ListenHTTP, ServeFails, Signal
<1>11. CASE \E r \in Request : BeginRequest(q, r) \/ EndRequest(q, r)
  BY <1>11 DEF BeginRequest, EndRequest
<1>12. CASE LeaseExpires(q) \/ LoseKeepAlive(q)
  BY <1>12 DEF LeaseExpires, LoseKeepAlive
<1>13. QED
  BY <1>1, <1>2, <1>3, <1>4, <1>5, <1>6, <1>7, <1>8, <1>9, <1>10, <1>11, <1>12 DEF Move, Step

LEMMA SameKeeps ==
    ASSUME NEW p \in Proc, Same(p)
    PROVE  /\ Ordered(p) => Ordered(p)'
           /\ Listens(p) => Listens(p)'
           /\ Waits(p) => Waits(p)'
           /\ Opened(p) => Opened(p)'
           /\ Registered(p) => Registered(p)'
<1>1. Ordered(p) => Ordered(p)'
  BY DEF Ordered, Same
<1>2. Listens(p) => Listens(p)'
  BY DEF Listens, Same
<1>3. Waits(p) => Waits(p)'
  BY DEF Waits, Same
<1>4. Opened(p) => Opened(p)'
  BY DEF Opened, Same
<1>5. Registered(p) => Registered(p)'
  BY DEF Registered, Same
<1>6. QED
  BY <1>1, <1>2, <1>3, <1>4, <1>5

-------------------------------------------------------------------------------
(* The steps of the process itself. *)

(* The service being started is the first that is not started yet. *)
LEMMA CurrentIsFirst ==
    ASSUME NEW p \in Proc, InState(p, Beginning) # {}
    PROVE  /\ Current(p) \in DOMAIN ServicesOf[p]
           /\ svc[p][Current(p)] \in Beginning
           /\ \A j \in DOMAIN ServicesOf[p] : j < Current(p) => svc[p][j] \notin Beginning
<1> DEFINE K == InState(p, Beginning)
<1>1. K \subseteq 1 .. Len(ServicesOf[p])
  BY DEF InState
<1>2. First(K) \in K /\ \A j \in K : First(K) <= j
  BY <1>1, FirstIsFirst
<1>3. Current(p) \in K /\ \A j \in K : Current(p) <= j
  BY <1>2 DEF Current
<1>4. DOMAIN ServicesOf[p] = 1 .. Len(ServicesOf[p]) /\ Len(ServicesOf[p]) \in Nat
  OBVIOUS
<1>5. ASSUME NEW j \in DOMAIN ServicesOf[p], j < Current(p)
      PROVE  j \notin K
  BY <1>1, <1>3, <1>4, <1>5
<1>6. QED
  BY <1>3, <1>5, Zenon DEF InState

(* The service being stopped is the last one that has not stopped. *)
LEMMA NextIsLast ==
    ASSUME NEW p \in Proc, InState(p, Up) # {}
    PROVE  /\ NextToStop(p) \in DOMAIN ServicesOf[p]
           /\ svc[p][NextToStop(p)] \in Up
           /\ \A j \in DOMAIN ServicesOf[p] : NextToStop(p) < j => svc[p][j] \notin Up
<1> DEFINE K == InState(p, Up)
<1>1. K \subseteq 1 .. Len(ServicesOf[p]) /\ Len(ServicesOf[p]) \in Nat
  BY DEF InState
<1>2. Last(K) \in K /\ \A j \in K : j <= Last(K)
  BY <1>1, LastIsLast
<1>3. NextToStop(p) \in K /\ \A j \in K : j <= NextToStop(p)
  BY <1>2 DEF NextToStop
<1>4. DOMAIN ServicesOf[p] = 1 .. Len(ServicesOf[p])
  OBVIOUS
<1>5. ASSUME NEW j \in DOMAIN ServicesOf[p], NextToStop(p) < j
      PROVE  j \notin K
  BY <1>1, <1>3, <1>4, <1>5
<1>6. QED
  BY <1>3, <1>5, Zenon DEF InState

LEMMA OrderedStep ==
    ASSUME TypeOK, NEW p \in Proc, Ordered(p), Move(p)
    PROVE  Ordered(p)'
<1> USE DEF TypeOK, ServiceState, Beginning, Up, Ordered, Goto, At, history
<1>1. CASE LoadConfig(p) \/ \E store \in Store : OpenStore(p, store) \/ SkipStore(p, store) \/ OpenStoreFails(p, store)
  BY <1>1 DEF LoadConfig, OpenStore, SkipStore, OpenStoreFails, Store, AfterStore
<1>2. CASE PutEntry(p) \/ StartKeepAlive(p) \/ RegisterFails(p)
  BY <1>2 DEF PutEntry, StartKeepAlive, RegisterFails
<1>3. ASSUME NEW from, Starting(p, from),
             NEW state \in Beginning \cup {"started"}, state # "new", At(p, Current(p), state),
             UNCHANGED <<pc, failed, crashed>>
      PROVE  Ordered(p)'
  <2>1. /\ Current(p) \in DOMAIN ServicesOf[p] /\ svc[p][Current(p)] # "started"
        /\ \A j \in DOMAIN ServicesOf[p] : j < Current(p) => svc[p][j] = "started"
    BY <1>3, CurrentIsFirst DEF Starting
  <2>2. QED
    BY <1>3, <2>1 DEF Starting
<1>4. CASE InitService(p) \/ StartPlain(p)
  BY <1>3, <1>4 DEF InitService, StartPlain
<1>5. CASE ListenTCP(p) \/ ListenGRPC(p) \/ UndoTCP(p)
  BY <1>3, <1>5 DEF ListenTCP, ListenGRPC, GateListens, UndoTCP
<1>6. CASE StartFails(p) \/ AllStarted(p) \/ BeginShutdown(p)
  BY <1>6 DEF StartFails, Starting, AllStarted, BeginShutdown, InState
<1>7. CASE ShutdownReturns(p) \/ ShutdownTimesOut(p)
  BY <1>7 DEF ShutdownReturns, ShutdownTimesOut
<1>8. CASE CloseGRPC(p) \/ CloseTCP(p) \/ StopService(p)
  <2>1. /\ NextToStop(p) \in DOMAIN ServicesOf[p] /\ svc[p][NextToStop(p)] \in Up
        /\ \A j \in DOMAIN ServicesOf[p] : NextToStop(p) < j => svc[p][j] = "stopped"
        /\ pc[p] = "stopping" /\ UNCHANGED <<pc, failed, crashed>>
    BY <1>8, NextIsLast DEF CloseGRPC, CloseTCP, StopService, Stopping
  <2>2. PICK state \in {"draining", "waiting", "stopped"} : At(p, NextToStop(p), state)
    BY <1>8 DEF CloseGRPC, CloseTCP, StopService
  <2>3. QED
    BY <2>1, <2>2
<1>9. CASE StopFails(p) \/ AllStopped(p)
  BY <1>9 DEF StopFails, AllStopped, Unstopped, InState
<1>10. CASE RunDeferred(p) \/ Return(p) \/ Crash(p)
  BY <1>10 DEF RunDeferred, Return, Crash, Ends
<1>11. CASE ListenHTTP(p) \/ ServeFails(p) \/ Signal(p)
  BY <1>11 DEF ListenHTTP, ServeFails, Signal
<1>12. CASE (\E r \in Request : BeginRequest(p, r) \/ EndRequest(p, r)) \/ LeaseExpires(p) \/ LoseKeepAlive(p)
  BY <1>12 DEF BeginRequest, EndRequest, LeaseExpires, LoseKeepAlive
<1>13. QED
  BY <1>1, <1>2, <1>4, <1>5, <1>6, <1>7, <1>8, <1>9, <1>10, <1>11, <1>12 DEF Move, Step


LEMMA AtSets ==
    ASSUME TypeOK, NEW p \in Proc, NEW k \in DOMAIN ServicesOf[p], NEW state, At(p, k, state)
    PROVE  svc'[p][k] = state /\ \A j \in DOMAIN ServicesOf[p] \ {k} : svc'[p][j] = svc[p][j]
BY DEF TypeOK, At

(* Only the gate's own steps touch its sockets, and there is one gate. *)
LEMMA ListensStep ==
    ASSUME TypeOK, NEW p \in Proc, Ordered(p), Listens(p), Move(p)
    PROVE  Listens(p)'
<1> USE DEF TypeOK, Beginning, Up, Listens, Goto, history
<1>1. CASE LoadConfig(p) \/ \E store \in Store : OpenStore(p, store) \/ SkipStore(p, store) \/ OpenStoreFails(p, store)
  BY <1>1 DEF LoadConfig, OpenStore, SkipStore, OpenStoreFails, Store, AfterStore
<1>2. CASE PutEntry(p) \/ StartKeepAlive(p) \/ RegisterFails(p)
  BY <1>2 DEF PutEntry, StartKeepAlive, RegisterFails
<1>3. CASE InitService(p) \/ StartPlain(p)
  <2>1. Current(p) \in DOMAIN ServicesOf[p]
    BY <1>3, CurrentIsFirst DEF InitService, StartPlain, Starting
  <2>2. PICK state \in {"inited", "started"} : At(p, Current(p), state)
    BY <1>3 DEF InitService, StartPlain
  <2>3. svc'[p][Current(p)] \in {"inited", "started"} /\ \A j \in DOMAIN ServicesOf[p] \ {Current(p)} : svc'[p][j] = svc[p][j]
    BY <2>1, <2>2, AtSets
  <2>4. svc[p][Current(p)] \in {"new", "inited"} /\ UNCHANGED <<pc, sockets>> /\ pc[p] = "start"
        /\ (svc'[p][Current(p)] = "started" => ServicesOf[p][Current(p)] # "gate")
    BY <1>3, <2>1, AtSets DEF InitService, StartPlain, Starting, Kind_
  <2>5. QED
    BY <2>1, <2>3, <2>4
<1>4. CASE ListenTCP(p) \/ ListenGRPC(p)
  <2>1. Current(p) \in DOMAIN ServicesOf[p] /\ ServicesOf[p][Current(p)] = "gate"
    BY <1>4, CurrentIsFirst DEF ListenTCP, ListenGRPC, GateListens, Starting, Kind_
  <2>2. \A k \in DOMAIN ServicesOf[p] : ServicesOf[p][k] = "gate" => k = Current(p)
    BY <2>1
  <2>3. CASE ListenTCP(p)
    <3>1. svc'[p][Current(p)] = "half" /\ \A j \in DOMAIN ServicesOf[p] \ {Current(p)} : svc'[p][j] = svc[p][j]
      BY <2>1, <2>3, AtSets DEF ListenTCP, ListenGRPC, GateListens
    <3>2. QED
      BY <2>1, <2>2, <2>3, <3>1 DEF ListenTCP, ListenGRPC, GateListens, Starting
  <2>4. CASE ListenGRPC(p)
    <3>1. svc'[p][Current(p)] = "started" /\ \A j \in DOMAIN ServicesOf[p] \ {Current(p)} : svc'[p][j] = svc[p][j]
      BY <2>1, <2>4, AtSets DEF ListenTCP, ListenGRPC, GateListens
    <3>2. QED
      BY <2>1, <2>2, <2>4, <3>1 DEF ListenTCP, ListenGRPC, GateListens, Starting
  <2>5. QED
    BY <1>4, <2>3, <2>4
<1>5. CASE UndoTCP(p)
  <2>1. Current(p) \in DOMAIN ServicesOf[p] /\ svc[p][Current(p)] = "half" /\ pc' = pc
    BY <1>5, CurrentIsFirst DEF UndoTCP, Starting
  <2>2. svc'[p][Current(p)] = "undoing" /\ \A j \in DOMAIN ServicesOf[p] \ {Current(p)} : svc'[p][j] = svc[p][j]
    BY <1>5, <2>1, AtSets DEF UndoTCP
  <2>3. \A k \in DOMAIN ServicesOf[p] : ServicesOf[p][k] = "gate" <=> k = Current(p)
    BY <2>1
  <2>4. QED
    BY <1>5, <2>1, <2>2, <2>3 DEF UndoTCP, WithoutTCP
<1>6. CASE StartFails(p) \/ AllStarted(p) \/ BeginShutdown(p) \/ ShutdownReturns(p) \/ ShutdownTimesOut(p)
  BY <1>6 DEF StartFails, Starting, AllStarted, BeginShutdown, ShutdownReturns, ShutdownTimesOut
<1>7. CASE CloseGRPC(p) \/ CloseTCP(p) \/ StopService(p) \/ StopFails(p)
  <2>1. NextToStop(p) \in DOMAIN ServicesOf[p] /\ pc[p] = "stopping" /\ pc'[p] \in {"stopping", "deferred"}
    BY <1>7, NextIsLast DEF CloseGRPC, CloseTCP, StopService, StopFails, Stopping
  <2>2. CASE UNCHANGED <<svc, sockets>>
    BY <2>1, <2>2
  <2>3. ASSUME NEW state, At(p, NextToStop(p), state)
        PROVE  /\ svc'[p][NextToStop(p)] = state
               /\ \A j \in DOMAIN ServicesOf[p] \ {NextToStop(p)} : svc'[p][j] = svc[p][j]
    BY <2>1, <2>3, AtSets
  <2>4. CASE CloseGRPC(p)
    <3>1. svc'[p][NextToStop(p)] = "draining" /\ svc[p][NextToStop(p)] = "started"
          /\ \A k \in DOMAIN ServicesOf[p] : ServicesOf[p][k] = "gate" <=> k = NextToStop(p)
      BY <2>1, <2>3, <2>4 DEF CloseGRPC, Stopping
    <3>2. QED
      BY <2>1, <2>3, <2>4, <3>1 DEF CloseGRPC
  <2>5. CASE CloseTCP(p)
    <3>1. svc'[p][NextToStop(p)] = "waiting" /\ svc[p][NextToStop(p)] = "draining"
          /\ \A k \in DOMAIN ServicesOf[p] : ServicesOf[p][k] = "gate" <=> k = NextToStop(p)
      BY <2>1, <2>3, <2>5 DEF CloseTCP, Stopping
    <3>2. QED
      BY <2>1, <2>3, <2>5, <3>1 DEF CloseTCP, WithoutTCP
  <2>6. CASE Stopping(p, Ready(p)) /\ At(p, NextToStop(p), "stopped") /\ sockets' = sockets
    <3>1. svc'[p][NextToStop(p)] = "stopped"
          /\ \A j \in DOMAIN ServicesOf[p] \ {NextToStop(p)} : svc'[p][j] = svc[p][j]
      BY <2>3, <2>6
    <3>2. ServicesOf[p][NextToStop(p)] = "gate" => svc[p][NextToStop(p)] = "waiting"
      BY <2>6 DEF Stopping, Ready
    <3>3. QED
      BY <2>1, <2>6, <3>1, <3>2
  <2>7. QED
    BY <1>7, <2>2, <2>4, <2>5, <2>6 DEF StopService, StopFails
<1>8. CASE AllStopped(p) \/ RunDeferred(p) \/ Return(p) \/ Crash(p)
  BY <1>8 DEF AllStopped, RunDeferred, Return, Crash, Ends
<1>9. CASE ListenHTTP(p) \/ ServeFails(p) \/ Signal(p)
  BY <1>9 DEF ListenHTTP, ServeFails, Signal
<1>10. CASE (\E r \in Request : BeginRequest(p, r) \/ EndRequest(p, r)) \/ LeaseExpires(p) \/ LoseKeepAlive(p)
  BY <1>10 DEF BeginRequest, EndRequest, LeaseExpires, LoseKeepAlive
<1>11. QED
  BY <1>1, <1>2, <1>3, <1>4, <1>5, <1>6, <1>7, <1>8, <1>9, <1>10 DEF Move, Step

(* Shutdown drains what it waits for, and nothing arrives after it. *)
LEMMA WaitsStep ==
    ASSUME TypeOK, NEW p \in Proc, Listens(p), Waits(p), Move(p)
    PROVE  Waits(p)'
<1> USE DEF TypeOK, Waits, Goto, history
<1>1. CASE LoadConfig(p) \/ \E store \in Store : OpenStore(p, store) \/ SkipStore(p, store) \/ OpenStoreFails(p, store)
  BY <1>1 DEF LoadConfig, OpenStore, SkipStore, OpenStoreFails, Store
<1>2. CASE PutEntry(p) \/ StartKeepAlive(p) \/ RegisterFails(p)
  BY <1>2 DEF PutEntry, StartKeepAlive, RegisterFails
<1>3. CASE InitService(p) \/ StartPlain(p) \/ StartFails(p) \/ AllStarted(p)
  BY <1>3 DEF InitService, StartPlain, Starting, StartFails, AllStarted
<1>4. CASE ListenTCP(p) \/ ListenGRPC(p) \/ UndoTCP(p)
  BY <1>4 DEF ListenTCP, ListenGRPC, GateListens, UndoTCP, WithoutTCP, Starting
<1>5. CASE ListenHTTP(p) \/ ServeFails(p) \/ Signal(p)
  BY <1>5 DEF ListenHTTP, ServeFails, Signal
<1>6. CASE BeginShutdown(p) \/ ShutdownReturns(p) \/ ShutdownTimesOut(p)
  BY <1>6 DEF BeginShutdown, ShutdownReturns, ShutdownTimesOut, Drained
<1>7. CASE CloseGRPC(p) \/ CloseTCP(p) \/ StopService(p) \/ StopFails(p) \/ AllStopped(p) \/ RunDeferred(p)
  BY <1>7 DEF CloseGRPC, CloseTCP, WithoutTCP, StopService, StopFails, Stopping, AllStopped, RunDeferred
<1>8. CASE Return(p) \/ Crash(p)
  BY <1>8 DEF Return, Crash, Ends
<1>9. ASSUME NEW r \in Request, BeginRequest(p, r) \/ EndRequest(p, r)
      PROVE  Waits(p)'
  BY <1>9 DEF BeginRequest, EndRequest, Reachable, Listens
<1>10. CASE LeaseExpires(p) \/ LoseKeepAlive(p)
  BY <1>10 DEF LeaseExpires, LoseKeepAlive
<1>11. QED
  BY <1>1, <1>2, <1>3, <1>4, <1>5, <1>6, <1>7, <1>8, <1>9, <1>10 DEF Move, Step

LEMMA RegisteredStep ==
    ASSUME TypeOK, NEW p \in Proc, Registered(p), Move(p)
    PROVE  Registered(p)'
<1> USE DEF TypeOK, Registered, Goto, etcd, history
<1>1. CASE LoadConfig(p) \/ \E store \in Store : OpenStore(p, store) \/ SkipStore(p, store) \/ OpenStoreFails(p, store)
  BY <1>1 DEF LoadConfig, OpenStore, SkipStore, OpenStoreFails, Store, AfterStore, Uses
<1>2. CASE PutEntry(p) \/ StartKeepAlive(p) \/ RegisterFails(p)
  BY <1>2 DEF PutEntry, StartKeepAlive, Renewed, RegisterFails
<1>3. CASE InitService(p) \/ StartPlain(p) \/ StartFails(p) \/ AllStarted(p)
  BY <1>3 DEF InitService, StartPlain, Starting, StartFails, AllStarted
<1>4. CASE ListenTCP(p) \/ ListenGRPC(p) \/ UndoTCP(p)
  BY <1>4 DEF ListenTCP, ListenGRPC, GateListens, UndoTCP, WithoutTCP, Starting
<1>5. CASE ListenHTTP(p) \/ ServeFails(p) \/ Signal(p)
  BY <1>5 DEF ListenHTTP, ServeFails, Signal
<1>6. CASE BeginShutdown(p) \/ ShutdownReturns(p) \/ ShutdownTimesOut(p)
  BY <1>6 DEF BeginShutdown, ShutdownReturns, ShutdownTimesOut
<1>7. CASE CloseGRPC(p) \/ CloseTCP(p) \/ StopService(p) \/ StopFails(p) \/ AllStopped(p) \/ RunDeferred(p)
  BY <1>7 DEF CloseGRPC, CloseTCP, WithoutTCP, StopService, StopFails, Stopping, AllStopped, RunDeferred
<1>8. CASE Return(p) \/ Crash(p)
  BY <1>8 DEF Return, Crash, Ends
<1>9. CASE \E r \in Request : BeginRequest(p, r) \/ EndRequest(p, r)
  BY <1>9 DEF BeginRequest, EndRequest
<1>10. CASE LeaseExpires(p) \/ LoseKeepAlive(p)
  BY <1>10 DEF LeaseExpires, LoseKeepAlive, MayExpire
<1>11. QED
  BY <1>1, <1>2, <1>3, <1>4, <1>5, <1>6, <1>7, <1>8, <1>9, <1>10 DEF Move, Step


LEMMA OpenedStep ==
    ASSUME TypeOK, NEW p \in Proc, Opened(p), Move(p)
    PROVE  Opened(p)'
<1> USE DEF TypeOK, Opened, Goto, history
<1>1. CASE LoadConfig(p)
  <2>1. pc[p] = "load" /\ pc'[p] \in {"redis", "deferred"} /\ defers' = defers
    BY <1>1 DEF LoadConfig
  <2>2. \A store \in Store : pc'[p] \notin Past(store)
    BY <2>1 DEF Past
  <2>3. QED
    BY <2>1, <2>2
<1>2. ASSUME NEW store \in Store, OpenStore(p, store)
      PROVE  Opened(p)'
  <2>1. /\ defers'[p] = Append(defers[p], store)
        /\ pc'[p] = AfterStore[store] /\ pc[p] = store /\ cfg' = cfg
    BY <1>2 DEF OpenStore
  <2>2. Len(defers'[p]) = Len(defers[p]) + 1 /\ defers'[p][Len(defers[p]) + 1] = store
    BY <2>1 DEF Store
  <2>3. \A i \in DOMAIN defers[p] : i \in DOMAIN defers'[p] /\ defers'[p][i] = defers[p][i]
    BY <2>1
  <2>4. Len(defers[p]) + 1 \in DOMAIN defers'[p]
    BY <2>1
  <2>5. \A other \in Store : pc'[p] \in Past(other) => other = store \/ pc[p] \in Past(other)
    BY <2>1 DEF Store, AfterStore, Past
  <2>6. \A other \in Store : pc'[p] \in Past(other) /\ Uses(cfg[p], other) =>
           \E i \in DOMAIN defers'[p] : defers'[p][i] = other
    BY <2>2, <2>3, <2>4, <2>5
  <2>7. (pc'[p] = "mongo" => pc[p] = "redis") /\ (pc'[p] = "registry" => pc[p] = "mongo")
        /\ pc'[p] \notin {"load", "redis"}
    BY <2>1 DEF Store, AfterStore
  <2>8. Len(defers[p]) \in Nat
    OBVIOUS
  <2>9. /\ pc'[p] = "mongo" => Len(defers'[p]) <= 1
        /\ pc'[p] = "registry" => Len(defers'[p]) <= 2
    BY <2>2, <2>7, <2>8
  <2>10. QED
    BY <2>1, <2>6, <2>7, <2>9
<1>3. ASSUME NEW store \in Store, SkipStore(p, store) \/ OpenStoreFails(p, store)
      PROVE  Opened(p)'
  <2>1. UNCHANGED <<cfg, defers>> /\ Len(defers[p]) \in Nat
    BY <1>3 DEF SkipStore, OpenStoreFails
  <2>2. \A other \in Store : pc'[p] \in Past(other) /\ Uses(cfg[p], other) => pc[p] \in Past(other)
    BY <1>3 DEF SkipStore, OpenStoreFails, Store, AfterStore, Past
  <2>3. /\ pc'[p] \notin {"load", "redis"}
        /\ pc'[p] = "mongo" => pc[p] = "redis"
        /\ pc'[p] = "registry" => pc[p] = "mongo"
    BY <1>3 DEF SkipStore, OpenStoreFails, Store, AfterStore
  <2>4. QED
    BY <2>1, <2>2, <2>3
<1>4. CASE PutEntry(p) \/ StartKeepAlive(p) \/ RegisterFails(p)
  BY <1>4 DEF PutEntry, StartKeepAlive, RegisterFails, Past
<1>5. CASE InitService(p) \/ StartPlain(p) \/ StartFails(p) \/ AllStarted(p)
  BY <1>5 DEF InitService, StartPlain, Starting, StartFails, AllStarted, Past
<1>6. CASE ListenTCP(p) \/ ListenGRPC(p) \/ UndoTCP(p)
  BY <1>6 DEF ListenTCP, ListenGRPC, GateListens, UndoTCP, Starting
<1>7. CASE ListenHTTP(p) \/ ServeFails(p) \/ Signal(p)
  BY <1>7 DEF ListenHTTP, ServeFails, Signal, Past
<1>8. CASE BeginShutdown(p) \/ ShutdownReturns(p) \/ ShutdownTimesOut(p)
  BY <1>8 DEF BeginShutdown, ShutdownReturns, ShutdownTimesOut, Past
<1>9. CASE CloseGRPC(p) \/ CloseTCP(p) \/ StopService(p) \/ StopFails(p) \/ AllStopped(p)
  BY <1>9 DEF CloseGRPC, CloseTCP, StopService, StopFails, Stopping, AllStopped, Past
<1>10. CASE RunDeferred(p) \/ Return(p) \/ Crash(p)
  <2>1. pc'[p] \in {"deferred", "exited"}
    BY <1>10 DEF RunDeferred, Return, Crash, Ends
  <2>2. \A store \in Store : pc'[p] \notin Past(store)
    BY <2>1 DEF Past
  <2>3. QED
    BY <2>1, <2>2
<1>11. CASE \E r \in Request : BeginRequest(p, r) \/ EndRequest(p, r)
  BY <1>11 DEF BeginRequest, EndRequest
<1>12. CASE LeaseExpires(p) \/ LoseKeepAlive(p)
  BY <1>12 DEF LeaseExpires, LoseKeepAlive
<1>13. QED
  BY <1>1, <1>2, <1>3, <1>4, <1>5, <1>6, <1>7, <1>8, <1>9, <1>10, <1>11, <1>12 DEF Move, Step


-------------------------------------------------------------------------------
(* Type correctness. *)

LEMMA AtTyped ==
    ASSUME TypeOK, NEW p \in Proc, NEW k \in DOMAIN ServicesOf[p], NEW state \in ServiceState, At(p, k, state)
    PROVE  DOMAIN svc' = Proc /\ \A q \in Proc : svc'[q] \in [DOMAIN ServicesOf[q] -> ServiceState]
BY DEF TypeOK, At

LEMMA GotoTyped ==
    ASSUME TypeOK, NEW p \in Proc, NEW state \in RunState, Goto(p, state)
    PROVE  /\ pc' \in [Proc -> RunState] /\ pc'[p] = state
           /\ \A q \in Proc \ {p} : pc'[q] = pc[q]
BY DEF TypeOK, Goto

(* Most steps leave the configuration and the deferred calls alone and take Run to a
   place that needs a configuration only if it had one.                              *)
LEMMA TypedSimple ==
    ASSUME TypeOK, NEW p \in Proc, UNCHANGED <<given, cfg, defers>>,
           \/ UNCHANGED pc
           \/ \E state \in RunState :
                Goto(p, state) /\ (pc[p] \notin {"load", "deferred", "exited"} \/ state \in {"deferred", "exited"}),
           DOMAIN svc' = Proc, \A q \in Proc : svc'[q] \in [DOMAIN ServicesOf[q] -> ServiceState],
           sockets' \in SUBSET (Proc \X Kind), inflight' \in [Proc -> SUBSET Request],
           signalled' \in SUBSET Proc, entry' \in SUBSET Proc, renewing' \in SUBSET Proc,
           hurried' \in SUBSET Proc, failed' \in SUBSET Proc, crashed' \in SUBSET Proc, lost' \in SUBSET Proc
    PROVE  TypeOK'
<1>1. pc' \in [Proc -> RunState]
  BY GotoTyped DEF TypeOK
<1>2. \A q \in Proc : pc'[q] \notin {"load", "deferred", "exited"} => pc[q] \notin {"load", "deferred", "exited"}
  BY GotoTyped
<1>3. QED
  BY <1>1, <1>2 DEF TypeOK

LEMMA TypeStep ==
    ASSUME TypeOK, NEW p \in Proc, Opened(p), Move(p)
    PROVE  TypeOK'
<1> USE DEF Kind, RunState, ServiceState, Beginning, Up, Store, etcd, history
<1>0. DOMAIN svc = Proc /\ \A q \in Proc : svc[q] \in [DOMAIN ServicesOf[q] -> ServiceState]
  BY DEF TypeOK
<1>1. CASE LoadConfig(p)
  <2>1. pc'[p] \in {"redis", "deferred"} /\ pc' \in [Proc -> RunState] /\ \A q \in Proc \ {p} : pc'[q] = pc[q]
    BY <1>1, GotoTyped DEF LoadConfig
  <2>2. pc'[p] = "redis" => Accepted(p)
    BY <1>1, GotoTyped DEF LoadConfig
  <2>3. DOMAIN cfg' = Proc /\ cfg'[p] = Load(given[p]) /\ \A q \in Proc \ {p} : cfg'[q] = cfg[q]
    BY <1>1 DEF LoadConfig, TypeOK
  <2>4. pc'[p] # "deferred" => cfg'[p] \notin {None, Invalid} /\ cfg'[p].name = NameOf[p]
    BY <2>1, <2>2, <2>3 DEF Accepted, TypeOK
  <2>5. UNCHANGED <<given, defers, svc, sockets, inflight, signalled, etcd, history>>
    BY <1>1 DEF LoadConfig
  <2>6. QED
    BY <2>1, <2>3, <2>4, <2>5 DEF TypeOK
<1>2. ASSUME NEW store \in Store, OpenStore(p, store)
      PROVE  TypeOK'
  <2>1. defers' = [defers EXCEPT ![p] = Append(defers[p], store)] /\ Len(defers[p]) <= 2
    BY <1>2 DEF OpenStore, Opened, TypeOK
  <2>2. defers' \in [Proc -> Seq(Store)] /\ \A q \in Proc : Len(defers'[q]) <= 3
    BY <2>1 DEF TypeOK
  <2>3. /\ pc' \in [Proc -> RunState] /\ \A q \in Proc \ {p} : pc'[q] = pc[q]
        /\ pc[p] = store
    BY <1>2, GotoTyped DEF OpenStore, AfterStore
  <2>4. QED
    BY <1>2, <2>2, <2>3 DEF OpenStore, TypeOK
<1>3. CASE \E store \in Store : SkipStore(p, store) \/ OpenStoreFails(p, store)
  <2>1. PICK state \in RunState : Goto(p, state)
    BY <1>3 DEF SkipStore, OpenStoreFails, AfterStore
  <2>2. pc[p] \in Store /\ UNCHANGED <<given, cfg, defers, svc, sockets, inflight, signalled, etcd, history>>
    BY <1>3 DEF SkipStore, OpenStoreFails
  <2>3. pc[p] \notin {"load", "deferred", "exited"}
    BY <2>2 DEF Store
  <2>4. /\ sockets' \in SUBSET (Proc \X Kind) /\ inflight' \in [Proc -> SUBSET Request]
        /\ signalled' \in SUBSET Proc /\ entry' \in SUBSET Proc /\ renewing' \in SUBSET Proc
        /\ hurried' \in SUBSET Proc /\ failed' \in SUBSET Proc
        /\ crashed' \in SUBSET Proc /\ lost' \in SUBSET Proc
    BY <2>2 DEF TypeOK
  <2>5. UNCHANGED <<given, cfg, defers>> /\ svc' = svc
    BY <2>2
  <2>6. QED
    BY <1>0, <2>1, <2>3, <2>4, <2>5, TypedSimple
<1>4. CASE PutEntry(p) \/ StartKeepAlive(p) \/ RegisterFails(p)
  <2>1. /\ pc[p] \in {"register", "keepalive"}
        /\ \E state \in {"keepalive", "start", "deferred"} : Goto(p, state)
    BY <1>4 DEF PutEntry, StartKeepAlive, RegisterFails
  <2>2. /\ UNCHANGED <<given, cfg, defers, svc, sockets, inflight, signalled, hurried, failed, crashed>>
        /\ entry' \subseteq entry \cup {p} /\ renewing' \subseteq renewing \cup {p} /\ lost' \subseteq lost \cup {p}
    BY <1>4 DEF PutEntry, StartKeepAlive, Renewed, RegisterFails
  <2>3. /\ sockets' \in SUBSET (Proc \X Kind) /\ inflight' \in [Proc -> SUBSET Request]
        /\ signalled' \in SUBSET Proc /\ entry' \in SUBSET Proc /\ renewing' \in SUBSET Proc
        /\ hurried' \in SUBSET Proc /\ failed' \in SUBSET Proc
        /\ crashed' \in SUBSET Proc /\ lost' \in SUBSET Proc
    BY <2>2 DEF TypeOK
  <2>4. UNCHANGED <<given, cfg, defers>> /\ svc' = svc
    BY <2>2
  <2>5. QED
    BY <1>0, <2>1, <2>3, <2>4, TypedSimple
<1>5. CASE InitService(p) \/ StartPlain(p)
  BY <1>5, TypedSimple, AtTyped, CurrentIsFirst DEF InitService, StartPlain, Starting, TypeOK
<1>6. CASE ListenTCP(p) \/ ListenGRPC(p) \/ UndoTCP(p)
  BY <1>6, TypedSimple, AtTyped, CurrentIsFirst DEF ListenTCP, ListenGRPC, GateListens, UndoTCP, WithoutTCP, Starting, TypeOK
<1>7. CASE StartFails(p)
  <2>1. /\ pc[p] = "start" /\ Goto(p, "deferred") /\ failed' = failed \cup {p}
        /\ UNCHANGED <<given, cfg, defers, svc, sockets, inflight, signalled, etcd, hurried, crashed, lost>>
    BY <1>7 DEF StartFails, Starting
  <2>2. QED
    BY <1>0, <2>1, TypedSimple DEF TypeOK
<1>8. CASE AllStarted(p) \/ BeginShutdown(p) \/ ShutdownReturns(p) \/ ShutdownTimesOut(p) \/ AllStopped(p)
  <2>1. /\ pc[p] \in {"start", "serve", "shutdown", "stopping"}
        /\ \E state \in {"serve", "shutdown", "stopping", "deferred"} : Goto(p, state)
    BY <1>8 DEF AllStarted, BeginShutdown, ShutdownReturns, ShutdownTimesOut, AllStopped
  <2>2. /\ UNCHANGED <<given, cfg, defers, svc, inflight, signalled, etcd, failed, crashed, lost>>
        /\ sockets' \subseteq sockets /\ hurried' \subseteq hurried \cup {p}
    BY <1>8 DEF AllStarted, BeginShutdown, ShutdownReturns, ShutdownTimesOut, AllStopped
  <2>3. /\ sockets' \in SUBSET (Proc \X Kind) /\ inflight' \in [Proc -> SUBSET Request]
        /\ signalled' \in SUBSET Proc /\ entry' \in SUBSET Proc /\ renewing' \in SUBSET Proc
        /\ hurried' \in SUBSET Proc /\ failed' \in SUBSET Proc
        /\ crashed' \in SUBSET Proc /\ lost' \in SUBSET Proc
    BY <2>2 DEF TypeOK
  <2>4. UNCHANGED <<given, cfg, defers>> /\ svc' = svc
    BY <2>2
  <2>5. QED
    BY <1>0, <2>1, <2>3, <2>4, TypedSimple
<1>9. CASE ListenHTTP(p) \/ ServeFails(p) \/ Signal(p)
  <2>1. /\ UNCHANGED <<given, cfg, defers, svc, inflight, entry, failed, crashed, lost>>
        /\ sockets' \subseteq sockets \cup {<<p, "http">>}
        /\ signalled' \subseteq signalled \cup {p} /\ hurried' \subseteq hurried \cup {p}
        /\ renewing' \subseteq renewing
    BY <1>9 DEF ListenHTTP, ServeFails, Signal
  <2>2. UNCHANGED pc \/ (pc[p] = "serve" /\ Goto(p, "stopping"))
    BY <1>9 DEF ListenHTTP, ServeFails, Signal
  <2>3. sockets' \in SUBSET (Proc \X Kind)
    BY <2>1 DEF TypeOK
  <2>4. inflight' \in [Proc -> SUBSET Request] /\ signalled' \in SUBSET Proc /\ entry' \in SUBSET Proc
        /\ renewing' \in SUBSET Proc /\ hurried' \in SUBSET Proc /\ failed' \in SUBSET Proc
        /\ crashed' \in SUBSET Proc /\ lost' \in SUBSET Proc
    BY <2>1 DEF TypeOK
  <2>5. UNCHANGED <<given, cfg, defers>> /\ svc' = svc
    BY <2>1
  <2>6. CASE UNCHANGED pc
    BY <1>0, <2>3, <2>4, <2>5, <2>6, TypedSimple
  <2>7. CASE pc[p] = "serve" /\ Goto(p, "stopping")
    BY <1>0, <2>3, <2>4, <2>5, <2>7, TypedSimple
  <2>8. QED
    BY <2>2, <2>6, <2>7
<1>10. CASE CloseGRPC(p) \/ CloseTCP(p) \/ StopService(p) \/ StopFails(p)
  <2>1. /\ UNCHANGED <<given, cfg, defers, inflight, signalled, etcd, hurried, crashed, lost>>
        /\ sockets' \subseteq sockets /\ failed' \subseteq failed \cup {p} /\ pc[p] = "stopping"
    BY <1>10 DEF CloseGRPC, CloseTCP, WithoutTCP, StopService, StopFails, Stopping
  <2>2. UNCHANGED pc \/ Goto(p, "deferred")
    BY <1>10 DEF CloseGRPC, CloseTCP, StopService, StopFails
  <2>3. NextToStop(p) \in DOMAIN ServicesOf[p]
    BY <1>10, NextIsLast DEF CloseGRPC, CloseTCP, StopService, StopFails, Stopping
  <2>4. UNCHANGED svc \/ \E state \in {"draining", "waiting", "stopped"} : At(p, NextToStop(p), state)
    BY <1>10 DEF CloseGRPC, CloseTCP, StopService, StopFails
  <2>5. DOMAIN svc' = Proc /\ \A q \in Proc : svc'[q] \in [DOMAIN ServicesOf[q] -> ServiceState]
    BY <1>0, <2>3, <2>4, AtTyped
  <2>6. QED
    BY <2>1, <2>2, <2>5, TypedSimple DEF TypeOK
<1>11. CASE RunDeferred(p)
  <2>1. /\ defers' = [defers EXCEPT ![p] = SubSeq(defers[p], 1, Len(defers[p]) - 1)]
        /\ Len(defers[p]) >= 1
    BY <1>11 DEF RunDeferred, TypeOK
  <2>2. defers' \in [Proc -> Seq(Store)] /\ \A q \in Proc : Len(defers'[q]) <= 3
    BY <2>1 DEF TypeOK
  <2>3. QED
    BY <1>11, <2>2 DEF RunDeferred, TypeOK
<1>12. CASE Return(p) \/ Crash(p)
  <2>1. /\ Goto(p, "exited") /\ UNCHANGED <<given, cfg, defers, svc, signalled, entry, hurried, failed, lost>>
        /\ sockets' \subseteq sockets /\ renewing' \subseteq renewing /\ crashed' \subseteq crashed \cup {p}
        /\ inflight' = [inflight EXCEPT ![p] = {}]
    BY <1>12 DEF Return, Crash, Ends
  <2>2. /\ sockets' \in SUBSET (Proc \X Kind) /\ inflight' \in [Proc -> SUBSET Request]
        /\ signalled' \in SUBSET Proc /\ entry' \in SUBSET Proc /\ renewing' \in SUBSET Proc
        /\ hurried' \in SUBSET Proc /\ failed' \in SUBSET Proc
        /\ crashed' \in SUBSET Proc /\ lost' \in SUBSET Proc
    BY <2>1 DEF TypeOK
  <2>3. UNCHANGED <<given, cfg, defers>> /\ svc' = svc
    BY <2>1
  <2>4. QED
    BY <1>0, <2>1, <2>2, <2>3, TypedSimple
<1>13. CASE \E r \in Request : BeginRequest(p, r) \/ EndRequest(p, r)
  <2>1. UNCHANGED <<pc, given, cfg, defers, svc, sockets, signalled, etcd, history>>
    BY <1>13 DEF BeginRequest, EndRequest
  <2>2. inflight' \in [Proc -> SUBSET Request]
    <3>1. PICK r \in Request : inflight' = [inflight EXCEPT ![p] = inflight[p] \cup {r}]
                               \/ inflight' = [inflight EXCEPT ![p] = inflight[p] \ {r}]
      BY <1>13 DEF BeginRequest, EndRequest
    <3>2. inflight[p] \cup {r} \in SUBSET Request /\ inflight[p] \ {r} \in SUBSET Request
      BY DEF TypeOK
    <3>3. inflight \in [Proc -> SUBSET Request]
      BY DEF TypeOK
    <3>4. QED
      BY <3>1, <3>2, <3>3
  <2>3. /\ sockets' \in SUBSET (Proc \X Kind) /\ signalled' \in SUBSET Proc
        /\ entry' \in SUBSET Proc /\ renewing' \in SUBSET Proc
        /\ hurried' \in SUBSET Proc /\ failed' \in SUBSET Proc
        /\ crashed' \in SUBSET Proc /\ lost' \in SUBSET Proc
    BY <2>1 DEF TypeOK
  <2>4. UNCHANGED <<given, cfg, defers>> /\ svc' = svc /\ UNCHANGED pc
    BY <2>1
  <2>5. QED
    BY <1>0, <2>2, <2>3, <2>4, TypedSimple
<1>14. CASE LeaseExpires(p) \/ LoseKeepAlive(p)
  <2>1. /\ UNCHANGED <<pc, given, cfg, defers, svc, sockets, inflight, signalled, hurried, failed, crashed>>
        /\ entry' \subseteq entry /\ renewing' \subseteq renewing /\ lost' \subseteq lost \cup {p}
    BY <1>14 DEF LeaseExpires, LoseKeepAlive
  <2>2. /\ sockets' \in SUBSET (Proc \X Kind) /\ inflight' \in [Proc -> SUBSET Request]
        /\ signalled' \in SUBSET Proc /\ entry' \in SUBSET Proc /\ renewing' \in SUBSET Proc
        /\ hurried' \in SUBSET Proc /\ failed' \in SUBSET Proc
        /\ crashed' \in SUBSET Proc /\ lost' \in SUBSET Proc
    BY <2>1 DEF TypeOK
  <2>3. UNCHANGED <<given, cfg, defers>> /\ svc' = svc /\ UNCHANGED pc
    BY <2>1
  <2>4. QED
    BY <1>0, <2>2, <2>3, TypedSimple
<1>15. QED
  BY <1>1, <1>2, <1>3, <1>4, <1>5, <1>6, <1>7, <1>8, <1>9, <1>10, <1>11, <1>12, <1>13, <1>14 DEF Move, Step


-------------------------------------------------------------------------------
(* The theorems. *)

(* The invariant holds when the processes begin. *)
LEMMA InitIInv == Init => IInv
<1> SUFFICES ASSUME Init
             PROVE  IInv
  OBVIOUS
<1>1. TypeOK
  BY DEF Init, TypeOK, RunState, ServiceState, Beginning, Store, Kind
<1>2. ASSUME NEW p \in Proc
      PROVE  Ordered(p) /\ Listens(p) /\ Waits(p) /\ Opened(p) /\ Registered(p)
  <2>1. /\ pc[p] = "load" /\ inflight[p] = {} /\ defers[p] = <<>> /\ sockets = {}
        /\ \A k \in DOMAIN ServicesOf[p] : svc[p][k] = "new"
    BY DEF Init
  <2>2. Ordered(p) /\ Listens(p) /\ Waits(p) /\ Registered(p)
    BY <2>1 DEF Ordered, Listens, Waits, Registered
  <2>3. Opened(p)
    BY <2>1 DEF Opened, Past
  <2>4. QED
    BY <2>2, <2>3
<1>3. QED
  BY <1>1, <1>2 DEF IInv

LEMMA NextIInv == IInv /\ [Next]_vars => IInv'
<1>1. ASSUME IInv, NEW q \in Proc, Move(q)
      PROVE  IInv'
  <2>1. TypeOK'
    BY <1>1, TypeStep DEF IInv
  <2>2. Ordered(q)' /\ Listens(q)' /\ Waits(q)' /\ Opened(q)' /\ Registered(q)'
    BY <1>1, OrderedStep, ListensStep, WaitsStep, OpenedStep, RegisteredStep DEF IInv
  <2>3. ASSUME NEW p \in Proc, p # q
        PROVE  Ordered(p)' /\ Listens(p)' /\ Waits(p)' /\ Opened(p)' /\ Registered(p)'
    <3>1. Same(p)
      BY <1>1, <2>3, OthersStay DEF IInv
    <3>2. QED
      BY <1>1, <3>1, SameKeeps DEF IInv
  <2>4. QED
    BY <2>1, <2>2, <2>3 DEF IInv
<1>2. ASSUME IInv, UNCHANGED vars
      PROVE  IInv'
  <2>1. TypeOK'
    BY <1>2 DEF IInv, TypeOK, vars, etcd, history
  <2>2. \A p \in Proc : Same(p)
    BY <1>2 DEF Same, vars, etcd, history
  <2>3. QED
    BY <1>2, <2>1, <2>2, SameKeeps DEF IInv
<1>3. QED
  BY <1>1, <1>2 DEF Next

(* The inductive invariant of Run, for any processes, services and configurations. *)
THEOREM Invariance == Spec => []IInv
BY InitIInv, NextIInv, PTL DEF Spec

(* Every process, whatever it was started with, stays within its types; one that is past
   its configuration runs with what Load made of its files, under its own name.          *)
THEOREM TypeCorrect == Spec => []TypeOK
<1>1. IInv => TypeOK
  BY DEF IInv
<1>2. QED
  BY <1>1, Invariance, PTL

(* While Shutdown waits for a request, all services are started and all stores open. *)
THEOREM WorldOutlivesRequestsHolds == Spec => []WorldOutlivesRequests
<1>1. IInv => WorldOutlivesRequests
  <2> SUFFICES ASSUME IInv, NEW p \in Proc \ hurried, inflight[p] \ Hijacked # {}
               PROVE  /\ \A k \in DOMAIN ServicesOf[p] : svc[p][k] = "started"
                      /\ \A store \in Store : Uses(cfg[p], store) =>
                            \E i \in DOMAIN defers[p] : defers[p][i] = store
    BY DEF WorldOutlivesRequests
  <2>1. pc[p] \in {"serve", "shutdown"}
    BY DEF IInv, Waits
  <2>2. \A store \in Store : pc[p] \in Past(store)
    BY <2>1 DEF Past
  <2>3. QED
    BY <2>1, <2>2 DEF IInv, Ordered, Opened
<1>2. QED
  BY <1>1, Invariance, PTL

(* A run that returned without a failing hook leaves no service up. *)
THEOREM StopsWhatItStartedHolds == Spec => []StopsWhatItStarted
<1>1. IInv => StopsWhatItStarted
  BY DEF IInv, Ordered, StopsWhatItStarted, InState, Up
<1>2. QED
  BY <1>1, Invariance, PTL

(* The gate's listeners follow its state through failed starts and waits for clients,
   and a run none of whose hooks failed listens nowhere when it closes its stores.    *)
THEOREM SocketsMatchServicesHolds == Spec => []SocketsMatchServices
<1>1. ASSUME IInv, NEW p \in Proc, pc[p] = "deferred", p \notin failed
      PROVE  \A kind \in Kind : <<p, kind>> \notin sockets
  <2>1. \A k \in DOMAIN ServicesOf[p] : svc[p][k] \in {"new", "stopped"}
    BY <1>1 DEF IInv, Ordered
  <2>2. QED
    BY <1>1, <2>1 DEF IInv, Listens, Kind
<1>2. IInv => SocketsMatchServices
  BY <1>1 DEF IInv, Listens, SocketsMatchServices
<1>3. QED
  BY <1>2, Invariance, PTL

(* A service that takes requests is in etcd until it is told to stop. *)
THEOREM ServingStaysRegisteredHolds == Spec => []ServingStaysRegistered
<1>1. IInv => ServingStaysRegistered
  BY DEF IInv, Listens, Registered, ServingStaysRegistered, Discover
<1>2. QED
  BY <1>1, Invariance, PTL

(* Services stop in the reverse of the order they were passed in. *)
THEOREM StopsInReverseHolds == Spec => StopsInReverse
<1> DEFINE Reverse(p) ==
              \A k, j \in DOMAIN ServicesOf[p] :
                 svc[p][k] = "started" /\ svc'[p][k] # "started" /\ k < j => svc[p][j] = "stopped"
<1>1. ASSUME IInv, [Next]_vars, NEW p \in Proc
      PROVE  Reverse(p)
  <2>1. CASE \E q \in Proc : q # p /\ Move(q)
    BY <1>1, <2>1, OthersStay DEF IInv, Same
  <2>2. CASE Move(p)
    <3>1. ASSUME NEW k \in DOMAIN ServicesOf[p], svc[p][k] = "started", svc'[p][k] # "started"
          PROVE  k = NextToStop(p) /\ pc[p] = "stopping" /\ InState(p, Up) # {}
      <4> USE DEF At, IInv, TypeOK, history
      <4>1. CASE \/ LoadConfig(p) \/ PutEntry(p) \/ StartKeepAlive(p) \/ RegisterFails(p)
                 \/ \E store \in Store : OpenStore(p, store) \/ SkipStore(p, store) \/ OpenStoreFails(p, store)
        BY <3>1, <4>1 DEF LoadConfig, PutEntry, StartKeepAlive, RegisterFails, OpenStore, SkipStore, OpenStoreFails
      <4>2. CASE InitService(p) \/ StartPlain(p) \/ ListenTCP(p) \/ ListenGRPC(p) \/ UndoTCP(p)
        <5>1. PICK state : At(p, Current(p), state)
          BY <4>2 DEF InitService, StartPlain, ListenTCP, ListenGRPC, GateListens, UndoTCP
        <5>2. svc[p][Current(p)] # "started"
          BY <4>2, CurrentIsFirst DEF InitService, StartPlain, ListenTCP, ListenGRPC, GateListens, UndoTCP,
                                      Starting, Beginning
        <5>3. QED
          BY <1>1, <3>1, <5>1, <5>2
      <4>3. CASE StartFails(p) \/ AllStarted(p) \/ BeginShutdown(p) \/ ShutdownReturns(p) \/ ShutdownTimesOut(p)
                 \/ AllStopped(p)
        BY <3>1, <4>3 DEF StartFails, AllStarted, BeginShutdown, ShutdownReturns, ShutdownTimesOut, AllStopped
      <4>4. CASE CloseGRPC(p) \/ CloseTCP(p) \/ StopService(p) \/ StopFails(p)
        <5>1. /\ pc[p] = "stopping" /\ InState(p, Up) # {}
              /\ UNCHANGED svc \/ \E state : At(p, NextToStop(p), state)
          BY <4>4 DEF CloseGRPC, CloseTCP, StopService, StopFails, Stopping
        <5>2. QED
          BY <1>1, <3>1, <5>1
      <4>5. CASE RunDeferred(p) \/ Return(p) \/ Crash(p) \/ ListenHTTP(p) \/ ServeFails(p) \/ Signal(p)
        BY <3>1, <4>5 DEF RunDeferred, Return, Crash, Ends, ListenHTTP, ServeFails, Signal
      <4>6. CASE (\E r \in Request : BeginRequest(p, r) \/ EndRequest(p, r)) \/ LeaseExpires(p) \/ LoseKeepAlive(p)
        BY <3>1, <4>6 DEF BeginRequest, EndRequest, LeaseExpires, LoseKeepAlive
      <4>7. QED
        BY <2>2, <4>1, <4>2, <4>3, <4>4, <4>5, <4>6 DEF Move, Step
    <3>2. pc[p] = "stopping" => \A j \in DOMAIN ServicesOf[p] : svc[p][j] \in Up \cup {"stopped"}
      BY <1>1 DEF IInv, Ordered
    <3>3. QED
      BY <3>1, <3>2, NextIsLast
  <2>3. CASE UNCHANGED vars
    BY <2>3 DEF vars
  <2>4. QED
    BY <1>1, <2>1, <2>2, <2>3 DEF Next
<1>2. IInv /\ [Next]_vars => [\A p \in Proc : Reverse(p)]_vars
  BY <1>1
<1>3. QED
  BY <1>2, Invariance, PTL DEF Spec, StopsInReverse


-------------------------------------------------------------------------------
(* The configuration. *)

(* Key by key: what a file sets to more than its zero value survives the defaults, the
   environment is the one given, and the defaults are the ones of that environment.    *)
LEMMA DefaultsKeep ==
    ASSUME NEW f, NEW env, NEW loaded, loaded = ApplyDefaults(WithEnv(Over(f, ZeroConfig), env))
    PROVE  /\ loaded.env = env
           /\ \A key \in DOMAIN f \ {"env", "fileout", "stdout"} : Unset(key, f[key]) \/ loaded[key] = f[key]
           /\ \A key \in DOMAIN f \cap {"fileout", "stdout"} : f[key] => loaded[key]
           /\ "level" \notin DOMAIN f => loaded.level = IF env = "prod" THEN "info" ELSE "debug"
           /\ "retention" \notin DOMAIN f => loaded.retention = IF env = "prod" THEN 30 ELSE 7
<1> DEFINE files == Over(f, ZeroConfig)
           c == WithEnv(files, env)
<1>1. /\ DOMAIN files = DOMAIN f \cup DOMAIN ZeroConfig
      /\ \A key \in DOMAIN f : files[key] = f[key]
  BY DEF Over
<1>2. /\ DOMAIN c = DOMAIN files /\ c.env = env
      /\ \A key \in DOMAIN files \ {"env"} : c[key] = files[key]
  <2>1. "env" \in DOMAIN files
    BY <1>1 DEF ZeroConfig
  <2>2. QED
    BY <2>1 DEF WithEnv
<1>3. \A key \in {"level", "retention"} \ DOMAIN f : c[key] = ZeroConfig[key]
  BY <1>2 DEF Over, ZeroConfig
<1> HIDE DEF files, c
<1>4. /\ \A key \in DOMAIN Defaulted(c) : loaded[key] = Defaulted(c)[key]
      /\ \A key \in DOMAIN c \ DOMAIN Defaulted(c) : loaded[key] = c[key]
  BY DEF ApplyDefaults, Over, files, c
<1>5. DOMAIN Defaulted(c) = {"lease_ttl", "advertise_host", "advertise_port", "tcp_port", "grpc_port",
                             "level", "retention", "fileout", "stdout"}
  BY DEF Defaulted
<1>6. loaded.env = env
  BY <1>1, <1>2, <1>4, <1>5 DEF ZeroConfig
<1>7. ASSUME NEW key \in DOMAIN f \ {"env", "fileout", "stdout"}
      PROVE  Unset(key, f[key]) \/ loaded[key] = f[key]
  <2>1. key \in DOMAIN c /\ c[key] = f[key]
    BY <1>1, <1>2
  <2>2. CASE key \notin DOMAIN Defaulted(c)
    BY <1>4, <2>1, <2>2
  <2>3. CASE key \in DOMAIN Defaulted(c)
    <3>1. CASE key = "level"
      <4>1. loaded[key] = Defaulted(c).level /\ c.level = f[key]
        BY <1>4, <1>5, <2>1, <3>1
      <4>2. Defaulted(c).level = c.level \/ c.level = ""
        BY Zenon DEF Defaulted, FirstSet
      <4>3. QED
        BY <3>1, <4>1, <4>2, Zenon DEF Unset
    <3>2. CASE key = "advertise_host"
      <4>1. loaded[key] = Defaulted(c).advertise_host /\ c.advertise_host = f[key]
        BY <1>4, <1>5, <2>1, <3>2
      <4>2. Defaulted(c).advertise_host = c.advertise_host \/ c.advertise_host = ""
        BY Zenon DEF Defaulted, FirstSet
      <4>3. QED
        BY <3>2, <4>1, <4>2, Zenon DEF Unset
    <3>3. CASE key = "lease_ttl"
      BY <1>4, <1>5, <2>1, <3>3 DEF Defaulted, Unset, Positive
    <3>4. CASE key = "advertise_port"
      BY <1>4, <1>5, <2>1, <3>4 DEF Defaulted, Unset, Positive
    <3>5. CASE key = "tcp_port"
      BY <1>4, <1>5, <2>1, <3>5 DEF Defaulted, Unset, Positive
    <3>6. CASE key = "grpc_port"
      BY <1>4, <1>5, <2>1, <3>6 DEF Defaulted, Unset, Positive
    <3>7. CASE key = "retention"
      BY <1>4, <1>5, <2>1, <3>7 DEF Defaulted, Unset, Positive
    <3>8. QED
      BY <1>5, <1>7, <2>3, <3>1, <3>2, <3>3, <3>4, <3>5, <3>6, <3>7
  <2>4. QED
    BY <2>2, <2>3
<1>8. \A key \in DOMAIN f \cap {"fileout", "stdout"} : f[key] => loaded[key]
  <2>1. \A key \in DOMAIN f \cap {"fileout", "stdout"} : c[key] = f[key]
    BY <1>1, <1>2
  <2>2. loaded.fileout = Defaulted(c).fileout /\ loaded.stdout = Defaulted(c).stdout
    BY <1>4, <1>5
  <2>3. (c.fileout => Defaulted(c).fileout) /\ (c.stdout => Defaulted(c).stdout)
    BY DEF Defaulted
  <2>4. QED
    BY <2>1, <2>2, <2>3
<1>9. "level" \notin DOMAIN f => loaded.level = IF env = "prod" THEN "info" ELSE "debug"
  <2>1. loaded.level = Defaulted(c).level
    BY <1>4, <1>5
  <2>2. "level" \notin DOMAIN f => c.level = ""
    BY <1>3, Zenon DEF ZeroConfig
  <2>3. QED
    BY <1>2, <2>1, <2>2, Zenon DEF Defaulted, FirstSet, IsProd
<1>10. "retention" \notin DOMAIN f => loaded.retention = IF env = "prod" THEN 30 ELSE 7
  <2>1. ZeroConfig.retention = 0
    BY DEF ZeroConfig
  <2>2. loaded.retention = Positive(c.retention, IF env = "prod" THEN 30 ELSE 7)
    BY <1>2, <1>4, <1>5 DEF Defaulted, IsProd
  <2>3. QED
    BY <1>3, <2>1, <2>2 DEF Positive
<1>11. QED
  BY <1>6, <1>7, <1>8, <1>9, <1>10, Zenon

(* The configuration of a process past its load is what Load made of its files; the
   load alone sets it.                                                              *)
Loaded(p) == pc[p] # "load" => cfg[p] = Load(given[p])

LEMMA LoadedStep ==
    ASSUME TypeOK, NEW p \in Proc, Loaded(p), Move(p)
    PROVE  Loaded(p)'
<1> USE DEF TypeOK, Loaded, Goto, history
<1>1. CASE LoadConfig(p)
  BY <1>1 DEF LoadConfig
<1>2. CASE \E store \in Store : OpenStore(p, store) \/ SkipStore(p, store) \/ OpenStoreFails(p, store)
  BY <1>2 DEF OpenStore, SkipStore, OpenStoreFails, Store
<1>3. CASE PutEntry(p) \/ StartKeepAlive(p) \/ RegisterFails(p)
  BY <1>3 DEF PutEntry, StartKeepAlive, RegisterFails
<1>4. CASE InitService(p) \/ StartPlain(p) \/ ListenTCP(p) \/ ListenGRPC(p) \/ UndoTCP(p)
  BY <1>4 DEF InitService, StartPlain, ListenTCP, ListenGRPC, GateListens, UndoTCP, Starting
<1>5. CASE StartFails(p) \/ AllStarted(p) \/ BeginShutdown(p) \/ ShutdownReturns(p) \/ ShutdownTimesOut(p)
  BY <1>5 DEF StartFails, Starting, AllStarted, BeginShutdown, ShutdownReturns, ShutdownTimesOut
<1>6. CASE \/ CloseGRPC(p) \/ CloseTCP(p) \/ StopService(p) \/ StopFails(p) \/ AllStopped(p)
           \/ RunDeferred(p) \/ Return(p) \/ Crash(p)
  BY <1>6 DEF CloseGRPC, CloseTCP, StopService, StopFails, Stopping, AllStopped, RunDeferred, Return, Crash, Ends
<1>7. CASE ListenHTTP(p) \/ ServeFails(p) \/ Signal(p)
  BY <1>7 DEF ListenHTTP, ServeFails, Signal
<1>8. CASE (\E r \in Request : BeginRequest(p, r) \/ EndRequest(p, r)) \/ LeaseExpires(p) \/ LoseKeepAlive(p)
  BY <1>8 DEF BeginRequest, EndRequest, LeaseExpires, LoseKeepAlive
<1>9. QED
  BY <1>1, <1>2, <1>3, <1>4, <1>5, <1>6, <1>7, <1>8 DEF Move, Step

(* A process runs with the configuration Load makes of its own files, to its end. *)
THEOREM LoadedHolds == Spec => [](\A p \in Proc : Loaded(p))
<1>1. Init => \A p \in Proc : Loaded(p)
  BY DEF Init, Loaded
<1>2. IInv /\ (\A p \in Proc : Loaded(p)) /\ [Next]_vars => (\A p \in Proc : Loaded(p))'
  <2> SUFFICES ASSUME IInv, \A q \in Proc : Loaded(q), [Next]_vars, NEW p \in Proc
               PROVE  Loaded(p)'
    OBVIOUS
  <2>1. CASE Move(p)
    BY <2>1, LoadedStep DEF IInv
  <2>2. CASE \E q \in Proc : q # p /\ Move(q)
    BY <2>2, OthersStay DEF IInv, Loaded, Same
  <2>3. CASE UNCHANGED vars
    BY <2>3 DEF vars, Loaded
  <2>4. QED
    BY <2>1, <2>2, <2>3 DEF Next
<1>3. QED
  BY <1>1, <1>2, Invariance, PTL DEF Spec

(* Whatever the files say: the environment is the flag's, then APP_ENV's, then dev, the
   override file of that environment wins, and the defaults are its own.               *)
THEOREM EnvironmentConsistentHolds == Spec => []EnvironmentConsistent
<1>1. (\A p \in Proc : Loaded(p)) => EnvironmentConsistent
  <2> SUFFICES ASSUME \A q \in Proc : Loaded(q), NEW p \in Proc, Running(p), cfg[p] # Invalid
               PROVE  /\ cfg[p].env = EnvAsked(p)
                      /\ \A key \in DOMAIN OverrideAsked(p) \ {"env", "fileout", "stdout"} :
                             Unset(key, OverrideAsked(p)[key]) \/ cfg[p][key] = OverrideAsked(p)[key]
                      /\ \A key \in DOMAIN OverrideAsked(p) \cap {"fileout", "stdout"} :
                             OverrideAsked(p)[key] => cfg[p][key]
                      /\ "level" \notin DOMAIN OverrideAsked(p) \cup DOMAIN given[p].base =>
                             cfg[p].level = IF EnvAsked(p) = "prod" THEN "info" ELSE "debug"
                      /\ "retention" \notin DOMAIN OverrideAsked(p) \cup DOMAIN given[p].base =>
                             cfg[p].retention = IF EnvAsked(p) = "prod" THEN 30 ELSE 7
    BY Zenon DEF EnvironmentConsistent
  <2> DEFINE f == Merged(given[p].base, OverrideFile(given[p], EnvAsked(p)))
  <2>1. ResolveEnv(given[p].flag, given[p].appEnv) = EnvAsked(p)
    BY Zenon DEF ResolveEnv, FirstSet, EnvAsked
  <2>2. cfg[p] = ApplyDefaults(WithEnv(Over(f, ZeroConfig), EnvAsked(p)))
    BY <2>1 DEF Loaded, Running, Load
  <2>3. /\ DOMAIN f = DOMAIN OverrideAsked(p) \cup DOMAIN given[p].base
        /\ \A key \in DOMAIN OverrideAsked(p) : f[key] = OverrideAsked(p)[key]
    <3>1. CASE OverrideFile(given[p], EnvAsked(p)) = NoFile
      BY <3>1 DEF Merged, OverrideFile, OverrideAsked
    <3>2. CASE OverrideFile(given[p], EnvAsked(p)) # NoFile
      <4>1. OverrideAsked(p) = OverrideFile(given[p], EnvAsked(p))
        BY <3>2 DEF OverrideFile, OverrideAsked
      <4>2. f = Over(OverrideAsked(p), given[p].base)
        BY <3>2, <4>1 DEF Merged
      <4>3. QED
        BY <4>2 DEF Over
    <3>3. QED
      BY <3>1, <3>2
  <2> HIDE DEF f
  <2>4. /\ cfg[p].env = EnvAsked(p)
        /\ \A key \in DOMAIN f \ {"env", "fileout", "stdout"} : Unset(key, f[key]) \/ cfg[p][key] = f[key]
        /\ \A key \in DOMAIN f \cap {"fileout", "stdout"} : f[key] => cfg[p][key]
        /\ "level" \notin DOMAIN f => cfg[p].level = IF EnvAsked(p) = "prod" THEN "info" ELSE "debug"
        /\ "retention" \notin DOMAIN f => cfg[p].retention = IF EnvAsked(p) = "prod" THEN 30 ELSE 7
    BY <2>2, DefaultsKeep
  <2>5. QED
    BY <2>3, <2>4, Zenon
<1>2. QED
  BY <1>1, LoadedHolds, PTL

-------------------------------------------------------------------------------
(* The lease and the end of a process: what StaleEntryExpires rests on. *)

(* The registration is reached with etcd in the configuration; the lease is kept alive
   by a process that runs, was not told to stop, and has the client still open.        *)
KeptAlive(p) ==
    /\ pc[p] \in {"register", "keepalive"} => HasEtcd(cfg[p])
    /\ p \in renewing =>
          /\ pc[p] \in {"start", "serve", "shutdown", "stopping", "deferred"}
          /\ p \notin signalled
          /\ \E i \in DOMAIN defers[p] : defers[p][i] = "registry"

(* A process that ended holds nothing. *)
Gone(p) ==
    pc[p] = "exited" => inflight[p] = {} /\ \A kind \in Kind : <<p, kind>> \notin sockets

LEMMA KeptAliveStep ==
    ASSUME TypeOK, NEW p \in Proc, Opened(p), KeptAlive(p), Move(p)
    PROVE  KeptAlive(p)'
<1> USE DEF TypeOK, KeptAlive, Goto, history
<1>1. CASE LoadConfig(p)
  BY <1>1 DEF LoadConfig, etcd
<1>2. CASE \E store \in Store : OpenStore(p, store) \/ SkipStore(p, store) \/ OpenStoreFails(p, store)
  <2>1. pc[p] \in Store /\ UNCHANGED <<cfg, renewing, signalled>> /\ p \notin renewing
    BY <1>2 DEF OpenStore, SkipStore, OpenStoreFails, Store, etcd
  <2>2. ASSUME pc'[p] \in {"register", "keepalive"}
        PROVE  Uses(cfg[p], "registry")
    BY <1>2, <2>2 DEF OpenStore, SkipStore, OpenStoreFails, Store, AfterStore
  <2>3. Uses(cfg[p], "registry") => HasEtcd(cfg[p])
    BY DEF Uses
  <2>4. QED
    BY <2>1, <2>2, <2>3
<1>3. CASE PutEntry(p) \/ RegisterFails(p)
  BY <1>3 DEF PutEntry, RegisterFails, etcd
<1>4. CASE StartKeepAlive(p)
  <2>1. \E i \in DOMAIN defers[p] : defers[p][i] = "registry"
    BY <1>4 DEF StartKeepAlive, Opened, Past, Store, Uses
  <2>2. QED
    BY <1>4, <2>1 DEF StartKeepAlive, Renewed
<1>5. CASE InitService(p) \/ StartPlain(p) \/ ListenTCP(p) \/ ListenGRPC(p) \/ UndoTCP(p)
  BY <1>5 DEF InitService, StartPlain, ListenTCP, ListenGRPC, GateListens, UndoTCP, Starting, etcd
<1>6. CASE StartFails(p) \/ AllStarted(p) \/ BeginShutdown(p) \/ ShutdownReturns(p) \/ ShutdownTimesOut(p)
  BY <1>6 DEF StartFails, Starting, AllStarted, BeginShutdown, ShutdownReturns, ShutdownTimesOut, etcd
<1>7. CASE CloseGRPC(p) \/ CloseTCP(p) \/ StopService(p) \/ StopFails(p) \/ AllStopped(p)
  BY <1>7 DEF CloseGRPC, CloseTCP, StopService, StopFails, Stopping, AllStopped, etcd
<1>8. CASE RunDeferred(p)
  <2>1. UNCHANGED <<pc, cfg, signalled>> /\ defers[p] # <<>> /\ pc[p] = "deferred"
        /\ defers'[p] = SubSeq(defers[p], 1, Len(defers[p]) - 1)
    BY <1>8 DEF RunDeferred
  <2>2. ASSUME p \in renewing'
        PROVE  \E i \in DOMAIN defers'[p] : defers'[p][i] = "registry"
    <3>1. p \in renewing /\ defers[p][Len(defers[p])] # "registry"
      BY <1>8, <2>2 DEF RunDeferred
    <3>2. PICK i \in DOMAIN defers[p] : defers[p][i] = "registry"
      BY <3>1
    <3>3. i \in 1 .. Len(defers[p]) - 1
      BY <3>1, <3>2
    <3>4. QED
      BY <2>1, <3>2, <3>3
  <2>3. p \in renewing' => p \in renewing
    BY <1>8 DEF RunDeferred
  <2>4. QED
    BY <2>1, <2>2, <2>3
<1>9. CASE Return(p) \/ Crash(p)
  BY <1>9 DEF Return, Crash, Ends
<1>10. CASE ListenHTTP(p) \/ ServeFails(p) \/ Signal(p)
  BY <1>10 DEF ListenHTTP, ServeFails, Signal, etcd
<1>11. CASE (\E r \in Request : BeginRequest(p, r) \/ EndRequest(p, r)) \/ LeaseExpires(p) \/ LoseKeepAlive(p)
  BY <1>11 DEF BeginRequest, EndRequest, LeaseExpires, LoseKeepAlive, etcd
<1>12. QED
  BY <1>1, <1>2, <1>3, <1>4, <1>5, <1>6, <1>7, <1>8, <1>9, <1>10, <1>11 DEF Move, Step

(* After its end a process can only lose its entry. *)
LEMMA DeadMove ==
    ASSUME TypeOK, NEW p \in Proc, Gone(p), pc[p] = "exited", Move(p)
    PROVE  /\ UNCHANGED <<pc, svc, defers, sockets, inflight, signalled>>
           /\ entry' \subseteq entry /\ renewing' \subseteq renewing
<1> USE DEF TypeOK, Gone, etcd, history
<1>1. ~Step(p)
  BY DEF Step, LoadConfig, OpenStore, SkipStore, OpenStoreFails, Store, PutEntry, StartKeepAlive, RegisterFails,
         InitService, StartPlain, Starting, ListenTCP, ListenGRPC, GateListens, UndoTCP, StartFails, AllStarted,
         BeginShutdown, ShutdownReturns, ShutdownTimesOut, CloseGRPC, CloseTCP, StopService, StopFails, Stopping,
         AllStopped, RunDeferred, Return
<1>2. ~ListenHTTP(p) /\ ~ServeFails(p) /\ ~Signal(p) /\ ~Crash(p)
  BY DEF ListenHTTP, ServeFails, Signal, Crash
<1>3. \A r \in Request : ~BeginRequest(p, r) /\ ~EndRequest(p, r)
  BY DEF BeginRequest, EndRequest, Reachable, Kind
<1>4. QED
  BY <1>1, <1>2, <1>3 DEF Move, LeaseExpires, LoseKeepAlive

LEMMA GoneStep ==
    ASSUME TypeOK, NEW p \in Proc, Gone(p), Move(p)
    PROVE  Gone(p)'
<1>1. CASE pc[p] = "exited"
  BY <1>1, DeadMove DEF Gone
<1>2. CASE pc[p] # "exited"
  <2> USE DEF TypeOK, Gone, Goto
  <2>1. CASE Return(p) \/ Crash(p)
    BY <2>1 DEF Return, Crash, Ends
  <2>2. CASE ~Return(p) /\ ~Crash(p)
    <3>1. pc'[p] # "exited"
      <4>1. CASE LoadConfig(p) \/ \E store \in Store : OpenStore(p, store) \/ SkipStore(p, store) \/ OpenStoreFails(p, store)
        BY <1>2, <4>1 DEF LoadConfig, OpenStore, SkipStore, OpenStoreFails, Store, AfterStore
      <4>2. CASE PutEntry(p) \/ StartKeepAlive(p) \/ RegisterFails(p)
        BY <1>2, <4>2 DEF PutEntry, StartKeepAlive, RegisterFails
      <4>3. CASE InitService(p) \/ StartPlain(p) \/ ListenTCP(p) \/ ListenGRPC(p) \/ UndoTCP(p)
        BY <1>2, <4>3 DEF InitService, StartPlain, ListenTCP, ListenGRPC, GateListens, UndoTCP, Starting
      <4>4. CASE StartFails(p) \/ AllStarted(p) \/ BeginShutdown(p) \/ ShutdownReturns(p) \/ ShutdownTimesOut(p)
        BY <1>2, <4>4 DEF StartFails, AllStarted, BeginShutdown, ShutdownReturns, ShutdownTimesOut
      <4>5. CASE CloseGRPC(p) \/ CloseTCP(p) \/ StopService(p) \/ StopFails(p) \/ AllStopped(p) \/ RunDeferred(p)
        BY <1>2, <4>5 DEF CloseGRPC, CloseTCP, StopService, StopFails, AllStopped, RunDeferred
      <4>6. CASE ListenHTTP(p) \/ ServeFails(p) \/ Signal(p)
        BY <1>2, <4>6 DEF ListenHTTP, ServeFails, Signal
      <4>7. CASE (\E r \in Request : BeginRequest(p, r) \/ EndRequest(p, r)) \/ LeaseExpires(p) \/ LoseKeepAlive(p)
        BY <1>2, <4>7 DEF BeginRequest, EndRequest, LeaseExpires, LoseKeepAlive
      <4>8. QED
        BY <2>2, <4>1, <4>2, <4>3, <4>4, <4>5, <4>6, <4>7 DEF Move, Step
    <3>2. QED
      BY <3>1
  <2>3. QED
    BY <2>1, <2>2
<1>3. QED
  BY <1>1, <1>2

(* Who keeps leases alive, and what is left of a process that ended. *)
LeaseInv == \A p \in Proc : KeptAlive(p) /\ Gone(p)

(* Only a process that is up and was not signalled has its lease kept alive. *)
THEOREM LeaseInvHolds == Spec => []LeaseInv
<1>1. Init => LeaseInv
  BY DEF Init, LeaseInv, KeptAlive, Gone
<1>2. IInv /\ LeaseInv /\ [Next]_vars => LeaseInv'
  <2> SUFFICES ASSUME IInv, LeaseInv, [Next]_vars, NEW p \in Proc
               PROVE  KeptAlive(p)' /\ Gone(p)'
    BY DEF LeaseInv
  <2>1. CASE Move(p)
    BY <2>1, KeptAliveStep, GoneStep DEF IInv, LeaseInv
  <2>2. CASE \E q \in Proc : q # p /\ Move(q)
    <3>1. Same(p)
      BY <2>2, OthersStay DEF IInv
    <3>2. QED
      BY <3>1 DEF LeaseInv, Same, KeptAlive, Gone
  <2>3. CASE UNCHANGED vars
    BY <2>3 DEF vars, etcd, history, LeaseInv, KeptAlive, Gone
  <2>4. QED
    BY <2>1, <2>2, <2>3 DEF Next
<1>3. QED
  BY <1>1, <1>2, Invariance, PTL DEF Spec

(* Nothing comes back from a run that has ended: no socket, no request, no keep-alive, and
   an entry that is gone from etcd stays gone.  Together with the fairness of
   LeaseExpires this is why StaleEntryExpires holds.                                      *)
NothingFromTheDead ==
    [][\A p \in Proc : pc[p] = "exited" =>
          /\ pc'[p] = "exited" /\ p \notin renewing' /\ (p \in entry' => p \in entry)
          /\ inflight'[p] = {} /\ \A kind \in Kind : <<p, kind>> \notin sockets']_vars

(* A run that ended leaves nothing that acts, and no step of others revives it. *)
THEOREM NothingFromTheDeadHolds == Spec => NothingFromTheDead
<1> DEFINE Dead(p) == pc[p] = "exited" =>
              /\ pc'[p] = "exited" /\ p \notin renewing' /\ (p \in entry' => p \in entry)
              /\ inflight'[p] = {} /\ \A kind \in Kind : <<p, kind>> \notin sockets'
<1>1. ASSUME IInv, LeaseInv, [Next]_vars, NEW p \in Proc
      PROVE  Dead(p)
  <2>1. CASE Move(p)
    BY <1>1, <2>1, DeadMove DEF IInv, LeaseInv, KeptAlive, Gone
  <2>2. CASE \E q \in Proc : q # p /\ Move(q)
    <3>1. Same(p)
      BY <1>1, <2>2, OthersStay DEF IInv
    <3>2. QED
      BY <1>1, <3>1 DEF LeaseInv, Same, KeptAlive, Gone
  <2>3. CASE UNCHANGED vars
    BY <1>1, <2>3 DEF vars, etcd, LeaseInv, KeptAlive, Gone
  <2>4. QED
    BY <1>1, <2>1, <2>2, <2>3 DEF Next
<1>2. IInv /\ LeaseInv /\ [Next]_vars => [\A p \in Proc : Dead(p)]_vars
  BY <1>1
<1>3. QED
  BY <1>2, Invariance, LeaseInvHolds, PTL DEF Spec, NothingFromTheDead

-------------------------------------------------------------------------------
(* Run only goes forward: what SignalEndsProcess rests on. *)

(* The order of the states of Run and of a service. *)
Rank == [load |-> 0, redis |-> 1, mongo |-> 2, registry |-> 3, register |-> 4, keepalive |-> 5,
         start |-> 6, serve |-> 7, shutdown |-> 8, stopping |-> 9, deferred |-> 10, exited |-> 11]
SvcRank == [new |-> 0, inited |-> 1, half |-> 2, undoing |-> 3, started |-> 4, draining |-> 5, waiting |-> 6,
            stopped |-> 7]

(* Run is further on, or in the same place with a service further on and none further
   back, or with fewer deferred calls to run.                                          *)
Ahead(p) ==
    \/ Rank[pc[p]] < Rank[pc'[p]]
    \/ /\ pc'[p] = pc[p] /\ defers'[p] = defers[p]
       /\ \E k \in DOMAIN ServicesOf[p] : SvcRank[svc[p][k]] < SvcRank[svc'[p][k]]
       /\ \A k \in DOMAIN ServicesOf[p] : SvcRank[svc[p][k]] <= SvcRank[svc'[p][k]]
    \/ /\ pc'[p] = pc[p] /\ svc'[p] = svc[p]
       /\ Len(defers'[p]) < Len(defers[p])

Stays(p) == pc'[p] = pc[p] /\ svc'[p] = svc[p] /\ defers'[p] = defers[p]

LEMMA ServiceIsAhead ==
    ASSUME TypeOK, NEW p \in Proc, NEW k \in DOMAIN ServicesOf[p],
           NEW to \in ServiceState, At(p, k, to),
           SvcRank[svc[p][k]] < SvcRank[to], UNCHANGED <<pc, defers>>
    PROVE  Ahead(p)
<1>1. svc'[p][k] = to /\ \A j \in DOMAIN ServicesOf[p] \ {k} : svc'[p][j] = svc[p][j]
  BY AtSets
<1>2. \A j \in DOMAIN ServicesOf[p] : svc[p][j] \in ServiceState
  BY DEF TypeOK
<1>3. \A j \in DOMAIN ServicesOf[p] : SvcRank[svc[p][j]] \in Nat
  BY <1>2 DEF SvcRank, ServiceState, Beginning, Up
<1>4. SvcRank[svc[p][k]] < SvcRank[svc'[p][k]]
  BY <1>1
<1>5. \A j \in DOMAIN ServicesOf[p] : SvcRank[svc[p][j]] <= SvcRank[svc'[p][j]]
  <2>1. ASSUME NEW j \in DOMAIN ServicesOf[p]
        PROVE  SvcRank[svc[p][j]] <= SvcRank[svc'[p][j]]
    <3>1. CASE j = k
      <4>1. SvcRank[to] \in Nat
        BY DEF SvcRank, ServiceState, Beginning, Up
      <4>2. QED
        BY <1>1, <1>3, <3>1, <4>1
    <3>2. CASE j # k
      <4>1. svc'[p][j] = svc[p][j]
        BY <1>1, <3>2
      <4>2. SvcRank[svc[p][j]] <= SvcRank[svc[p][j]]
        BY <1>3
      <4>3. QED
        BY <4>1, <4>2
    <3>3. QED
      BY <3>1, <3>2
  <2>2. QED
    BY <2>1
<1>6. QED
  BY <1>4, <1>5 DEF Ahead

LEMMA WithoutLast ==
    ASSUME NEW S, NEW s \in Seq(S), s # << >>
    PROVE  Len(SubSeq(s, 1, Len(s) - 1)) = Len(s) - 1
<1> DEFINE n == Len(s) - 1
<1>1. n \in Int /\ n >= 0 /\ \A i \in 1 .. n : s[i] \in S
  BY EmptySeq, Len(s) \in Nat
<1> HIDE DEF n
<1>2. Len(SubSeq(s, 1, n)) = IF 1 <= n THEN n - 1 + 1 ELSE 0
  BY <1>1, SubSeqProperties, 1 \in Int
<1>3. Len(SubSeq(s, 1, n)) = n
  BY <1>1, <1>2
<1>4. QED
  BY <1>3 DEF n

LEMMA StepIsAhead ==
    ASSUME TypeOK, NEW p \in Proc, Step(p)
    PROVE  Ahead(p)
<1> USE DEF TypeOK, Goto
<1>1. CASE LoadConfig(p)
  BY <1>1 DEF LoadConfig, Ahead, Rank
<1>2. CASE \E store \in Store : OpenStore(p, store) \/ SkipStore(p, store) \/ OpenStoreFails(p, store)
  <2>1. PICK store \in {"redis", "mongo", "registry"} :
            OpenStore(p, store) \/ SkipStore(p, store) \/ OpenStoreFails(p, store)
    BY <1>2 DEF Store
  <2>2. pc[p] = store /\ pc'[p] \in {AfterStore[store], "start", "deferred"}
    BY <2>1 DEF OpenStore, SkipStore, OpenStoreFails
  <2>3. QED
    BY <2>2 DEF AfterStore, Ahead, Rank
<1>3. CASE PutEntry(p) \/ StartKeepAlive(p) \/ RegisterFails(p)
  BY <1>3 DEF PutEntry, StartKeepAlive, RegisterFails, Ahead, Rank
<1>4. CASE InitService(p) \/ StartPlain(p) \/ ListenTCP(p) \/ ListenGRPC(p) \/ UndoTCP(p)
  <2>1. Current(p) \in DOMAIN ServicesOf[p]
    BY <1>4, CurrentIsFirst DEF InitService, StartPlain, ListenTCP, ListenGRPC, GateListens, UndoTCP, Starting
  <2>2. PICK from, to \in {"new", "inited", "half", "undoing", "started"} :
            svc[p][Current(p)] = from /\ At(p, Current(p), to) /\ SvcRank[from] < SvcRank[to]
    BY <1>4 DEF InitService, StartPlain, ListenTCP, ListenGRPC, GateListens, UndoTCP, Starting, SvcRank
  <2>3. UNCHANGED <<pc, defers>>
    BY <1>4 DEF InitService, StartPlain, ListenTCP, ListenGRPC, GateListens, UndoTCP
  <2>4. to \in ServiceState
    BY DEF ServiceState, Beginning, Up
  <2>5. QED
    BY <2>1, <2>2, <2>3, <2>4, ServiceIsAhead
<1>5. CASE StartFails(p) \/ AllStarted(p) \/ BeginShutdown(p) \/ ShutdownReturns(p) \/ ShutdownTimesOut(p)
  BY <1>5 DEF StartFails, Starting, AllStarted, BeginShutdown, ShutdownReturns, ShutdownTimesOut, Ahead, Rank
<1>6. CASE CloseGRPC(p) \/ CloseTCP(p) \/ StopService(p)
  <2>1. NextToStop(p) \in DOMAIN ServicesOf[p]
    BY <1>6, NextIsLast DEF CloseGRPC, CloseTCP, StopService, Stopping
  <2>2. PICK from, to \in {"started", "draining", "waiting", "stopped"} :
            svc[p][NextToStop(p)] = from /\ At(p, NextToStop(p), to) /\ SvcRank[from] < SvcRank[to]
    BY <1>6 DEF CloseGRPC, CloseTCP, StopService, Stopping, Ready, SvcRank
  <2>3. UNCHANGED <<pc, defers>>
    BY <1>6 DEF CloseGRPC, CloseTCP, StopService
  <2>4. to \in ServiceState
    BY DEF ServiceState, Beginning, Up
  <2>5. QED
    BY <2>1, <2>2, <2>3, <2>4, ServiceIsAhead
<1>7. CASE StopFails(p) \/ AllStopped(p)
  BY <1>7 DEF StopFails, Stopping, AllStopped, Ahead, Rank
<1>8. CASE RunDeferred(p)
  <2>1. UNCHANGED <<pc, svc>> /\ defers[p] # <<>> /\ defers'[p] = SubSeq(defers[p], 1, Len(defers[p]) - 1)
    BY <1>8 DEF RunDeferred
  <2>2. Len(defers'[p]) = Len(defers[p]) - 1
    <3>1. defers[p] \in Seq(Store)
      OBVIOUS
    <3>2. QED
      BY <2>1, <3>1, WithoutLast
  <2>3. Len(defers[p]) \in Nat
    OBVIOUS
  <2>4. QED
    BY <2>1, <2>2, <2>3 DEF Ahead
<1>9. CASE Return(p)
  BY <1>9 DEF Return, Ends, Ahead, Rank
<1>10. QED
  BY <1>1, <1>2, <1>3, <1>4, <1>5, <1>6, <1>7, <1>8, <1>9 DEF Step

LEMMA MoveIsAhead ==
    ASSUME TypeOK, NEW p \in Proc, Move(p)
    PROVE  Ahead(p) \/ Stays(p)
<1> USE DEF TypeOK, Goto
<1>1. CASE Step(p)
  BY <1>1, StepIsAhead
<1>2. CASE ListenHTTP(p) \/ Signal(p) \/ LeaseExpires(p) \/ LoseKeepAlive(p)
           \/ \E r \in Request : BeginRequest(p, r) \/ EndRequest(p, r)
  BY <1>2 DEF ListenHTTP, Signal, LeaseExpires, LoseKeepAlive, BeginRequest, EndRequest, Stays
<1>3. CASE ServeFails(p) \/ Crash(p)
  BY <1>3 DEF ServeFails, Crash, Ends, RunState, Ahead, Rank
<1>4. QED
  BY <1>1, <1>2, <1>3 DEF Move

(* Whatever the other processes, the clients, etcd and the operator do, a process never goes
   back in Run, and every step it takes by itself brings it nearer to its end: there is no
   loop in Run, so only a step that waits can keep a signalled process from ending.         *)
RunOnlyAdvances ==
    [][\A p \in Proc : (Ahead(p) \/ Stays(p)) /\ (Step(p) => Ahead(p))]_vars

(* Run has no way back, whatever fails in it and whatever the others do. *)
THEOREM RunOnlyAdvancesHolds == Spec => RunOnlyAdvances
<1>1. ASSUME IInv, [Next]_vars, NEW p \in Proc
      PROVE  (Ahead(p) \/ Stays(p)) /\ (Step(p) => Ahead(p))
  <2>1. CASE Move(p)
    BY <1>1, <2>1, MoveIsAhead, StepIsAhead DEF IInv
  <2>2. CASE \E q \in Proc : q # p /\ Move(q)
    BY <1>1, <2>2, OthersStay, StepIsAhead DEF IInv, Same, Stays
  <2>3. CASE UNCHANGED vars
    BY <1>1, <2>3, StepIsAhead DEF IInv, vars, Stays
  <2>4. QED
    BY <1>1, <2>1, <2>2, <2>3 DEF Next
<1>2. IInv /\ [Next]_vars => [\A p \in Proc : (Ahead(p) \/ Stays(p)) /\ (Step(p) => Ahead(p))]_vars
  BY <1>1
<1>3. QED
  BY <1>2, Invariance, PTL DEF Spec, RunOnlyAdvances

===============================================================================
