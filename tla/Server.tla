-------------------------------- MODULE Server --------------------------------
(***************************************************************************)
(* The runner every service is started with: Run, runHTTP and stopServices *)
(* of common/server, the stores and the etcd registration it opens, and    *)
(* the services of auth, gate and robot it starts.                         *)
(*                                                                         *)
(* A member of Proc is one run of a program, from its main to its end; a   *)
(* restart is another member.  Anything that may return an error may fail, *)
(* a signal or a kill may come at any time, and etcd drops an entry when   *)
(* its lease is no longer kept alive.                                      *)
(***************************************************************************)
EXTENDS Config, Sequences, FiniteSets

CONSTANTS Proc,
          NameOf,     \* the service name main passes to Run
          ServicesOf, \* the services main passes to Run, in order: "auth", "gate", "robot"
          HostOf,     \* the machine of each process
          StartsWith, \* <<a, b>>: the service name b begins with a
          Inputs,     \* the files, flags and environment each process may be started with
          Request,    \* HTTP requests
          Hijacked,   \* those upgraded to a WebSocket: Shutdown does not wait for them
          None

(* A program has one gate at most: the ports of a second one would be taken. *)
ASSUME ServerAssumption ==
    /\ Hijacked \subseteq Request
    /\ \A p \in Proc : ServicesOf[p] \in Seq({"auth", "gate", "robot"})
    /\ \A p \in Proc : \A j, k \in DOMAIN ServicesOf[p] :
           ServicesOf[p][j] = "gate" /\ ServicesOf[p][k] = "gate" => j = k
    /\ \A p \in Proc : <<NameOf[p], NameOf[p]>> \in StartsWith
    /\ None # Invalid /\ \A p \in Proc : \A in \in Inputs[p] : Load(in) # None

VARIABLES pc,        \* where Run of each process stands
          given,     \* what it was started with
          cfg,       \* its configuration
          defers,    \* what its deferred calls will close, the last one first
          svc,       \* the state of each of its services
          sockets,   \* listening sockets: process and kind
          inflight,  \* the requests its handlers work on
          signalled, \* processes whose ctx is done
          entry,     \* processes with an entry in etcd
          renewing,  \* processes that keep their lease alive
          hurried,   \* history: stopped with requests in flight
          failed,    \* history: a hook of one of their services returned an error
          crashed,   \* history: ended without returning from Run
          lost       \* history: lost the lease while running

etcd == <<entry, renewing>>
history == <<hurried, failed, crashed, lost>>
vars == <<pc, given, cfg, defers, svc, sockets, inflight, signalled, etcd, history>>

Store == {"redis", "mongo", "registry"}
Kind == {"http", "tcp", "grpc"}
RunState == {"load", "redis", "mongo", "registry", "register", "keepalive", "start", "serve",
             "shutdown", "stopping", "deferred", "exited"}

(* A service on its way up and down.  A gate is "half" with its TCP listener alone,
   "undoing" when the gRPC listener failed and the TCP one is closed again, "draining"
   when its Stop has closed the gRPC listener, "waiting" when it has closed both.     *)
Beginning == {"new", "inited", "half", "undoing"}
Up == {"started", "draining", "waiting"}
ServiceState == Beginning \cup Up \cup {"stopped"}

TypeOK ==
    /\ pc \in [Proc -> RunState]
    /\ DOMAIN cfg = Proc /\ DOMAIN svc = Proc
    /\ \A p \in Proc : given[p] \in Inputs[p] /\ cfg[p] \in {None, Load(given[p])}
    /\ \A p \in Proc : pc[p] \notin {"load", "deferred", "exited"} =>
           cfg[p] \notin {None, Invalid} /\ cfg[p].name = NameOf[p]
    /\ defers \in [Proc -> Seq(Store)] /\ \A p \in Proc : Len(defers[p]) <= 3
    /\ \A p \in Proc : svc[p] \in [DOMAIN ServicesOf[p] -> ServiceState]
    /\ sockets \in SUBSET (Proc \X Kind)
    /\ inflight \in [Proc -> SUBSET Request]
    /\ signalled \in SUBSET Proc /\ entry \in SUBSET Proc /\ renewing \in SUBSET Proc
    /\ hurried \in SUBSET Proc /\ failed \in SUBSET Proc /\ crashed \in SUBSET Proc /\ lost \in SUBSET Proc

Init ==
    /\ pc = [p \in Proc |-> "load"]
    /\ given \in [Proc -> UNION {Inputs[p] : p \in Proc}] /\ \A p \in Proc : given[p] \in Inputs[p]
    /\ cfg = [p \in Proc |-> None]
    /\ defers = [p \in Proc |-> <<>>]
    /\ svc = [p \in Proc |-> [k \in DOMAIN ServicesOf[p] |-> "new"]]
    /\ sockets = {}
    /\ inflight = [p \in Proc |-> {}]
    /\ signalled = {} /\ entry = {} /\ renewing = {}
    /\ hurried = {} /\ failed = {} /\ crashed = {} /\ lost = {}

Goto(p, state) == pc' = [pc EXCEPT ![p] = state]
At(p, k, state) == svc' = [svc EXCEPT ![p][k] = state]

InState(p, states) == {k \in DOMAIN ServicesOf[p] : svc[p][k] \in states}

First(K) == CHOOSE k \in K : \A j \in K : k <= j
Last(K) == CHOOSE k \in K : \A j \in K : j <= k

(* Mutated forms; only the mutation runs use them. *)
AcceptedAnyName(p) == Load(given[p]) # Invalid
StopFromTheFront(p) == First(InState(p, Up))
NotDrained(p) == TRUE
NothingLeft(p) == {}
KeepTCP(p) == sockets
NotRenewed(p) == renewing
PutWithoutLease(p) == FALSE
WaitsForEver(p) == FALSE

-------------------------------------------------------------------------------
(* Run, up to the services. *)

(* A configuration Load refuses, or one of another service, ends the program. *)
Accepted(p) == Load(given[p]) # Invalid /\ Load(given[p]).name = NameOf[p]

LoadConfig(p) ==
    /\ pc[p] = "load"
    /\ cfg' = [cfg EXCEPT ![p] = Load(given[p])]
    /\ Goto(p, IF Accepted(p) THEN "redis" ELSE "deferred")
    /\ UNCHANGED <<given, defers, svc, sockets, inflight, signalled, etcd, history>>

Uses(c, store) ==
    CASE store = "redis" -> c.redis [] store = "mongo" -> c.mongodb [] store = "registry" -> HasEtcd(c)

AfterStore == [redis |-> "mongo", mongo |-> "registry", registry |-> "register"]

OpenStore(p, store) ==
    /\ pc[p] = store
    /\ Uses(cfg[p], store)
    /\ defers' = [defers EXCEPT ![p] = Append(@, store)]
    /\ Goto(p, AfterStore[store])
    /\ UNCHANGED <<given, cfg, svc, sockets, inflight, signalled, etcd, history>>

SkipStore(p, store) ==
    /\ pc[p] = store
    /\ ~Uses(cfg[p], store)
    /\ Goto(p, IF store = "registry" THEN "start" ELSE AfterStore[store])
    /\ UNCHANGED <<given, cfg, defers, svc, sockets, inflight, signalled, etcd, history>>

(* The client cannot be made or its ping fails; it is closed again and Run
   returns.                                                                 *)
OpenStoreFails(p, store) ==
    /\ pc[p] = store
    /\ Uses(cfg[p], store)
    /\ Goto(p, "deferred")
    /\ UNCHANGED <<given, cfg, defers, svc, sockets, inflight, signalled, etcd, history>>

-------------------------------------------------------------------------------
(* Registry.Register: Grant, Put under the lease, KeepAlive, all with ctx. *)

(* The Put took effect; Register goes on, or returns because the reply was lost. *)
PutEntry(p) ==
    /\ pc[p] = "register"
    /\ p \notin signalled
    /\ entry' = entry \cup {p}
    /\ \E next \in {"keepalive", "deferred"} : Goto(p, next)
    /\ UNCHANGED <<given, cfg, defers, svc, sockets, inflight, signalled, renewing, history>>

(* The keep-alive runs under ctx too. *)
Renewed(p) == renewing \cup ({p} \ signalled)

StartKeepAlive(p) ==
    /\ pc[p] = "keepalive"
    /\ renewing' = Renewed(p)
    /\ lost' = lost \cup ({p} \ entry)
    /\ Goto(p, "start")
    /\ UNCHANGED <<given, cfg, defers, svc, sockets, inflight, signalled, entry, hurried, failed, crashed>>

(* An error, and always when ctx is done: nothing takes the entry back. *)
RegisterFails(p) ==
    /\ pc[p] \in {"register", "keepalive"}
    /\ Goto(p, "deferred")
    /\ UNCHANGED <<given, cfg, defers, svc, sockets, inflight, signalled, etcd, history>>

-------------------------------------------------------------------------------
(* runHTTP: the services one after the other, then the HTTP server. *)

Current(p) == First(InState(p, Beginning))

Kind_(p) == ServicesOf[p][Current(p)]

Starting(p, state) ==
    /\ pc[p] = "start"
    /\ InState(p, Beginning) # {}
    /\ svc[p][Current(p)] = state

(* auth's module refuses to be made without its stores. *)
CanInit(p) == Kind_(p) = "auth" => Uses(cfg[p], "redis") /\ Uses(cfg[p], "mongo")

(* OnInit; for auth it ends with EnsureIndexes. *)
InitService(p) ==
    /\ Starting(p, "new")
    /\ CanInit(p)
    /\ At(p, Current(p), "inited")
    /\ UNCHANGED <<pc, given, cfg, defers, sockets, inflight, signalled, etcd, history>>

(* A port that no other socket of the machine listens on. *)
Free(p, kind) ==
    \A s \in sockets :
        HostOf[s[1]] = HostOf[p] => PortOf(cfg[s[1]], s[2]) # PortOf(cfg[p], kind)

(* Start of auth and robot does nothing; AfterStart neither. *)
StartPlain(p) ==
    /\ Starting(p, "inited")
    /\ Kind_(p) # "gate"
    /\ At(p, Current(p), "started")
    /\ UNCHANGED <<pc, given, cfg, defers, sockets, inflight, signalled, etcd, history>>

(* GateModule.Start: the TCP listener, then the gRPC listener. *)
GateListens(p, from, kind, to) ==
    /\ Starting(p, from)
    /\ Kind_(p) = "gate"
    /\ Free(p, kind)
    /\ sockets' = sockets \cup {<<p, kind>>}
    /\ At(p, Current(p), to)
    /\ UNCHANGED <<pc, given, cfg, defers, inflight, signalled, etcd, history>>

ListenTCP(p) == GateListens(p, "inited", "tcp", "half")

ListenGRPC(p) == GateListens(p, "half", "grpc", "started")

(* tcpServer.Stop begins with the listener; then it waits for the handlers. *)
WithoutTCP(p) == sockets \ {<<p, "tcp">>}

(* The gRPC listener failed. *)
UndoTCP(p) ==
    /\ Starting(p, "half")
    /\ sockets' = WithoutTCP(p)
    /\ At(p, Current(p), "undoing")
    /\ UNCHANGED <<pc, given, cfg, defers, inflight, signalled, etcd, history>>

(* OnInit, BeforeStart or Start returned an error, the gate's after its handlers have
   ended: runHTTP returns at once and stops nothing.  AfterStart returns nil in every
   service.                                                                          *)
StartFails(p) ==
    /\ \E state \in {"new", "inited", "undoing"} : Starting(p, state)
    /\ failed' = failed \cup {p}
    /\ Goto(p, "deferred")
    /\ UNCHANGED <<given, cfg, defers, svc, sockets, inflight, signalled, etcd, hurried, crashed, lost>>

AllStarted(p) ==
    /\ pc[p] = "start"
    /\ InState(p, Beginning) = {}
    /\ Goto(p, "serve")
    /\ UNCHANGED <<given, cfg, defers, svc, sockets, inflight, signalled, etcd, history>>

ListenHTTP(p) ==
    /\ pc[p] = "serve"
    /\ <<p, "http">> \notin sockets
    /\ Free(p, "http")
    /\ sockets' = sockets \cup {<<p, "http">>}
    /\ UNCHANGED <<pc, given, cfg, defers, svc, inflight, signalled, etcd, history>>

(* ListenAndServe returns an error, before or after it listened: Shutdown is not
   called, and what it accepted goes on.                                         *)
ServeFails(p) ==
    /\ pc[p] = "serve"
    /\ sockets' = sockets \ {<<p, "http">>}
    /\ hurried' = IF <<p, "http">> \in sockets THEN hurried \cup {p} ELSE hurried
    /\ Goto(p, "stopping")
    /\ UNCHANGED <<given, cfg, defers, svc, inflight, signalled, etcd, failed, crashed, lost>>

-------------------------------------------------------------------------------
(* Requests. *)

(* A new connection, or one that was accepted and is not closed yet. *)
Reachable(p) ==
    \/ <<p, "http">> \in sockets
    \/ pc[p] = "shutdown"
    \/ p \in hurried /\ pc[p] \in {"stopping", "deferred"}

(* Only the gate has a handler that takes the connection over: handleWS. *)
Routed(p, r) == r \in Hijacked => \E k \in DOMAIN ServicesOf[p] : ServicesOf[p][k] = "gate"

BeginRequest(p, r) ==
    /\ Reachable(p)
    /\ \A q \in Proc : r \notin inflight[q]
    /\ Routed(p, r)
    /\ inflight' = [inflight EXCEPT ![p] = @ \cup {r}]
    /\ UNCHANGED <<pc, given, cfg, defers, svc, sockets, signalled, etcd, history>>

EndRequest(p, r) ==
    /\ r \in inflight[p]
    /\ inflight' = [inflight EXCEPT ![p] = @ \ {r}]
    /\ UNCHANGED <<pc, given, cfg, defers, svc, sockets, signalled, etcd, history>>

-------------------------------------------------------------------------------
(* The end of Run. *)

(* SIGINT or SIGTERM once Run listens for them: ctx is done, and with it the
   keep-alive that was started under it.                                      *)
Signal(p) ==
    /\ pc[p] \notin {"load", "exited"}
    /\ signalled' = signalled \cup {p}
    /\ renewing' = renewing \ {p}
    /\ UNCHANGED <<pc, given, cfg, defers, svc, sockets, inflight, entry, history>>

(* A server that has not listened yet is shut down at once, and never will listen. *)
BeginShutdown(p) ==
    /\ pc[p] = "serve"
    /\ p \in signalled
    /\ sockets' = sockets \ {<<p, "http">>}
    /\ Goto(p, IF <<p, "http">> \in sockets THEN "shutdown" ELSE "stopping")
    /\ UNCHANGED <<given, cfg, defers, svc, inflight, signalled, etcd, history>>

Drained(p) == inflight[p] \subseteq Hijacked

ShutdownReturns(p) ==
    /\ pc[p] = "shutdown"
    /\ Drained(p)
    /\ Goto(p, "stopping")
    /\ UNCHANGED <<given, cfg, defers, svc, sockets, inflight, signalled, etcd, history>>

(* After 5 seconds. *)
TimesOut(p) == ~Drained(p)

ShutdownTimesOut(p) ==
    /\ pc[p] = "shutdown"
    /\ TimesOut(p)
    /\ hurried' = hurried \cup {p}
    /\ Goto(p, "stopping")
    /\ UNCHANGED <<given, cfg, defers, svc, sockets, inflight, signalled, etcd, failed, crashed, lost>>

(* stopServices goes backwards through the started services. *)
NextToStop(p) == Last(InState(p, Up))

Stopping(p, state) ==
    /\ pc[p] = "stopping"
    /\ InState(p, Up) # {}
    /\ svc[p][NextToStop(p)] = state

(* GateModule.Stop: GracefulStop closes the gRPC listener before it waits for calls,
   and the TCP listener, open until that wait is over, before tcpServer.Stop waits
   for the handlers.                                                                 *)
CloseGRPC(p) ==
    /\ Stopping(p, "started")
    /\ ServicesOf[p][NextToStop(p)] = "gate"
    /\ sockets' = sockets \ {<<p, "grpc">>}
    /\ At(p, NextToStop(p), "draining")
    /\ UNCHANGED <<pc, given, cfg, defers, inflight, signalled, etcd, history>>

CloseTCP(p) ==
    /\ Stopping(p, "draining")
    /\ sockets' = WithoutTCP(p)
    /\ At(p, NextToStop(p), "waiting")
    /\ UNCHANGED <<pc, given, cfg, defers, inflight, signalled, etcd, history>>

(* Where a service is when its Stop returns; auth and robot do nothing in it. *)
Ready(p) == IF ServicesOf[p][NextToStop(p)] = "gate" THEN "waiting" ELSE "started"

StopService(p) ==
    /\ Stopping(p, Ready(p))
    /\ At(p, NextToStop(p), "stopped")
    /\ UNCHANGED <<pc, given, cfg, defers, sockets, inflight, signalled, etcd, history>>

(* A hook returned an error, before or after Stop took effect: the services before
   this one are not stopped.  The interface allows it; the hooks of auth, gate and
   robot return nil.                                                               *)
StopFails(p) ==
    /\ \/ Stopping(p, "started") /\ UNCHANGED svc
       \/ Stopping(p, Ready(p)) /\ At(p, NextToStop(p), "stopped")
    /\ failed' = failed \cup {p}
    /\ Goto(p, "deferred")
    /\ UNCHANGED <<given, cfg, defers, sockets, inflight, signalled, etcd, hurried, crashed, lost>>

Unstopped(p) == InState(p, Up)

AllStopped(p) ==
    /\ pc[p] = "stopping"
    /\ Unstopped(p) = {}
    /\ Goto(p, "deferred")
    /\ UNCHANGED <<given, cfg, defers, svc, sockets, inflight, signalled, etcd, history>>

(* Registry.Close closes the client, which ends the keep-alive; the lease is left
   to expire.                                                                     *)
RunDeferred(p) ==
    /\ pc[p] = "deferred"
    /\ defers[p] # <<>>
    /\ defers' = [defers EXCEPT ![p] = SubSeq(@, 1, Len(@) - 1)]
    /\ renewing' = IF defers[p][Len(defers[p])] = "registry" THEN renewing \ {p} ELSE renewing
    /\ UNCHANGED <<pc, given, cfg, svc, sockets, inflight, signalled, entry, history>>

(* The operating system takes what the process held. *)
Ends(p) ==
    /\ Goto(p, "exited")
    /\ sockets' = {s \in sockets : s[1] # p}
    /\ inflight' = [inflight EXCEPT ![p] = {}]
    /\ renewing' = renewing \ {p}
    /\ UNCHANGED <<given, cfg, defers, svc, signalled, entry, hurried, failed, lost>>

Return(p) ==
    /\ pc[p] = "deferred"
    /\ defers[p] = <<>>
    /\ Ends(p)
    /\ UNCHANGED crashed

Crash(p) ==
    /\ pc[p] \notin {"load", "exited"}
    /\ Ends(p)
    /\ crashed' = crashed \cup {p}

-------------------------------------------------------------------------------
(* etcd. *)

(* The key was put under a lease. *)
MayExpire(p) == p \notin renewing

LeaseExpires(p) ==
    /\ p \in entry
    /\ MayExpire(p)
    /\ entry' = entry \ {p}
    /\ UNCHANGED <<pc, given, cfg, defers, svc, sockets, inflight, signalled, renewing, history>>

(* No keep-alive reaches etcd for a whole TTL: the channel is closed, the goroutine
   that reads it returns, and the process goes on without an entry.                 *)
LoseKeepAlive(p) ==
    /\ p \in renewing
    /\ renewing' = renewing \ {p}
    /\ lost' = lost \cup {p}
    /\ UNCHANGED <<pc, given, cfg, defers, svc, sockets, inflight, signalled, entry, hurried, failed, crashed>>

(* What Discover returns for a service: every key below it, and below any service
   whose name begins with its name.                                               *)
Discover(name) == {p \in entry : <<name, NameOf[p]>> \in StartsWith}

(* The steps a process takes by itself. *)
Step(p) ==
    \/ LoadConfig(p)
    \/ \E store \in Store : OpenStore(p, store) \/ SkipStore(p, store) \/ OpenStoreFails(p, store)
    \/ PutEntry(p) \/ StartKeepAlive(p) \/ RegisterFails(p)
    \/ InitService(p) \/ StartPlain(p)
    \/ ListenTCP(p) \/ ListenGRPC(p) \/ UndoTCP(p)
    \/ StartFails(p) \/ AllStarted(p) \/ BeginShutdown(p)
    \/ ShutdownReturns(p) \/ ShutdownTimesOut(p)
    \/ CloseGRPC(p) \/ CloseTCP(p) \/ StopService(p) \/ StopFails(p)
    \/ AllStopped(p) \/ RunDeferred(p) \/ Return(p)

Move(p) ==
    \/ Step(p)
    \/ ListenHTTP(p) \/ ServeFails(p) \/ Signal(p) \/ Crash(p)
    \/ \E r \in Request : BeginRequest(p, r) \/ EndRequest(p, r)
    \/ LeaseExpires(p) \/ LoseKeepAlive(p)

Next == \E p \in Proc : Move(p)

Spec == Init /\ [][Next]_vars

(* The gate waits for its clients, perhaps for ever: its Stop for running gRPC calls
   and then, like a Start that failed at the gRPC listener, for TCP connections
   accepted too late to be closed by CloseAll.                                       *)
WaitsForClients(p) ==
    /\ pc[p] \in {"start", "stopping"}
    /\ InState(p, {"undoing", "draining", "waiting"}) # {}

(* Once ctx is done no step of Run waits for ever, those apart: the calls to etcd
   carry ctx, those to the stores and Shutdown a timeout.  A lease that nobody keeps
   alive runs out.                                                                   *)
Fairness ==
    \A p \in Proc :
        /\ WF_vars(p \in signalled /\ ~WaitsForClients(p) /\ Step(p))
        /\ WF_vars(LeaseExpires(p))

FairSpec == Spec /\ Fairness

-------------------------------------------------------------------------------
(* Properties. *)

Running(p) == pc[p] \notin {"load", "exited"}

(* The stop of a service begins only when the stop of every service started after it
   has returned, also one that waits for its clients: what a later service uses is
   still there (stopServices, from the last to the first).                           *)
StopsInReverse ==
    [][\A p \in Proc : \A k, j \in DOMAIN ServicesOf[p] :
          svc[p][k] = "started" /\ svc'[p][k] # "started" /\ k < j => svc[p][j] = "stopped"]_vars

(* While a handler works on a request, every service is started and every store of
   the configuration is open, unless Run gave up on the request: Shutdown timed out,
   the listener broke, or the connection was taken over by the handler.  This is what
   the order of Shutdown, stopServices and the deferred calls is for.               *)
WorldOutlivesRequests ==
    \A p \in Proc \ hurried : inflight[p] \ Hijacked # {} =>
        /\ \A k \in DOMAIN ServicesOf[p] : svc[p][k] = "started"
        /\ \A store \in Store : Uses(cfg[p], store) => \E i \in DOMAIN defers[p] : defers[p][i] = store

(* A run that ends by returning, and none of whose hooks failed, has stopped every
   service that it started, whichever way runHTTP came to its end.                 *)
StopsWhatItStarted ==
    \A p \in Proc : pc[p] = "exited" /\ p \notin failed \cup crashed =>
        InState(p, Up) = {}

(* The gate listens where it has begun to and not yet stopped, through failed starts,
   failed stops and waits for clients: each listener is closed before the wait that
   follows it, so a gate that waits for ever for a TCP client holds no port.  And a
   run none of whose hooks failed listens nowhere when it closes its stores.          *)
SocketsMatchServices ==
    \A p \in Proc : pc[p] # "exited" =>
        /\ \A k \in DOMAIN ServicesOf[p] : ServicesOf[p][k] = "gate" =>
              /\ <<p, "tcp">> \in sockets <=> svc[p][k] \in {"half", "started", "draining"}
              /\ <<p, "grpc">> \in sockets <=> svc[p][k] = "started"
        /\ pc[p] = "deferred" /\ p \notin failed => \A kind \in Kind : <<p, kind>> \notin sockets

(* A service that takes requests and was not told to stop is found through etcd, as
   long as its lease was never lost: Register comes before the HTTP listener, and its
   keep-alive lasts until ctx is done.                                               *)
ServingStaysRegistered ==
    \A p \in Proc :
        <<p, "http">> \in sockets /\ HasEtcd(cfg[p]) /\ p \notin signalled \cup lost
            => p \in Discover(NameOf[p])

(* What applyDefaults replaces: a key set to its zero value counts as not set. *)
Unset(key, value) ==
    \/ key \in {"lease_ttl", "advertise_port", "tcp_port", "grpc_port", "retention"} /\ value <= 0
    \/ key \in {"level", "advertise_host"} /\ value = ""

EnvAsked(p) ==
    IF given[p].flag # "" THEN given[p].flag ELSE IF given[p].appEnv # "" THEN given[p].appEnv ELSE "dev"

OverrideAsked(p) ==
    LET files == given[p].overrides
    IN  IF EnvAsked(p) \in DOMAIN files /\ files[EnvAsked(p)] # NoFile THEN files[EnvAsked(p)] ELSE << >>

(* The environment is the flag's, then APP_ENV's, then dev, whatever the files say of
   it; what the override file of that environment sets is in effect, and the defaults
   are the ones of that environment (configdoc.Load).                                 *)
EnvironmentConsistent ==
    \A p \in Proc : Running(p) /\ cfg[p] # Invalid =>
        LET override == OverrideAsked(p)
            set == DOMAIN override \cup DOMAIN given[p].base
            prod == EnvAsked(p) = "prod"
        IN  /\ cfg[p].env = EnvAsked(p)
            /\ \A key \in DOMAIN override \ {"env", "fileout", "stdout"} :
                   Unset(key, override[key]) \/ cfg[p][key] = override[key]
            /\ \A key \in DOMAIN override \cap {"fileout", "stdout"} : override[key] => cfg[p][key]
            /\ "level" \notin set => cfg[p].level = IF prod THEN "info" ELSE "debug"
            /\ "retention" \notin set => cfg[p].retention = IF prod THEN 30 ELSE 7

(* The entry of a run that has ended goes away, however it ended. *)
StaleEntryExpires ==
    \A p \in Proc : (pc[p] = "exited") ~> (p \notin entry)

(* A signal ends the process from wherever Run stands, or leaves the gate waiting for
   clients, in its Stop or in a Start that failed halfway.                           *)
SignalEndsProcess ==
    \A p \in Proc : (p \in signalled) ~> (pc[p] = "exited" \/ WaitsForClients(p))

===============================================================================
