# A TLA+ model of the wuziqi server

This directory specifies the stateful parts of the wuziqi (gomoku) server in
`src/server`: what they do, which properties they must have, TLC runs that check
the properties on small instances, and TLAPS proofs of the most important ones
for all instances. Every definition is translated from the Go code;
`PROJECT.json` maps each to the lines it stands for.

    tlc -workers 2 -config gate_disciplined.cfg MCGate.tla     # a run
    tlapm GateProofs.tla                                       # a proof

## 1. The system

A client logs in at **auth** (HTTP), which finds or creates its account in
MongoDB and its session in Redis and returns two one-shot credentials: a login
ticket and a connect token. It then connects to **gate** over TCP, WebSocket or
plain HTTP and presents a credential; gate asks auth to consume it and binds the
connection to the session that auth names. **robot** is a scripted client.
logic, battle and public are empty programs at this commit. Each service is run
by a common **server runner** that loads the configuration, connects the stores,
registers in etcd, starts the service's parts and stops them on a signal. `deps/` is
a library layer: **netmgr** (server-to-server and client TCP sessions), **fastid**
(unique ids), **etcd** (registrar and watcher), collections, logging. At this commit
the services use only its logging.

| Component | State | Operations | Hard behaviours |
| --- | --- | --- | --- |
| gate: GamerManager (`gate/module/manager.go`) | byConnID, bySession, closers, session of each Gamer, one mutex | Open, BindSession (evicts), Disconnect, CloseAll, Get, List, Stats | stale Gamers in bySession; eviction while the evicted handler still runs |
| gate: sockets and logins (`service.go`, `tcp_server.go`, `ws_server.go`, `handler.go`, `grpc_server.go`) | a goroutine per socket, listener, wait group | accept, login by ticket, token or session, logout, kick, shut down | the auth call between reading a request and binding; accept racing Stop |
| auth (`auth/module/service.go`, `repository.go`) | MongoDB bindings and accounts; Redis sessions, account pointer, credentials | Login, ConsumeLoginTicket, ConsumeConnectToken, ValidateSession | no lock over several stores; failures midway; lost replies; expiry |
| fastid (`deps/fastid`) | lastID | GenInt64ID and decoders | compare-and-swap loop, full sequence, clock set back |
| netmgr tables (`deps/netmgr/netmgr.go`) | sessMap, sessAgent, loginPending, acceptSessNum, task channel | register, kick, remove, send, login timeout, StopFront, Stop | many goroutines post tasks; full channel; stop racing everything |
| netmgr queue (`msgque_tcp.go`) | send channel, connection, once-flags | Send, read and write loops, stop, reconnect | three goroutines ending each other; messages in flight at stop |
| etcd registrar and watcher (`deps/etcd`) | lease id, key; revision, event channel | Register, keepAliveLoop, reRegister, update, Close; watchLoop | lease expiry, re-registration racing Close, dropped events |
| configdoc (`common/configdoc`) | none after loading | Load | files, flag, APP_ENV and defaults that depend on the environment |
| server runner, service registry, store clients (`common/server`, `common/discovery`, `common/cache`, `common/db`) | deferred closes, started services, lease | Run, runHTTP, stopServices, Register, Discover, Close | order of start, registration and stop; failures midway; requests in flight at the end; the lease outliving or leaving the process |
| robot (`robot/module/service.go`) | none | LoginCase | stops midway; a call that went through after its client gave up |
| basal, xlog, generated code | data structures, files | | mostly sequential |

Interaction: gate calls auth over HTTP; auth calls MongoDB and Redis; netmgr takes
session ids from fastid and reads their age back from them (login timeout); the
runner calls the registry, which keeps an etcd lease; robot calls auth, then gate twice. Inside gate the goroutines
share the GamerManager under a mutex and close each other's sockets through the
registered closers. Inside netmgr only the task loop touches the tables; all other
goroutines post closures to it.

What makes each part correct: a session is online on one connection, kicked
connections end, nothing is left behind (gate); one account per identity, one use per
credential, no credential without its session (auth); ids are unique and growing
(fastid); the four tables agree, no connection is left without an owner, dead
sessions leave, Stop returns (netmgr); nothing a request needs goes away under it, what
was started is stopped in reverse order, who serves is registered and who ended is not
(runner); a case that reports success told the truth (robot with auth and gate).

## 2. Modules

| Module | Models | Composes |
| --- | --- | --- |
| `GamerManager` | the maps of the gate and their operations, each atomic under `m.mu` | |
| `SessionSeat` | abstract: a session is a seat held by at most one connection | |
| `Gate` | handler goroutines, HTTP and gRPC requests, TCPServer.Stop | extends `GamerManager`, refines `SessionSeat` |
| `Auth` | login attempts, consume requests, MongoDB and Redis, expiry | |
| `IDSource` | abstract: ids handed out in one step each, unique, growing on a node | |
| `FastID` | GenInt64ID on several nodes with their clocks | refines `IDSource` |
| `NetMgr` | the tables of netmgr, the task channel, the goroutines that post | |
| `LoginSystem` | the robot's login case, gate's HTTP login, auth, and the HTTP calls between them | extends `Auth` and `GamerManager`, refines `Gate` |
| `Config` | configdoc.Load as an operator | |
| `Server` | Run of every service, its stores, sockets, requests and etcd entry | extends `Config` |
| `MC...` | instances for TLC | |
| `GateProofs`, `AuthProofs`, `FastIDProofs`, `NetMgrProofs`, `LoginSystemProofs`, `ServerProofs` | theorems | |

The definitions headed "mutated forms" in a module are variants of a definition
with a plausible bug in it. No specification uses them; `PROJECT.json` says which
property each breaks when it takes the definition's place.

### Gate

A connection is a member of `Conn`; those in `Socket` have a handler goroutine and
a closer, the others were opened over HTTP. `byConnID`, `closers` are sets,
`bySession` and `sessionID` functions; a Gamer is identified with its connection id,
because both are made together and never reused. `closed` is the set of sockets
on which Close was called. A handler's progress is `handler[c]`; a login is
`LoginStart`, `AuthAnswers` or `AuthFails`, `LoginBinds`, so that anything may happen
between them. `Claims[c]` is the set of sessions the credentials presented on c
stand for. HTTP logins name any announced connection, socket or not. Logout and
KickGamer are one action, both end in Disconnect. `Shows` is what Get reads. Answers written to clients and
the profile of a gamer are left out.

### Auth

Each call to a store is an action that takes effect or fails, and one that takes
effect may have its reply lost (`Moves`). What is atomic is one findAndModify, one
Redis command, one MULTI/EXEC; in particular the GET of `account_session` is
outside the transaction (`GetOldSession`, `ExecSaveSession`). Ids drawn by
attempt l are named l. Time is not modelled; the order of the TTLs (60 s, 5 min,
24 h by default) is, in the guards of the Expire actions: a session outlives the
attempt that made it and its credentials. `saved` and `overlaps` are history.
The upsert of FindOrCreateBinding names three fields both in `$set` and in
`$setOnInsert`; a MongoDB server may refuse such an update. The model takes the upsert as
it is meant.

### FastID

Ids are integers, packed and unpacked by arithmetic as in the code; a field of b
bits is a factor 2^b (`TimeSize`, `SeqSize`, `MachineSize`). A call is three steps,
load, clock, compare-and-swap. `Tick` is the wall clock; `MayStepBack` lets it go
back. As an IDSource, a call has been handed `newID[c]` once it is done; what it computed
and lost to another's compare-and-swap was never handed out.

### NetMgr

A session is one `tcpMsgQue`. `conn[s]` is the life of its connection, from the
handshake or the dial over the task that was offered to `"up"` and `"down"`; `agt[s]`
is its ConnAgt: nothing, a server key, or a user. `calls` holds tasks whose addTask
has passed the stopping check and not yet reached the channel, `queue` is the channel,
and `RunAccept` ... `RunFront` are the closures, each run as a whole by the loop.
`stopCalled` are sessions with a `SafeGo(stop)` on its way. KickSession and
RemoveSession share `RunRemove`: a kick with a gid that does not match does nothing,
which is the choice not to submit it. One goroutine shuts the manager down,
StopFront first or Stop only, so the branch of runTaskSync that runs the closure
inline when the manager is stopping is not reached; the stopSync that follows
StopFront's task is counted into it. SendMsg2One and its family and SetOptions change no
table and are left out.

### LoginSystem

`k \in Case` is a run of RobotService.LoginCase with login attempt k, which opens
connection `ConnOf[k]` and makes the login call `RequestOf[k]`. The other attempts,
connections and calls are other clients', which may present what any login
returned, again or twice, on any connection the gate has named, or show a session
itself (`ValidateSession`). Every HTTP client gives up after 5 s while the other side
goes on: `CaseFails` and `GateGivesUp` may come before, between or after what they wait
for, and a call that was given up may still reach auth. One auth and one gate; the
choice of an instance by Discover is not in it. `call[r].conn \in opened` because a
connection id is only known from the gate's answer. `opened` and `dropped` are history.

### Config and Server

`Load` takes the files, the flag and APP_ENV and gives the configuration or `Invalid`; a
file is the set of keys it sets.

A member of `Proc` is one run of a program from main to its end, so a restart is
another member. `pc[p]` is where Run stands, `defers[p]` the stack of its deferred
closes, `svc[p]` the state of each service passed to it. A gate is "half" between its TCP
and its gRPC listener, "undoing" when the second failed and Start, with the first closed
again, waits for the handlers; its Stop takes it from "started" over "draining" (gRPC
listener closed, waiting for the calls; TCP clients are still accepted) and "waiting" (TCP
listener closed, waiting for the handlers) to "stopped". Each of the two waits may last for
ever, with the sockets closed already. Run takes any number of services; the programs of
today pass one. Every call that may return an error has a failing action, and a signal or a kill may
come anywhere. AfterStart returns nil in all services and SetRuntime cannot fail, so
neither has a failing action. `sockets` are the listening ones; processes on one machine compete for
ports. A request that was hijacked (the gate's WebSocket) is not waited for by Shutdown.
`entry` and `renewing` are etcd's side: an entry goes when its lease is not kept
alive, which is also how it ends after Close. Discover asks for a prefix that does not end
in a slash, so it also returns the entries of a service whose name begins with the one
asked for (`StartsWith`). `hurried`, `failed`, `crashed` and `lost` are history.
The values viper takes from other environment variables are left out.

## 3. Runs

| Run | Instance | Shows |
| --- | --- | --- |
| `gate_disciplined` | a TCP, a WebSocket and an HTTP connection, two sessions; the first two compete for one | TypeOK, SessionIndexExact, SeatSpec (refinement) |
| `gate_rebind` | two TCP sockets, one of which may log in for two sessions, the other for one of them | NoOrphanSocket, FinishedHandlerIsForgotten, BindsOnlyConnected, EndedSocketIsForgotten, StopWaitsOnlyForLateConnections |
| `gate_dangling` | the same | violation: NoDanglingSession |
| `auth_logins` | three logins of one identity, two consume requests, symmetry | TypeOK, OneShot, OneAccountPerIdentity, LiveCredentialHasSession, NewestLoginSurvives, LeakNeedsOverlap |
| `auth_two_sessions` | two logins | violation: OneSessionPerAccount |
| `fastid` | three calls on one node, one on another, two ids to a tick, machine field smaller than the address | TypeOK, Unique, NoIDFromTheFuture, ImplementsIDSource (refinement), EveryCallReturns |
| `fastid_clock_set_back` | three calls, one node | violation: Unique |
| `netmgr` | two accepted sessions (a server, a user), one dialled session that wants the same key; channel of one, two calls in progress | TypeOK, AcceptCountExact, RouteExact, LoginsWatched, NoLeak |
| `netmgr_liveness` | one accepted session, one dialled and its reconnection | DeadSessionLeaves, StopReturns, FrontReturns |
| `netmgr_stop_race` | one accepted session | violation: NothingQueuedAfterStop |
| `login_system` | one robot case and another client that logs in as the same player; two connections, two calls | SysTypeOK, CredentialBindsOnce, CaseResultTrue, ImplementsGate (refinement) |
| `server` | two processes of one machine, one with auth and gate, one a gate that wants the same ports, may be given the other's file or a broken one; a plain request and a hijacked one | TypeOK, WorldOutlivesRequests, StopsWhatItStarted, SocketsMatchServices, ServingStaysRegistered, EnvironmentConsistent, StopsInReverse, StaleEntryExpires, SignalEndsProcess |

Why the bounds are enough. Gate: an eviction involves two connections and one
session; the dangling entry takes a second session; the third connection brings the
case without a handler. Auth: an overlap involves two logins, the third is the
one that must not be hurt by it; two requests suffice to spend a credential twice.
FastID: three callers make a compare-and-swap fail twice and exhaust a sequence of
two. NetMgr: two sessions compete for a key or for the channel's one place, one more is
needed for a limit and for a count; the real channel has 100000 places, the
short one makes the full channel happen. LoginSystem: a case can only be hurt by another
call on its connection or for its session, or by another login of its player; the run
has one of each. Server: an order of start and stop needs two services, a port taken
needs two processes, and one request of each kind shows whether it is waited for.
`Lead` and `Horizon` bound the clock,
`MaxCalls` the tasks on their way to the channel. The runs are not checked for deadlock:
clients may stop asking and the programs end.

StopsWhatItStarted is about runs none of whose hooks failed, and so is the part of
SocketsMatchServices about a run that closes its stores. The source's
`README.md:131` says that Run starts services in order and stops them in reverse; when a hook returns an
error, runHTTP returns at once and the services started before it are not stopped.
Today's programs have one service each and no stop hook that returns an error, so
it does not happen to them.

Findings (the violation runs):

- **A second login leaves the first session's entry behind.** BindSession overwrites the
  Gamer's SessionID and keeps the old key of bySession; closing the connection
  removes only the new key (`manager.go:147`). gate's framework summary says that
  the socket's close cleans up the local state.
- **Overlapping logins keep two sessions.** SaveSession reads the old session outside
  its transaction (`repository.go:126`); auth's framework summary says that the new
  session overwrites the old.
- **A clock set back repeats ids** (`fastid.go:87`), against "generates unique int64
  IDs".
- **A task is queued after run has returned** (`netmgr.go:111`): addTask's check and
  its send are two steps; the test of addTask after stop expects none.

## 4. Fairness

`Gate!Fairness`: goroutines that can run do; the auth client has a 5 s timeout, so an
auth call ends; a handler whose socket was closed fails to read once the buffered
requests are used up, hence strong fairness of `ReadEnds` on dead sockets. Nothing is
assumed of peers, of HTTP clients or of operators. `FastID!FairSpec`: callers run
and the clock ticks. `NetMgr!FairSpec`: the loop runs, a caller past the check
reaches the channel, a stop that was called runs. `CallFront` is strongly fair
because the bound `MaxCalls`, which the code does not have, may disable it
again and again. `Server!Fairness`: once a process is
signalled it goes on, because every call to etcd carries the context that is then
done and the calls to stores and Shutdown carry a timeout; except where the gate waits
(`WaitsForClients`): in its Stop for running gRPC calls, and there and in a Start whose
gRPC listener failed for TCP connections accepted too late to be closed. SignalEndsProcess
says that a signal ends the process or leaves it in one of these waits. And a lease that nobody keeps alive runs out. A process that is not signalled
may wait for ever. LoginSystem has no fairness: it promises nothing will happen. No fairness is put on connections, dials, timers, login timeouts or on Stop being
called.

## 5. Proofs

All theorems hold for every value of the constants that satisfies the named
assumptions of the modules.

- **GateProofs.** `SocketInv` (closers are the indexed sockets; a live handler's
  socket is indexed or closed; one that has not opened or has finished is not indexed)
  is inductive with TypeOK and gives NoOrphanSocket and FinishedHandlerIsForgotten.
  BindsOnlyConnected is proved action by action. For clients that log in
  for one session each (`Disciplined`), `IndexInv` adds that pending answers are
  claims of their connection, which is what keeps a bound connection from being
  bound elsewhere; with it SessionIndexExact is inductive, `Holder = bySession`
  follows, and every step maps to a step of SessionSeat or to a stutter; and
  NoDanglingSession holds, so the violation of `gate_dangling` needs a client with two
  sessions. `LifeInv` (a connection is announced before it is indexed or closed, a closed
  one is not indexed, after Stop no TCP handler lives), inductive with SocketInv for any
  clients, gives StopLeavesNothing and ClosedIsForgotten; GoneStaysGone is proved action
  by action.
- **AuthProofs.** `IInv` says where each attempt stands in terms of the stores
  (`LoginInv`), what a request in progress implies about its credential (`SpendInv`: a
  credential taken is no longer stored) and what the account pointer points to
  (`PointerInv`). It gives OneShot and OneAccountPerIdentity. `LiveInv` and `ReadInv`
  strengthen LiveCredentialHasSession and LeakNeedsOverlap: a saved session with
  unspent credentials lives unless a saved attempt had read it; an attempt in "exec"
  read the pointer or the attempts that changed it since are in its `overlaps`.
  OneSessionUnlessOverlap turns that round: the race of `auth_two_sessions` is the only way to
  two sessions of one account. `AccountInv` (an attempt past UpsertAccount, and
  every saved one, names an account that exists) gives SessionHasAccount;
  SessionTakenByOwnAccount (what ends a session is its own expiry step, or the EXEC of
  another login of its account that sets its own) follows from PointerInv: what
  SaveSession deletes is the session of the same account.
- **FastIDProofs.** `Fields` and `Packed` say that packing keeps the three fields apart;
  `NextID` that the id computed is greater than the last when the clock has not gone
  back. `ClockInv` (the last id's time is not ahead of the clock, ids made are not
  greater than the node's last) and `OnceInv` (two finished calls of a node have
  different ids) are inductive for `SteadyClocks`. Uniqueness over nodes also
  needs `DistinctMachines`: the real machine number is the low 13 bits of the
  last two bytes of the address, so it is an assumption on the deployment. With both,
  ImplementsIDSource is proved: a successful compare-and-swap is the step Hand of IDSource
  (greater than the node's ids by `SwapGrows`, different from the other nodes' by the
  machine field), every other step a stutter.
- **NetMgrProofs.** `OfferInv` follows an accepted or dialled connection from its handshake to the
  tables: while it is offered there is one add task of its own kind for it at most, in
  a call or in the channel, and its session is not in sessMap. That is why adding
  it raises the count by one, which makes AcceptCountExact inductive, and the
  bound of acceptNum in TypeOK follows. LoginsWatched and NoLeak are inductive with
  the types alone. RouteExact is proved for `Disciplined` peers (no two roles), with `RoleInv`: an
  agent, and every registration on its way, is what the peer says of itself; a
  session then holds one route at most, which leaves with it. `Flow` says what a step
  may do to the callers, the channel and the shutdown; with `FrontInv` (the task of StopFront
  exists once, while its caller waits) it gives DrainShrinks: after Stop, `Work` (two for each call,
  one for each queued task) falls with every step that touches them. `SettledInv` says that
  stop() is called on sessions that were up and have left sessMap; it gives EndReported (the
  end of a dead session in sessMap is on its way, unless taskChan was full or the
  manager stops), and SettledForGood says that such a session never comes back.
- **LoginSystemProofs.** `ImplementsAuth`: what the composition does to auth's stores are
  steps of Auth, so the invariant of AuthProofs holds in it. On top of it `Typed` gives the
  types of the rest, and `GrantInv` says that an answered or bound call that presented a credential
  was granted it by its own request; with Auth's OneShot that gives
  CredentialBindsOnce. `CaseInv` says where a case stands in terms of its
  connection and its call, `SeatInv` that what the session index points to was
  bound by a call, `KeptInv` that a case's bound connection still shows its session
  unless someone dropped it or bound it or the session after; together they give CaseResultTrue.
  ImplementsGate is proved with `Waiting` as the gate's calls on their way: an action of the
  composition is one of Gate's, with the answer auth gave, or leaves the gate alone.
  `NamedInv` (what auth answered was saved) and `ShownInv` (what a connection shows was bound by a call on it)
  join GrantInv and AccountInv to SeatsAreEarned, from a seat at the gate back to the
  account in MongoDB. AuthKeepsItsPromises carries the theorems of AuthProofs over.
- **ServerProofs.** `IInv` is TypeOK with, for each process, `Ordered` (started services are a
  prefix, then at most one on its way up, then new ones; while stopping, started ones are a
  prefix, then at most one on its way down, then stopped ones),
  `Listens` (which sockets go with which states, and that only a gate stands between two
  listeners), `Waits` (requests in flight only where
  the services are up, or after a hurried end), `Opened` (the deferred closes are the stores
  opened so far) and `Registered`. A move of p leaves the parts of the
  other processes alone (`Same`), so each is proved for p only. It gives
  WorldOutlivesRequests, StopsWhatItStarted, SocketsMatchServices and
  ServingStaysRegistered; StopsInReverse follows step by step from `Ordered`. `Loaded`
  (past the load, a process runs with what Load made of its files) with the lemmas about `Over` and
  `Defaulted` gives EnvironmentConsistent, for any files. `LeaseInv` (who keeps a lease
  alive, what is left of a process that ended) gives NothingFromTheDead; RunOnlyAdvances
  ranks the stages of Run.

Only model-checked: the liveness properties (EndedSocketIsForgotten,
StopWaitsOnlyForLateConnections, EveryCallReturns, DeadSessionLeaves, StopReturns,
FrontReturns, StaleEntryExpires, SignalEndsProcess), since fairness and ENABLED are beyond
the prover as used here. The safety part of some is proved for every value of the constants:
EndReported and SettledForGood for DeadSessionLeaves, DrainShrinks for StopReturns,
NothingFromTheDead for StaleEntryExpires, RunOnlyAdvances for SignalEndsProcess, and
StopLeavesNothing for what Stop of the TCP server may rely on when it has returned. What is
left to the runs is that each of the steps that remain is taken.
Every invariant and every safety property of a passing run has a theorem.

## 6. Not modelled

- DeleteSession of auth has no caller. Profile fields, tokens' bytes, HTTP and JSON.
- fastid: the end of the 40-bit time field (2054); InitWithMachineID called after ids
  were made, which would start lastID again.
- netmgr: the inside of a queue (send channel, quit and drain, framing, encryption),
  MergeOptions (it drops ListenParams, and the next accept would dereference nil), the
  overshoot of MaxConn by connections that arrive before the first is counted.
- netmgr: after a peer's end, its reader may still be in a handler and post a
  task; the model's handlers post only while the connection is up, and hold the task
  in `calls` instead.
- The registrar and the watcher of `deps/etcd`, the router, the consistent hash and the other
  collections: no service uses them; planned below.
- The runner: which address a client picks among those Discover returns; OnReload, which has
  no caller; the discovery endpoint, which only reads. `common/cache/redis` beyond opening and
  closing has no caller.
- logic, battle, public are empty; generated code and the Godot client (one request at a time) have no state worth a model.

## 7. Plan

Done: Gate and SessionSeat, Auth, FastID and IDSource, NetMgr, LoginSystem, Config and Server, with their theorems.

1. `TcpMsgQue`: reader, writer and stop of one queue; the disconnect event at most once
   and exactly once unless stopped; what Send accepted is written or the
   connection ended; refinement of the connection states of NetMgr.
   `FrameReader` as an algorithm: chunked input gives the frames that were sent.
2. `Registrar`: two instances of a service id, etcd with leases and its lock,
   keepAliveLoop, reRegister, Close; the watcher's view. Hazards: overwriting a
   successor, an entry that outlives Close.
3. The algorithms: consistent hash, sorted list, send delay.
