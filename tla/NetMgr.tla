-------------------------------- MODULE NetMgr --------------------------------
(***************************************************************************)
(* deps/netmgr: the session tables of a NetMgr and the task loop that owns *)
(* them.  Everything else, the accept and dial goroutines, the readers and *)
(* writers of the queues, the message handlers, the callers of the API,    *)
(* asks for a change by putting a task on taskChan with addTask, which     *)
(* first checks the stopping flag, then tries the channel: two steps, so   *)
(* Stop may come in between.                                               *)
(*                                                                         *)
(* A session is one tcpMsgQue: the connection it carries and the agent     *)
(* that says what its peer is.  One goroutine shuts the manager down, with *)
(* StopFront first or with Stop only.                                      *)
(***************************************************************************)
EXTENDS Integers, Sequences, FiniteSets

CONSTANTS Accept,    \* sessions of connections accepted by the listener
          Dial,      \* sessions of connections dialled by StartConnect
          Svr,       \* keys of sessAgent: server type and id
          TypeOf,    \* the type of a key
          Roles,     \* what the peer of each session says it is: keys, or User
          Target,    \* the server each dialled session is for
          User, None, \* User: a client with a gid
          MaxConn,   \* ListenParams.MaxConn
          QueueCap,  \* capacity of taskChan
          MaxCalls   \* bound: addTask calls in progress at one time

Sess == Accept \cup Dial

ASSUME NetMgrAssumption ==
    /\ IsFiniteSet(Sess) /\ Accept \cap Dial = {} /\ None \notin Sess \cup Svr /\ User \notin Svr \cup {None}
    /\ Roles \in [Sess -> SUBSET (Svr \cup {User})]
    /\ MaxConn \in Nat /\ QueueCap \in Nat \ {0} /\ MaxCalls \in Nat \ {0}

VARIABLES conn,        \* the connection of each session
          agt,         \* its ConnAgt: None, a key, or User
          sessMap,     \* keys of mgr.sessMap
          sessAgent,   \* mgr.sessAgent
          pending,     \* keys of mgr.loginPending
          acceptNum,   \* mgr.acceptSessNum
          calls,       \* tasks whose addTask has passed the stopping check
          queue,       \* mgr.taskChan
          loop,        \* where run stands
          shutdown,    \* where the goroutine that shuts the manager down stands
          stopCalled,  \* sessions on which stop() was called
          lost         \* history: sessions whose end was not queued: taskChan was full

tables == <<sessMap, sessAgent, pending, acceptNum>>
vars == <<conn, agt, tables, calls, queue, loop, shutdown, stopCalled, lost>>

Task == ({"accept", "connect", "over", "remove"} \X Sess)
            \cup ({"register"} \X Sess \X Svr) \cup ({"removeSvr"} \X Svr) \cup {<<"front">>}

TypeOK ==
    /\ conn \in [Sess -> {"none", "handshake", "dialing", "waiting", "offered", "up", "down"}]
    /\ agt \in [Sess -> Svr \cup {User, None}]
    /\ sessMap \in SUBSET Sess
    /\ sessAgent \in [Svr -> Sess \cup {None}]
    /\ pending \in SUBSET Accept
    /\ acceptNum \in 0 .. Cardinality(Accept)
    /\ calls \in SUBSET Task
    /\ queue \in Seq(Task) /\ Len(queue) <= QueueCap
    /\ loop \in {"running", "draining", "done"}
    /\ shutdown \in {"no", "listener", "front", "fronted", "stop"}
    /\ stopCalled \in SUBSET Sess
    /\ lost \in SUBSET Sess

Init ==
    /\ conn = [s \in Sess |-> "none"]
    /\ agt = [s \in Sess |-> None]
    /\ sessMap = {}
    /\ sessAgent = [k \in Svr |-> None]
    /\ pending = {}
    /\ acceptNum = 0
    /\ calls = {}
    /\ queue = <<>>
    /\ loop = "running"
    /\ shutdown = "no"
    /\ stopCalled = {}
    /\ lost = {}

(* mgr.stopping *)
Stopping == shutdown = "stop"

Goes(s, state) == conn' = [conn EXCEPT ![s] = state]

(* decAcceptSessNum, n times: never below zero. *)
Less(n) == IF n > acceptNum THEN 0 ELSE acceptNum - n

(* Mutated forms; only the mutation runs use them. *)
IgnoreStopping == TRUE
KeepRoute(k, s) == sessAgent
NoSafeGo(S) == stopCalled' = stopCalled
TrackNobody(s) == {}
LoseEnd(s) == UNCHANGED calls
NeverDone == UNCHANGED shutdown
AnyNeedsLogin(s) == agt[s] = None
CountsDialled(S) ==
    /\ sessMap' = sessMap \ S
    /\ pending' = pending \ (S \cap sessMap)
    /\ acceptNum' = Less(Cardinality(S \cap sessMap))

-------------------------------------------------------------------------------
(* addTask *)

MayAdd == ~Stopping

(* The caller has passed the check and holds the task. *)
Submit(t) ==
    /\ MayAdd
    /\ Cardinality(calls) < MaxCalls
    /\ t \notin calls
    /\ calls' = calls \cup {t}

Enqueue(t) ==
    /\ t \in calls
    /\ Len(queue) < QueueCap
    /\ queue' = Append(queue, t)
    /\ calls' = calls \ {t}
    /\ UNCHANGED <<conn, agt, tables, loop, shutdown, stopCalled, lost>>

(* taskChan is full: the callers close the connection they offered, schedule
   another dial, go on with StopFront, or ignore the failure.                *)
Drop(t) ==
    /\ t \in calls
    /\ Len(queue) = QueueCap
    /\ calls' = calls \ {t}
    /\ \/ t[1] = "accept" /\ Goes(t[2], "down") /\ UNCHANGED <<shutdown, lost>>
       \/ /\ t[1] = "connect"
          /\ Goes(t[2], "down") \/ (~Stopping /\ Goes(t[2], "waiting"))
          /\ UNCHANGED <<shutdown, lost>>
       \/ t[1] = "over" /\ lost' = lost \cup {t[2]} /\ UNCHANGED <<conn, shutdown>>
       \/ t[1] = "front" /\ shutdown' = "fronted" /\ UNCHANGED <<conn, lost>>
       \/ t[1] \in {"register", "remove", "removeSvr"} /\ UNCHANGED <<conn, shutdown, lost>>
    /\ UNCHANGED <<agt, tables, queue, loop, stopCalled>>

-------------------------------------------------------------------------------
(* The goroutines of connections. *)

(* handleAcceptConn: the limit is checked here, the session is counted later. *)
Arrives(s) ==
    /\ s \in Accept /\ conn[s] = "none"
    /\ shutdown = "no"
    /\ Goes(s, IF MaxConn > 0 /\ acceptNum >= MaxConn THEN "down" ELSE "handshake")
    /\ UNCHANGED <<agt, tables, calls, queue, loop, shutdown, stopCalled, lost>>

StartConnect(s) ==
    /\ s \in Dial /\ \A d \in Dial : Target[d] = Target[s] => conn[d] = "none"
    /\ Goes(s, "dialing")
    /\ UNCHANGED <<agt, tables, calls, queue, loop, shutdown, stopCalled, lost>>

(* The dial or the handshake fails; a dialled session tries again later unless
   CanReconnect says that the target is gone.                                  *)
HandshakeFails(s) ==
    /\ \/ conn[s] = "handshake" /\ Goes(s, "down")
       \/ conn[s] = "dialing" /\ (Goes(s, "waiting") \/ Goes(s, "down"))
    /\ UNCHANGED <<agt, tables, calls, queue, loop, shutdown, stopCalled, lost>>

TimerFires(s) ==
    /\ conn[s] = "waiting"
    /\ Goes(s, "dialing")
    /\ UNCHANGED <<agt, tables, calls, queue, loop, shutdown, stopCalled, lost>>

HandshakeDone(s) ==
    /\ \/ conn[s] = "handshake" /\ Submit(<<"accept", s>>) /\ Goes(s, "offered")
       \/ conn[s] = "dialing" /\ Submit(<<"connect", s>>) /\ Goes(s, "offered")
       \/ conn[s] \in {"handshake", "dialing"} /\ ~MayAdd /\ Goes(s, "down") /\ UNCHANGED calls
    /\ UNCHANGED <<agt, tables, queue, loop, shutdown, stopCalled, lost>>

(* sessOverEvt, from the reader or the writer, whichever fails first. *)
ReportEnd(s) == Submit(<<"over", s>>) \/ (~MayAdd /\ UNCHANGED calls)

Breaks(s) ==
    /\ conn[s] = "up"
    /\ ReportEnd(s)
    /\ Goes(s, "down")
    /\ UNCHANGED <<agt, tables, queue, loop, shutdown, stopCalled, lost>>

(* stop() gets to run: reader and writer end without an event. *)
StopRuns(s) ==
    /\ s \in stopCalled /\ conn[s] = "up"
    /\ Goes(s, "down")
    /\ UNCHANGED <<agt, tables, calls, queue, loop, shutdown, stopCalled, lost>>

-------------------------------------------------------------------------------
(* Message handlers and callers of the API. *)

(* AddCltUser is not a task. *)
UserLogsIn(s) ==
    /\ conn[s] = "up" /\ User \in Roles[s] /\ agt[s] # User
    /\ agt' = [agt EXCEPT ![s] = User]
    /\ UNCHANGED <<conn, tables, calls, queue, loop, shutdown, stopCalled, lost>>

RegisterSess(s, k) ==
    /\ conn[s] = "up" /\ k \in Roles[s]
    /\ Submit(<<"register", s, k>>)
    /\ UNCHANGED <<conn, agt, tables, queue, loop, shutdown, stopCalled, lost>>

(* RemoveSession, or KickSession with the gid of the session's user or 0. *)
RemoveSession(s) ==
    /\ conn[s] \in {"up", "down"}
    /\ Submit(<<"remove", s>>)
    /\ UNCHANGED <<conn, agt, tables, queue, loop, shutdown, stopCalled, lost>>

RemoveSvr(k) ==
    /\ Submit(<<"removeSvr", k>>)
    /\ UNCHANGED <<conn, agt, tables, queue, loop, shutdown, stopCalled, lost>>

-------------------------------------------------------------------------------
(* The tables. *)

NeedsLogin(s) == s \in Accept /\ agt[s] = None

Tracked(s) == IF NeedsLogin(s) THEN {s} ELSE {}

AddSess(s) ==
    /\ sessMap' = sessMap \cup {s}
    /\ pending' = pending \cup Tracked(s)
    /\ acceptNum' = acceptNum + Cardinality({s} \cap Accept)

(* deleteSess for every session of S; nothing for those not in sessMap. *)
DeleteSess(S) ==
    /\ sessMap' = sessMap \ S
    /\ pending' = pending \ (S \cap sessMap)
    /\ acceptNum' = Less(Cardinality(S \cap sessMap \cap Accept))

(* sessAgent without one of the entries of k's type that hold s. *)
WithoutRoute(k, s) ==
    LET held == {j \in Svr : k \in Svr /\ TypeOf[j] = TypeOf[k] /\ sessAgent[j] = s}
    IN  IF held = {} THEN sessAgent
        ELSE [sessAgent EXCEPT ![CHOOSE j \in held : TRUE] = None]

(* basal.SafeGo(stop) for every session of S *)
SafeGoStop(S) == stopCalled' = stopCalled \cup S

-------------------------------------------------------------------------------
(* The task loop. *)

Runs(t) ==
    /\ loop \in {"running", "draining"}
    /\ queue # <<>> /\ Head(queue) = t
    /\ queue' = Tail(queue)
    /\ UNCHANGED <<calls, loop, lost>>

NoEffect == UNCHANGED <<conn, agt, tables, shutdown, stopCalled>>

(* OnNewMsgQue may refuse the session that was just added. *)
RunAccept(s) ==
    /\ Runs(<<"accept", s>>)
    /\ \/ AddSess(s) /\ Goes(s, "up") /\ UNCHANGED stopCalled
       \/ SafeGoStop({s}) /\ Goes(s, "down") /\ UNCHANGED <<sessMap, pending, acceptNum>>
    /\ UNCHANGED <<agt, sessAgent, shutdown>>

RunConnect(s) ==
    /\ Runs(<<"connect", s>>)
    /\ AddSess(s)
    /\ Goes(s, "up")
    /\ UNCHANGED <<agt, sessAgent, shutdown, stopCalled>>

RunRegister(s, k) ==
    /\ Runs(<<"register", s, k>>)
    /\ \/ s \notin sessMap /\ NoEffect
       \/ /\ s \in sessMap
          /\ sessAgent' = [sessAgent EXCEPT ![k] = s]
          /\ pending' = pending \ {s}
          /\ agt' = [agt EXCEPT ![s] = IF @ = User THEN User ELSE k]
          /\ UNCHANGED <<conn, sessMap, acceptNum, shutdown, stopCalled>>

(* What KickSession, RemoveSession, RemoveSvr and sessOverEvt share. *)
Leaves(s, k) ==
    /\ DeleteSess({s})
    /\ sessAgent' = WithoutRoute(k, s)
    /\ SafeGoStop({s})
    /\ UNCHANGED <<agt, shutdown>>

RunRemove(s) ==
    /\ Runs(<<"remove", s>>)
    /\ \/ s \notin sessMap /\ NoEffect
       \/ s \in sessMap /\ Leaves(s, agt[s]) /\ UNCHANGED conn

RunRemoveSvr(k) ==
    /\ Runs(<<"removeSvr", k>>)
    /\ \/ sessAgent[k] = None /\ NoEffect
       \/ sessAgent[k] # None /\ Leaves(sessAgent[k], k) /\ UNCHANGED conn

(* A fresh tcpMsgQue for the target of s. *)
Fresh(s) == {d \in Dial : s \in Dial /\ Target[d] = Target[s] /\ conn[d] = "none"}

RunOver(s) ==
    /\ Runs(<<"over", s>>)
    /\ \/ s \notin sessMap /\ NoEffect
       \/ /\ s \in sessMap
          /\ Leaves(s, agt[s])
          /\ UNCHANGED conn \/ \E d \in Fresh(s) : Goes(d, "dialing")

(* close(done): the caller of runTaskSync goes on. *)
FrontDone == shutdown' = "fronted"

(* The task of StopFront: the route of a session's key goes whoever holds it. *)
RunFront ==
    LET gone == sessMap \cap Accept
    IN  /\ Runs(<<"front">>)
        /\ DeleteSess(gone)
        /\ sessAgent' = [k \in Svr |-> IF \E s \in gone : agt[s] = k THEN None ELSE sessAgent[k]]
        /\ SafeGoStop(gone)
        /\ FrontDone
        /\ UNCHANGED <<conn, agt>>

(* handleLoginTimeout: expired are the pending sessions older than loginTimeout. *)
LoginTimeout(expired) ==
    LET late == {s \in expired \cap sessMap : NeedsLogin(s)}
    IN  /\ loop = "running" /\ expired \subseteq pending
        /\ sessMap' = sessMap \ late
        /\ acceptNum' = Less(Cardinality(late))
        /\ pending' = {s \in pending \cap sessMap : NeedsLogin(s)} \ late
        /\ SafeGoStop(late)
        /\ UNCHANGED <<conn, agt, sessAgent, calls, queue, loop, shutdown, lost>>

(* run sees stopCh closed; tasks may win the select before. *)
BeginDrain ==
    /\ loop = "running" /\ Stopping
    /\ loop' = "draining"
    /\ UNCHANGED <<conn, agt, tables, calls, queue, shutdown, stopCalled, lost>>

(* drainTasks found the channel empty; stopAllSess; run returns. *)
StopAllSess ==
    /\ loop = "draining" /\ queue = <<>>
    /\ SafeGoStop(sessMap)
    /\ conn' = [s \in Sess |-> IF s \in sessMap THEN "down" ELSE conn[s]]
    /\ loop' = "done"
    /\ UNCHANGED <<agt, tables, calls, queue, shutdown, lost>>

-------------------------------------------------------------------------------
(* Shutting down. *)

StopListen ==
    /\ shutdown = "no"
    /\ shutdown' = "listener"
    /\ UNCHANGED <<conn, agt, tables, calls, queue, loop, stopCalled, lost>>

(* runTaskSync: waits until the task has run, or its addTask fails. *)
CallFront ==
    /\ shutdown = "listener"
    /\ Submit(<<"front">>)
    /\ shutdown' = "front"
    /\ UNCHANGED <<conn, agt, tables, queue, loop, stopCalled, lost>>

Stop ==
    /\ shutdown \in {"no", "fronted"}
    /\ shutdown' = "stop"
    /\ UNCHANGED <<conn, agt, tables, calls, queue, loop, stopCalled, lost>>

LoopStep ==
    \/ \E s \in Sess :
          \/ RunAccept(s) \/ RunConnect(s) \/ RunRemove(s) \/ RunOver(s)
          \/ \E k \in Svr : RunRegister(s, k)
    \/ \E k \in Svr : RunRemoveSvr(k)
    \/ RunFront
    \/ BeginDrain \/ StopAllSess

Next ==
    \/ LoopStep
    \/ \E expired \in SUBSET pending : LoginTimeout(expired)
    \/ \E t \in calls : Enqueue(t) \/ Drop(t)
    \/ \E s \in Sess :
          \/ Arrives(s) \/ StartConnect(s) \/ HandshakeFails(s) \/ TimerFires(s)
          \/ HandshakeDone(s) \/ Breaks(s) \/ StopRuns(s) \/ UserLogsIn(s) \/ RemoveSession(s)
          \/ \E k \in Svr : RegisterSess(s, k)
    \/ \E k \in Svr : RemoveSvr(k)
    \/ StopListen \/ CallFront \/ Stop

Spec == Init /\ [][Next]_vars

(* The loop runs and so does every goroutine that holds a task or a stop. *)
FairSpec ==
    /\ Spec
    /\ WF_vars(LoopStep)
    /\ \A t \in Task : WF_vars(Enqueue(t) \/ Drop(t))
    /\ \A s \in Sess : WF_vars(StopRuns(s))
    /\ SF_vars(CallFront)

-------------------------------------------------------------------------------
(* Safety properties. *)

(* acceptSessNum, which the accept limit reads, counts the accepted sessions in
   sessMap whichever of kick, remove, timeout, StopFront and end of connection
   come together for one session.                                              *)
AcceptCountExact == acceptNum = Cardinality(sessMap \cap Accept)

(* Peers that say one thing only about themselves. *)
Disciplined == \A s \in Sess : \A j, k \in Roles[s] : j = k

(* A route leads to a session that is in sessMap and that registered under its
   key: SendMsg2Fix never writes to a session that has left or to another server. *)
RouteExact ==
    \A k \in Svr : sessAgent[k] # None => sessAgent[k] \in sessMap /\ agt[sessAgent[k]] = k

(* The login timeout watches every accepted session that has not said what it is,
   and only sessions that are still there.                                        *)
LoginsWatched ==
    /\ \A s \in sessMap : NeedsLogin(s) => s \in pending
    /\ pending \subseteq sessMap

(* A connection that is up is in sessMap, or stop() is on its way to it; after run
   has returned, only the latter.                                                 *)
NoLeak ==
    \A s \in Sess : conn[s] = "up" => s \in stopCalled \/ (s \in sessMap /\ loop # "done")

(* "addTask queued %d tasks after stop": none. *)
NothingQueuedAfterStop == loop = "done" => queue = <<>>

-------------------------------------------------------------------------------
(* Liveness properties, of FairSpec. *)

(* A dead session leaves sessMap, even when it dies before Start returns, unless
   its end found taskChan full or the manager stops.                             *)
DeadSessionLeaves ==
    \A s \in Sess : s \in sessMap /\ conn[s] = "down" ~> s \notin sessMap \/ s \in lost \/ Stopping

(* Stop returns: no flow of tasks keeps the drain going. *)
StopReturns == Stopping ~> loop = "done"

(* StopFront returns. *)
FrontReturns == shutdown \in {"listener", "front"} ~> shutdown = "fronted"

===============================================================================
