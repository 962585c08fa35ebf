---------------------------- MODULE NetMgrProofs ----------------------------
(***************************************************************************)
(* Proofs about NetMgr, for any sessions, keys, limits and capacities.     *)
(***************************************************************************)
EXTENDS NetMgr, FiniteSetTheorems, TLAPS

USE NetMgrAssumption DEF Sess

(* Everything TypeOK says but the range of acceptNum, which takes a count. *)
Typed ==
    /\ conn \in [Sess -> {"none", "handshake", "dialing", "waiting", "offered", "up", "down"}]
    /\ agt \in [Sess -> Svr \cup {User, None}]
    /\ sessMap \in SUBSET Sess
    /\ sessAgent \in [Svr -> Sess \cup {None}]
    /\ pending \in SUBSET Accept
    /\ calls \in SUBSET Task
    /\ queue \in Seq(Task) /\ Len(queue) <= QueueCap
    /\ loop \in {"running", "draining", "done"}
    /\ shutdown \in {"no", "listener", "front", "fronted", "stop"}
    /\ stopCalled \in SUBSET Sess
    /\ lost \in SUBSET Sess

LEMMA TaskKinds ==
    /\ \A s \in Sess : /\ <<"accept", s>> \in Task /\ <<"connect", s>> \in Task
                       /\ <<"over", s>> \in Task /\ <<"remove", s>> \in Task
    /\ \A s \in Sess, k \in Svr : <<"register", s, k>> \in Task
    /\ \A k \in Svr : <<"removeSvr", k>> \in Task
    /\ <<"front">> \in Task
BY DEF Task

(* A task that is about a session names it. *)
LEMMA TaskSession ==
    ASSUME NEW t \in Task, t[1] \in {"accept", "connect", "over"}
    PROVE  t[2] \in Sess /\ t = <<t[1], t[2]>>
<1>1. CASE t \in {"accept", "connect", "over", "remove"} \X Sess
  BY <1>1
<1>2. CASE t \in {"register"} \X Sess \X Svr
  BY <1>2
<1>3. CASE t \in {"removeSvr"} \X Svr
  BY <1>3
<1>4. CASE t = <<"front">>
  BY <1>4
<1>5. QED
  BY <1>1, <1>2, <1>3, <1>4 DEF Task

(* What run takes from the channel and what a call puts there. *)
LEMMA Taken ==
    ASSUME Typed, NEW t, Runs(t)
    PROVE  /\ queue' \in Seq(Task) /\ Len(queue') <= QueueCap
           /\ Len(queue') = Len(queue) - 1
           /\ \A i \in DOMAIN queue' : i + 1 \in DOMAIN queue /\ queue'[i] = queue[i + 1]
           /\ 1 \in DOMAIN queue /\ queue[1] = t
BY DEF Typed, Runs

LEMMA Put ==
    ASSUME Typed, NEW t \in calls, Enqueue(t)
    PROVE  /\ queue' \in Seq(Task) /\ Len(queue') <= QueueCap
           /\ DOMAIN queue' = 1 .. Len(queue) + 1
           /\ queue'[Len(queue) + 1] = t
           /\ \A i \in DOMAIN queue : queue'[i] = queue[i] /\ i \in DOMAIN queue'
BY DEF Typed, Enqueue

LEMMA TypedStep ==
    Typed /\ [Next]_vars => Typed'
<1> SUFFICES ASSUME Typed, [Next]_vars
             PROVE  Typed'
  OBVIOUS
<1> USE Typed DEF Typed, Goes, tables, SafeGoStop, Submit, Runs
<1>1. ASSUME NEW s \in Sess, RunAccept(s)
      PROVE  Typed'
  BY <1>1, Taken DEF RunAccept, AddSess, Tracked, NeedsLogin
<1>2. ASSUME NEW s \in Sess, RunConnect(s)
      PROVE  Typed'
  BY <1>2, Taken DEF RunConnect, AddSess, Tracked, NeedsLogin
<1>3. ASSUME NEW s \in Sess, NEW k
      PROVE  WithoutRoute(k, s) \in [Svr -> Sess \cup {None}]
  BY DEF WithoutRoute
<1>4. ASSUME NEW s \in Sess, NEW k, Leaves(s, k)
      PROVE  /\ sessMap' \in SUBSET Sess /\ pending' \in SUBSET Accept
             /\ sessAgent' \in [Svr -> Sess \cup {None}] /\ stopCalled' \in SUBSET Sess
             /\ agt' = agt /\ shutdown' = shutdown
  BY <1>3, <1>4 DEF Leaves, DeleteSess
<1>5. ASSUME NEW s \in Sess, RunRemove(s)
      PROVE  Typed'
  BY <1>4, <1>5, Taken DEF RunRemove, NoEffect
<1>6. ASSUME NEW s \in Sess, RunOver(s)
      PROVE  Typed'
  BY <1>4, <1>6, Taken DEF RunOver, NoEffect, Fresh
<1>7. ASSUME NEW s \in Sess, NEW k \in Svr, RunRegister(s, k)
      PROVE  Typed'
  BY <1>7, Taken DEF RunRegister, NoEffect
<1>8. ASSUME NEW k \in Svr, RunRemoveSvr(k)
      PROVE  Typed'
  <2>1. sessAgent[k] # None => sessAgent[k] \in Sess
    OBVIOUS
  <2>2. QED
    BY <1>4, <1>8, <2>1, Taken DEF RunRemoveSvr, NoEffect
<1>9. CASE RunFront
  BY <1>9, Taken DEF RunFront, DeleteSess, FrontDone
<1>10. CASE BeginDrain \/ StopListen \/ Stop
  BY <1>10 DEF BeginDrain, StopListen, Stop
<1>11. CASE StopAllSess
  BY <1>11 DEF StopAllSess
<1>12. ASSUME NEW expired \in SUBSET pending, LoginTimeout(expired)
       PROVE  Typed'
  BY <1>12 DEF LoginTimeout
<1>13. ASSUME NEW t \in calls, Enqueue(t)
       PROVE  Typed'
  BY <1>13, Put DEF Enqueue
<1>14. ASSUME NEW t \in calls, Drop(t)
       PROVE  Typed'
  BY <1>14, TaskSession DEF Drop
<1>15. ASSUME NEW s \in Sess, Arrives(s) \/ StartConnect(s) \/ HandshakeFails(s) \/ TimerFires(s)
       PROVE  Typed'
  BY <1>15 DEF Arrives, StartConnect, HandshakeFails, TimerFires
<1>16. ASSUME NEW t \in Task, Submit(t)
       PROVE  calls' \in SUBSET Task
  BY <1>16
<1>17. ASSUME NEW s \in Sess, HandshakeDone(s)
       PROVE  Typed'
  <2>1. calls' \in SUBSET Task
    BY <1>16, <1>17, TaskKinds DEF HandshakeDone
  <2>2. QED
    BY <1>17, <2>1 DEF HandshakeDone
<1>18. ASSUME NEW s \in Sess, Breaks(s)
       PROVE  Typed'
  <2>1. calls' \in SUBSET Task
    BY <1>16, <1>18, TaskKinds DEF Breaks, ReportEnd
  <2>2. QED
    BY <1>18, <2>1 DEF Breaks
<1>19. ASSUME NEW s \in Sess, StopRuns(s) \/ UserLogsIn(s)
       PROVE  Typed'
  BY <1>19 DEF StopRuns, UserLogsIn
<1>20. ASSUME NEW s \in Sess, RemoveSession(s)
       PROVE  Typed'
  <2>1. calls' \in SUBSET Task
    BY <1>16, <1>20, TaskKinds DEF RemoveSession
  <2>2. QED
    BY <1>20, <2>1 DEF RemoveSession
<1>21. ASSUME NEW s \in Sess, NEW k \in Svr, RegisterSess(s, k)
       PROVE  Typed'
  <2>1. calls' \in SUBSET Task
    BY <1>16, <1>21, TaskKinds DEF RegisterSess
  <2>2. QED
    BY <1>21, <2>1 DEF RegisterSess
<1>22. ASSUME NEW k \in Svr, RemoveSvr(k)
       PROVE  Typed'
  <2>1. calls' \in SUBSET Task
    BY <1>16, <1>22, TaskKinds DEF RemoveSvr
  <2>2. QED
    BY <1>22, <2>1 DEF RemoveSvr
<1>23. CASE CallFront
  <2>1. calls' \in SUBSET Task
    BY <1>16, <1>23, TaskKinds DEF CallFront
  <2>2. QED
    BY <1>23, <2>1 DEF CallFront
<1>24. CASE UNCHANGED vars
  BY <1>24 DEF vars
<1>25. QED
  BY <1>1, <1>2, <1>5, <1>6, <1>7, <1>8, <1>9, <1>10, <1>11, <1>12, <1>13, <1>14, <1>15,
     <1>17, <1>18, <1>19, <1>20, <1>21, <1>22, <1>23, <1>24 DEF Next, LoopStep

-----------------------------------------------------------------------------
(* Where an offered connection is: in one task, and in no table yet. *)

Fits(s, state) ==
    /\ state = "handshake" => s \in Accept
    /\ state \in {"dialing", "waiting"} => s \notin Accept

InCalls(kind, s) == <<kind, s>> \in calls

InQueue(kind, s, i) == i \in DOMAIN queue /\ queue[i] = <<kind, s>>

OfferInv ==
    /\ \A s \in sessMap : conn[s] \in {"up", "down"}
    /\ \A s \in Sess : Fits(s, conn[s])
    /\ \A s \in Sess, kind \in {"accept", "connect"} :
          /\ InCalls(kind, s) =>
                /\ conn[s] = "offered" /\ (s \in Accept <=> kind = "accept")
                /\ \A i : ~InQueue(kind, s, i)
          /\ \A i : InQueue(kind, s, i) =>
                /\ conn[s] = "offered" /\ (s \in Accept <=> kind = "accept")
                /\ \A j : InQueue(kind, s, j) => j = i

Offerless(s) ==
    \A kind \in {"accept", "connect"} : ~InCalls(kind, s) /\ \A i : ~InQueue(kind, s, i)

(* A step that makes no offer. *)
LEMMA NoNewOffer ==
    ASSUME Typed, OfferInv,
           \A s \in Sess, kind \in {"accept", "connect"} : InCalls(kind, s)' => InCalls(kind, s),
           queue' = queue \/ \E t : Runs(t),
           \A s \in Sess : conn'[s] = conn[s]
                            \/ (Fits(s, conn'[s]) /\ (conn[s] # "offered" \/ Offerless(s)')),
           \A s \in sessMap' : conn'[s] \in {"up", "down"}
    PROVE  OfferInv'
<1>1. \A s \in Sess : \A kind, i : InQueue(kind, s, i)' => \E j : InQueue(kind, s, j)
  BY Taken DEF InQueue
<1>2. \A s \in Sess : \A kind, i, j : InQueue(kind, s, i)' /\ InQueue(kind, s, j)' /\ i # j =>
          \E m, n : InQueue(kind, s, m) /\ InQueue(kind, s, n) /\ m # n
  <2>1. CASE queue' = queue
    BY <2>1 DEF InQueue
  <2>2. ASSUME NEW t, Runs(t), NEW s \in Sess, NEW kind, NEW i, NEW j,
               InQueue(kind, s, i)', InQueue(kind, s, j)', i # j
        PROVE  \E m, n : InQueue(kind, s, m) /\ InQueue(kind, s, n) /\ m # n
    <3>1. InQueue(kind, s, i + 1) /\ InQueue(kind, s, j + 1)
      BY <2>2, Taken DEF InQueue
    <3>2. i \in Nat /\ j \in Nat
      BY <2>2, Taken DEF InQueue
    <3>3. i + 1 # j + 1
      BY <2>2, <3>2
    <3>4. QED
      BY <3>1, <3>3
  <2>3. QED
    BY <2>1, <2>2
<1>3. ASSUME NEW s \in Sess
      PROVE  Fits(s, conn[s])'
  BY DEF OfferInv, Fits
<1>4. ASSUME NEW s \in Sess, NEW kind \in {"accept", "connect"}, InCalls(kind, s)'
      PROVE  /\ conn'[s] = "offered" /\ (s \in Accept <=> kind = "accept")
             /\ \A i : ~InQueue(kind, s, i)'
  BY <1>1, <1>4 DEF OfferInv, Offerless
<1>5. ASSUME NEW s \in Sess, NEW kind \in {"accept", "connect"}, NEW i, InQueue(kind, s, i)'
      PROVE  /\ conn'[s] = "offered" /\ (s \in Accept <=> kind = "accept")
             /\ \A j : InQueue(kind, s, j)' => j = i
  <2>1. PICK m : InQueue(kind, s, m)
    BY <1>1, <1>5
  <2>2. conn[s] = "offered" /\ (s \in Accept <=> kind = "accept")
    BY <2>1 DEF OfferInv
  <2>3. conn'[s] = "offered"
    BY <1>5, <2>2 DEF Offerless
  <2>4. ASSUME NEW j, InQueue(kind, s, j)', j # i
        PROVE  FALSE
    BY <1>2, <1>5, <2>4 DEF OfferInv
  <2>5. QED
    BY <2>2, <2>3, <2>4
<1>6. QED
  BY <1>3, <1>4, <1>5 DEF OfferInv

(* The offer that run takes was the only one of its session. *)
LEMMA TakesOffer ==
    ASSUME Typed, OfferInv, NEW s \in Sess, NEW kind \in {"accept", "connect"}, Runs(<<kind, s>>)
    PROVE  conn[s] = "offered" /\ (s \in Accept <=> kind = "accept") /\ Offerless(s)'
<1>1. InQueue(kind, s, 1)
  BY Taken DEF InQueue
<1>2. conn[s] = "offered" /\ (s \in Accept <=> kind = "accept")
  BY <1>1 DEF OfferInv
<1>3. ASSUME NEW other \in {"accept", "connect"}, NEW i, InQueue(other, s, i)'
      PROVE  FALSE
  <2>1. InQueue(other, s, i + 1) /\ i \in Nat /\ i # 0
    BY <1>3, Taken DEF InQueue
  <2>2. other = kind
    BY <1>2, <2>1 DEF OfferInv
  <2>3. QED
    BY <1>1, <2>1, <2>2 DEF OfferInv
<1>4. ASSUME NEW other \in {"accept", "connect"}, InCalls(other, s)'
      PROVE  FALSE
  <2>1. InCalls(other, s)
    BY <1>4 DEF Runs, InCalls
  <2>2. other = kind
    BY <1>2, <2>1 DEF OfferInv
  <2>3. QED
    BY <1>1, <2>1, <2>2 DEF OfferInv
<1>5. QED
  BY <1>2, <1>3, <1>4 DEF Offerless

(* A call that makes no offer. *)
LEMMA OtherTask ==
    ASSUME NEW t, Submit(t), \A s \in Sess, kind \in {"accept", "connect"} : t # <<kind, s>>
    PROVE  \A s \in Sess, kind \in {"accept", "connect"} : InCalls(kind, s)' => InCalls(kind, s)
BY DEF Submit, InCalls

LEMMA OfferStep ==
    Typed /\ OfferInv /\ [Next]_vars => OfferInv'
<1> SUFFICES ASSUME Typed, OfferInv, [Next]_vars
             PROVE  OfferInv'
  OBVIOUS
<1>a. sessMap \subseteq Sess /\ Accept \subseteq Sess
  BY DEF Typed
<1>b. \A s \in sessMap : conn[s] \in {"up", "down"}
  BY DEF OfferInv
<1>c. conn \in [Sess -> {"none", "handshake", "dialing", "waiting", "offered", "up", "down"}]
  BY DEF Typed
<1>d. calls' = calls =>
          \A s \in Sess, kind \in {"accept", "connect"} : InCalls(kind, s)' => InCalls(kind, s)
  BY DEF InCalls
<1> USE <1>a, <1>b, <1>c, <1>d DEF Goes, tables, Fits
<1>1. ASSUME NEW s \in Sess, RunAccept(s)
      PROVE  OfferInv'
  <2>1. Runs(<<"accept", s>>) /\ Offerless(s)'
    BY <1>1, TakesOffer DEF RunAccept
  <2>2. calls' = calls
    BY <2>1 DEF Runs
  <2>3. QED
    BY <1>1, <2>1, <2>2, NoNewOffer DEF RunAccept, AddSess
<1>2. ASSUME NEW s \in Sess, RunConnect(s)
      PROVE  OfferInv'
  <2>1. Runs(<<"connect", s>>) /\ Offerless(s)'
    BY <1>2, TakesOffer DEF RunConnect
  <2>2. calls' = calls
    BY <2>1 DEF Runs
  <2>3. QED
    BY <1>2, <2>1, <2>2, NoNewOffer DEF RunConnect, AddSess
<1>3. ASSUME NEW t, Runs(t), sessMap' \subseteq sessMap,
             conn' = conn \/ \E d \in Dial : conn[d] = "none" /\ Goes(d, "dialing")
      PROVE  OfferInv'
  BY <1>3, NoNewOffer DEF Runs
<1>4. ASSUME NEW s \in Sess, RunRemove(s)
      PROVE  OfferInv'
  BY <1>3, <1>4 DEF RunRemove, NoEffect, Leaves, DeleteSess
<1>5. ASSUME NEW s \in Sess, RunOver(s)
      PROVE  OfferInv'
  BY <1>3, <1>5 DEF RunOver, NoEffect, Leaves, DeleteSess, Fresh
<1>6. ASSUME NEW s \in Sess, NEW k \in Svr, RunRegister(s, k)
      PROVE  OfferInv'
  BY <1>3, <1>6 DEF RunRegister, NoEffect
<1>7. ASSUME NEW k \in Svr, RunRemoveSvr(k)
      PROVE  OfferInv'
  BY <1>3, <1>7 DEF RunRemoveSvr, NoEffect, Leaves, DeleteSess
<1>8. CASE RunFront
  BY <1>3, <1>8 DEF RunFront, DeleteSess
<1>9. CASE BeginDrain \/ StopListen \/ Stop \/ UNCHANGED vars
  BY <1>9, NoNewOffer DEF BeginDrain, StopListen, Stop, vars
<1>10. CASE StopAllSess
  BY <1>10, NoNewOffer DEF StopAllSess
<1>11. ASSUME NEW expired \in SUBSET pending, LoginTimeout(expired)
       PROVE  OfferInv'
  BY <1>11, NoNewOffer DEF LoginTimeout
<1>12. ASSUME NEW t \in calls, Enqueue(t)
       PROVE  OfferInv'
  <2>1. UNCHANGED <<conn, sessMap>>
    BY <1>12 DEF Enqueue
  <2>2. ASSUME NEW s \in Sess, NEW kind \in {"accept", "connect"}, InCalls(kind, s)'
        PROVE  InCalls(kind, s) /\ t # <<kind, s>>
    BY <1>12, <2>2 DEF Enqueue, InCalls
  <2>3. ASSUME NEW s \in Sess, NEW kind \in {"accept", "connect"}, NEW i, InQueue(kind, s, i)'
        PROVE  InQueue(kind, s, i) \/ (i = Len(queue) + 1 /\ t = <<kind, s>> /\ InCalls(kind, s))
    <3>1. DOMAIN queue = 1 .. Len(queue)
      BY DEF Typed
    <3>2. QED
      BY <1>12, <2>3, <3>1, Put DEF InQueue, InCalls
  <2>4. QED
    BY <2>1, <2>2, <2>3 DEF OfferInv
<1>13. ASSUME NEW t \in calls, Drop(t)
       PROVE  OfferInv'
  <2>1. t \in Task
    BY DEF Typed
  <2>2. \A s \in Sess, kind \in {"accept", "connect"} :
            InCalls(kind, s)' => InCalls(kind, s) /\ t # <<kind, s>>
    BY <1>13 DEF Drop, InCalls
  <2>3. queue' = queue /\ sessMap' = sessMap
    BY <1>13 DEF Drop
  <2>4. CASE t[1] \in {"accept", "connect"}
    <3>1. t[2] \in Sess /\ t = <<t[1], t[2]>>
      BY <2>1, <2>4, TaskSession
    <3>2. /\ conn[t[2]] = "offered" /\ (t[2] \in Accept <=> t[1] = "accept")
          /\ \A i : ~InQueue(t[1], t[2], i)
      <4>1. ASSUME NEW kind, NEW s, t = <<kind, s>>
            PROVE  InCalls(kind, s)
        BY <4>1 DEF InCalls
      <4>2. InCalls(t[1], t[2])
        BY <3>1, <4>1
      <4>3. QED
        BY <2>4, <3>1, <4>2 DEF OfferInv
    <3>3. ASSUME NEW kind \in {"accept", "connect"}
          PROVE  ~InCalls(kind, t[2])' /\ \A i : ~InQueue(kind, t[2], i)'
      <4>1. CASE kind = t[1]
        BY <2>2, <2>3, <3>1, <3>2, <4>1 DEF InQueue
      <4>2. CASE kind # t[1]
        BY <2>2, <2>3, <2>4, <3>1, <3>2, <4>2 DEF OfferInv, InQueue
      <4>3. QED
        BY <4>1, <4>2
    <3>4. Offerless(t[2])'
      BY <3>3 DEF Offerless
    <3>5. \/ t[1] = "accept" /\ Goes(t[2], "down")
          \/ t[1] = "connect" /\ (Goes(t[2], "down") \/ Goes(t[2], "waiting"))
      BY <1>13, <2>4 DEF Drop
    <3>6. \A s \in sessMap : conn'[s] = conn[s]
      BY <3>1, <3>2, <3>5
    <3>7. QED
      BY <2>2, <2>3, <3>1, <3>2, <3>4, <3>5, <3>6, NoNewOffer
  <2>5. CASE t[1] \notin {"accept", "connect"}
    <3>1. conn' = conn
      BY <1>13, <2>5 DEF Drop
    <3>2. QED
      BY <2>2, <2>3, <3>1, NoNewOffer
  <2>6. QED
    BY <2>4, <2>5
<1>14. ASSUME NEW s \in Sess, Arrives(s) \/ StartConnect(s) \/ HandshakeFails(s) \/ TimerFires(s)
       PROVE  OfferInv'
  <2>1. UNCHANGED <<calls, queue, sessMap>> /\ conn[s] \notin {"offered", "up"}
    BY <1>14 DEF Arrives, StartConnect, HandshakeFails, TimerFires
  <2>2. \E state : Goes(s, state) /\ Fits(s, state)
    BY <1>14 DEF Arrives, StartConnect, HandshakeFails, TimerFires, OfferInv
  <2>3. s \notin sessMap
    BY <1>14 DEF Arrives, StartConnect, HandshakeFails, TimerFires
  <2>4. QED
    BY <2>1, <2>2, <2>3, NoNewOffer
<1>15. ASSUME NEW s \in Sess, HandshakeDone(s)
       PROVE  OfferInv'
  <2>1. UNCHANGED <<queue, sessMap>> /\ s \notin sessMap /\ conn[s] # "offered"
    BY <1>15 DEF HandshakeDone
  <2>2. CASE Goes(s, "down") /\ UNCHANGED calls
    BY <2>1, <2>2, NoNewOffer
  <2>3. ASSUME NEW kind \in {"accept", "connect"}, s \in Accept <=> kind = "accept",
               Submit(<<kind, s>>), Goes(s, "offered")
        PROVE  OfferInv'
    <3>1. \A o \in Sess, other \in {"accept", "connect"} :
              /\ InCalls(other, o)' => InCalls(other, o) \/ (other = kind /\ o = s)
              /\ \A i : InQueue(other, o, i)' => InQueue(other, o, i)
      BY <2>1, <2>3 DEF Submit, InCalls, InQueue
    <3>2. \A other \in {"accept", "connect"} : ~InCalls(other, s) /\ \A i : ~InQueue(other, s, i)
      BY <2>1 DEF OfferInv
    <3>3. QED
      BY <2>1, <2>3, <3>1, <3>2 DEF OfferInv
  <2>4. QED
    BY <1>15, <2>2, <2>3 DEF HandshakeDone, OfferInv
<1>16. ASSUME NEW s \in Sess, Breaks(s)
       PROVE  OfferInv'
  <2>1. \A o \in Sess, kind \in {"accept", "connect"} : InCalls(kind, o)' => InCalls(kind, o)
    BY <1>16, OtherTask DEF Breaks, ReportEnd
  <2>2. QED
    BY <1>16, <2>1, NoNewOffer DEF Breaks
<1>17. ASSUME NEW s \in Sess, StopRuns(s) \/ UserLogsIn(s)
       PROVE  OfferInv'
  BY <1>17, NoNewOffer DEF StopRuns, UserLogsIn
<1>18. ASSUME NEW t, Submit(t), UNCHANGED <<conn, sessMap, queue>>,
              \A s \in Sess, kind \in {"accept", "connect"} : t # <<kind, s>>
       PROVE  OfferInv'
  BY <1>18, OtherTask, NoNewOffer
<1>19. ASSUME NEW s \in Sess, RemoveSession(s)
       PROVE  OfferInv'
  BY <1>18, <1>19 DEF RemoveSession
<1>20. ASSUME NEW s \in Sess, NEW k \in Svr, RegisterSess(s, k)
       PROVE  OfferInv'
  BY <1>18, <1>20 DEF RegisterSess
<1>21. ASSUME NEW k \in Svr, RemoveSvr(k)
       PROVE  OfferInv'
  BY <1>18, <1>21 DEF RemoveSvr
<1>22. CASE CallFront
  BY <1>18, <1>22 DEF CallFront
<1>23. QED
  BY <1>1, <1>2, <1>4, <1>5, <1>6, <1>7, <1>8, <1>9, <1>10, <1>11, <1>12, <1>13, <1>14, <1>15,
     <1>16, <1>17, <1>19, <1>20, <1>21, <1>22 DEF Next, LoopStep

-----------------------------------------------------------------------------
(* The tables. *)

(* Only these steps change a table or an agent. *)
LEMMA TableSteps ==
    ASSUME [Next]_vars
    PROVE  \/ UNCHANGED <<agt, tables>>
           \/ \E s \in Sess :
                 \/ RunAccept(s) \/ RunConnect(s) \/ RunRemove(s) \/ RunOver(s) \/ UserLogsIn(s)
                 \/ \E k \in Svr : RunRegister(s, k)
           \/ \E k \in Svr : RunRemoveSvr(k)
           \/ RunFront
           \/ \E expired \in SUBSET pending : LoginTimeout(expired)
<1>1. CASE UNCHANGED vars
  BY <1>1 DEF vars
<1>2. CASE BeginDrain \/ StopAllSess \/ StopListen \/ CallFront \/ Stop
  BY <1>2 DEF BeginDrain, StopAllSess, StopListen, CallFront, Stop
<1>3. ASSUME NEW t \in calls, Enqueue(t) \/ Drop(t)
      PROVE  UNCHANGED <<agt, tables>>
  BY <1>3 DEF Enqueue, Drop
<1>4. ASSUME NEW s \in Sess, Arrives(s) \/ StartConnect(s) \/ HandshakeFails(s) \/ TimerFires(s)
                             \/ HandshakeDone(s) \/ Breaks(s) \/ StopRuns(s) \/ RemoveSession(s)
                             \/ \E k \in Svr : RegisterSess(s, k)
      PROVE  UNCHANGED <<agt, tables>>
  BY <1>4 DEF Arrives, StartConnect, HandshakeFails, TimerFires, HandshakeDone, Breaks, StopRuns,
              RemoveSession, RegisterSess
<1>5. ASSUME NEW k \in Svr, RemoveSvr(k)
      PROVE  UNCHANGED <<agt, tables>>
  BY <1>5 DEF RemoveSvr
<1>6. QED
  BY <1>1, <1>2, <1>3, <1>4, <1>5 DEF Next, LoopStep

(* A session enters sessMap once, any set of them may leave it. *)
LEMMA CountAdd ==
    ASSUME Typed, AcceptCountExact, NEW s \in Sess, s \notin sessMap, AddSess(s)
    PROVE  AcceptCountExact'
<1> DEFINE A == sessMap \cap Accept
<1>1. IsFiniteSet(A)
  BY FS_Subset DEF Typed
<1>2. CASE s \in Accept
  <2>1. (sessMap \cap Accept)' = A \cup {s} /\ {s} \cap Accept = {s} /\ s \notin A
    BY <1>2 DEF AddSess
  <2>2. Cardinality(A \cup {s}) = Cardinality(A) + 1 /\ Cardinality({s}) = 1
    BY <1>1, <2>1, FS_AddElement, FS_Singleton
  <2>3. QED
    BY <2>1, <2>2 DEF AddSess, AcceptCountExact
<1>3. CASE s \notin Accept
  <2>1. (sessMap \cap Accept)' = A /\ {s} \cap Accept = {}
    BY <1>3 DEF AddSess
  <2>2. Cardinality({}) = 0 /\ Cardinality(A) \in Nat
    BY <1>1, FS_EmptySet, FS_CardinalityType
  <2>3. acceptNum' = Cardinality(A) + 0
    BY <2>1, <2>2 DEF AddSess, AcceptCountExact
  <2>4. acceptNum' = Cardinality(A)
    BY <2>2, <2>3
  <2>5. QED
    BY <2>1, <2>4 DEF AcceptCountExact
<1>4. QED
  BY <1>2, <1>3

LEMMA CountRemove ==
    ASSUME Typed, AcceptCountExact, NEW S \in SUBSET Sess,
           sessMap' = sessMap \ S, acceptNum' = Less(Cardinality(S \cap sessMap \cap Accept))
    PROVE  AcceptCountExact'
<1> DEFINE A == sessMap \cap Accept
           B == S \cap sessMap \cap Accept
<1>1. IsFiniteSet(A) /\ IsFiniteSet(B) /\ B \subseteq A
  <2>1. A \subseteq Sess /\ B \subseteq Sess
    BY DEF Typed
  <2>2. QED
    BY <2>1, FS_Subset
<1>2. (sessMap \cap Accept)' = A \ B
  OBVIOUS
<1>3. Cardinality(A) \in Nat /\ Cardinality(B) \in Nat /\ Cardinality(B) <= Cardinality(A)
  BY <1>1, FS_CardinalityType, FS_Subset
<1>4. Cardinality(A \ B) = Cardinality(A) - Cardinality(B)
  <2>1. A \cap B = B
    BY <1>1
  <2>2. ASSUME NEW S1, NEW S2, IsFiniteSet(S1), S1 \cap S2 = S2
        PROVE  Cardinality(S1 \ S2) = Cardinality(S1) - Cardinality(S2)
    BY <2>2, FS_Difference
  <2> HIDE DEF A, B
  <2>3. QED
    BY <1>1, <2>1, <2>2
<1>5. acceptNum' = Less(Cardinality(B)) /\ acceptNum = Cardinality(A)
  BY DEF AcceptCountExact
<1>6. acceptNum' = Cardinality(A) - Cardinality(B)
  BY <1>3, <1>5 DEF Less
<1>7. QED
  BY <1>2, <1>4, <1>6 DEF AcceptCountExact

LEMMA CountStep ==
    Typed /\ OfferInv /\ AcceptCountExact /\ [Next]_vars => AcceptCountExact'
<1> SUFFICES ASSUME Typed, OfferInv, AcceptCountExact, [Next]_vars
             PROVE  AcceptCountExact'
  OBVIOUS
<1>0. CASE UNCHANGED <<sessMap, acceptNum>>
  BY <1>0 DEF AcceptCountExact
<1>1. CASE \E S \in SUBSET Sess : DeleteSess(S)
  BY <1>1, CountRemove DEF DeleteSess
<1>2. ASSUME NEW s \in Sess, RunAccept(s) \/ RunConnect(s)
      PROVE  AcceptCountExact'
  <2>1. conn[s] = "offered"
    BY <1>2, TakesOffer DEF RunAccept, RunConnect
  <2>2. s \notin sessMap
    BY <2>1 DEF OfferInv
  <2>3. QED
    BY <1>0, <1>2, <2>2, CountAdd DEF RunAccept, RunConnect
<1>3. ASSUME NEW s \in Sess, RunRemove(s) \/ RunOver(s)
      PROVE  AcceptCountExact'
  <2>1. {s} \in SUBSET Sess
    OBVIOUS
  <2>2. QED
    BY <1>0, <1>1, <1>3, <2>1 DEF RunRemove, RunOver, NoEffect, Leaves, tables
<1>4. ASSUME NEW k \in Svr, RunRemoveSvr(k)
      PROVE  AcceptCountExact'
  <2>1. sessAgent[k] # None => {sessAgent[k]} \in SUBSET Sess
    BY DEF Typed
  <2>2. QED
    BY <1>0, <1>1, <1>4, <2>1 DEF RunRemoveSvr, NoEffect, Leaves, tables
<1>5. CASE RunFront
  <2>1. sessMap \cap Accept \in SUBSET Sess
    OBVIOUS
  <2>2. DeleteSess(sessMap \cap Accept)
    BY <1>5 DEF RunFront
  <2>3. QED
    BY <1>1, <2>1, <2>2
<1>6. ASSUME NEW expired \in SUBSET pending, LoginTimeout(expired)
      PROVE  AcceptCountExact'
  <2> DEFINE late == {s \in expired \cap sessMap : NeedsLogin(s)}
  <2>1. late \in SUBSET Sess /\ late \cap sessMap \cap Accept = late
    BY DEF Typed, NeedsLogin
  <2>2. sessMap' = sessMap \ late /\ acceptNum' = Less(Cardinality(late))
    BY <1>6 DEF LoginTimeout
  <2>3. QED
    BY <2>1, <2>2, CountRemove
<1>7. ASSUME NEW s \in Sess, NEW k \in Svr, RunRegister(s, k)
      PROVE  AcceptCountExact'
  BY <1>0, <1>7 DEF RunRegister, NoEffect, tables
<1>8. ASSUME NEW s \in Sess, UserLogsIn(s)
      PROVE  AcceptCountExact'
  BY <1>0, <1>8 DEF UserLogsIn, tables
<1>9. QED
  <2>1. CASE UNCHANGED <<agt, tables>>
    BY <1>0, <2>1 DEF tables
  <2>2. QED
    BY <1>2, <1>3, <1>4, <1>5, <1>6, <1>7, <1>8, <2>1, TableSteps

-----------------------------------------------------------------------------
(* The invariant, and the first two results. *)

BaseInv == TypeOK /\ OfferInv /\ AcceptCountExact

LEMMA TypedCounts ==
    Typed /\ AcceptCountExact => TypeOK
<1> SUFFICES ASSUME Typed, AcceptCountExact
             PROVE  acceptNum \in 0 .. Cardinality(Accept)
  BY DEF Typed, TypeOK
<1>1. IsFiniteSet(Accept) /\ sessMap \cap Accept \in SUBSET Accept
  BY FS_Subset
<1>2. QED
  BY <1>1, FS_Subset, FS_CardinalityType DEF AcceptCountExact

LEMMA TypeOKTyped == TypeOK => Typed
BY DEF TypeOK, Typed

LEMMA BaseInit == Init => BaseInv
<1> SUFFICES ASSUME Init
             PROVE  BaseInv
  OBVIOUS
<1>1. Typed
  BY DEF Init, Typed
<1>2. OfferInv
  BY DEF Init, OfferInv, Fits, InCalls, InQueue
<1>3. AcceptCountExact
  BY FS_EmptySet DEF Init, AcceptCountExact
<1>4. QED
  BY <1>1, <1>2, <1>3, TypedCounts DEF BaseInv

LEMMA BaseStep == BaseInv /\ [Next]_vars => BaseInv'
<1> SUFFICES ASSUME BaseInv, [Next]_vars
             PROVE  BaseInv'
  OBVIOUS
<1>1. Typed /\ OfferInv /\ AcceptCountExact
  BY TypeOKTyped DEF BaseInv
<1>2. Typed' /\ OfferInv' /\ AcceptCountExact'
  BY <1>1, TypedStep, OfferStep, CountStep
<1>3. TypeOK'
  BY <1>2, TypedCounts, PTL
<1>4. QED
  BY <1>2, <1>3 DEF BaseInv

(* The types, the offers on their way and the count hold together in every state. *)
THEOREM BaseInvariance == Spec => []BaseInv
BY BaseInit, BaseStep, PTL DEF Spec

(* Every variable stays in its declared set; acceptSessNum between zero and the
   number of accepted sessions.                                                 *)
THEOREM TypeCorrect == Spec => []TypeOK
<1>1. BaseInv => TypeOK
  BY DEF BaseInv
<1>2. QED
  BY <1>1, BaseInvariance, PTL

(* acceptSessNum counts the accepted sessions in sessMap, whatever comes together
   for one session.                                                               *)
THEOREM AcceptCountExactHolds == Spec => []AcceptCountExact
<1>1. BaseInv => AcceptCountExact
  BY DEF BaseInv
<1>2. QED
  BY <1>1, BaseInvariance, PTL

-----------------------------------------------------------------------------
(* Who is watched. *)

LEMMA WatchedStep ==
    Typed /\ LoginsWatched /\ [Next]_vars => LoginsWatched'
<1> SUFFICES ASSUME Typed, LoginsWatched, [Next]_vars
             PROVE  LoginsWatched'
  OBVIOUS
<1> USE DEF LoginsWatched, NeedsLogin, tables
<1>1. CASE UNCHANGED <<agt, tables>>
  BY <1>1
<1>2. ASSUME NEW S, DeleteSess(S), agt' = agt
      PROVE  LoginsWatched'
  BY <1>2 DEF DeleteSess
<1>3. ASSUME NEW s \in Sess, AddSess(s), agt' = agt
      PROVE  LoginsWatched'
  BY <1>3 DEF AddSess, Tracked
<1>4. ASSUME NEW s \in Sess, RunAccept(s) \/ RunConnect(s)
      PROVE  LoginsWatched'
  <2>1. agt' = agt /\ (AddSess(s) \/ UNCHANGED <<sessMap, pending>>)
    BY <1>4 DEF RunAccept, RunConnect
  <2>2. QED
    BY <1>3, <2>1
<1>5. ASSUME NEW s \in Sess, RunRemove(s) \/ RunOver(s)
      PROVE  LoginsWatched'
  <2>1. UNCHANGED <<agt, tables>> \/ (DeleteSess({s}) /\ agt' = agt)
    BY <1>5 DEF RunRemove, RunOver, NoEffect, Leaves
  <2>2. QED
    BY <1>1, <1>2, <2>1
<1>6. ASSUME NEW k \in Svr, RunRemoveSvr(k)
      PROVE  LoginsWatched'
  <2>1. UNCHANGED <<agt, tables>> \/ (DeleteSess({sessAgent[k]}) /\ agt' = agt)
    BY <1>6 DEF RunRemoveSvr, NoEffect, Leaves
  <2>2. QED
    BY <1>1, <1>2, <2>1
<1>7. CASE RunFront
  <2>1. DeleteSess(sessMap \cap Accept) /\ agt' = agt
    BY <1>7 DEF RunFront
  <2>2. QED
    BY <1>2, <2>1
<1>8. ASSUME NEW expired \in SUBSET pending, LoginTimeout(expired)
      PROVE  LoginsWatched'
  BY <1>8 DEF LoginTimeout
<1>9. ASSUME NEW s \in Sess, UserLogsIn(s)
      PROVE  LoginsWatched'
  BY <1>9 DEF UserLogsIn, Typed
<1>10. ASSUME NEW s \in Sess, NEW k \in Svr, RunRegister(s, k)
       PROVE  LoginsWatched'
  BY <1>1, <1>10 DEF RunRegister, NoEffect, Typed
<1>11. QED
  BY <1>1, <1>4, <1>5, <1>6, <1>7, <1>8, <1>9, <1>10, TableSteps

(* The login timeout watches exactly whom it must, for any interleaving of
   registrations, logins, timeouts and ends.                               *)
THEOREM LoginsWatchedHolds == Spec => []LoginsWatched
<1>1. Init => LoginsWatched
  BY DEF Init, LoginsWatched
<1>2. TypeOK /\ LoginsWatched /\ [Next]_vars => LoginsWatched'
  BY WatchedStep, TypeOKTyped
<1>3. QED
  BY <1>1, <1>2, TypeCorrect, PTL DEF Spec

-----------------------------------------------------------------------------
(* What may leak. *)

LEMMA LeakStep ==
    Typed /\ NoLeak /\ [Next]_vars => NoLeak'
<1> SUFFICES ASSUME Typed, NoLeak, [Next]_vars
             PROVE  NoLeak'
  OBVIOUS
<1> USE DEF NoLeak, Goes, tables, SafeGoStop
<1>a. conn \in [Sess -> {"none", "handshake", "dialing", "waiting", "offered", "up", "down"}]
  BY DEF Typed
<1> USE <1>a
<1>1. ASSUME UNCHANGED <<sessMap, stopCalled, loop>>,
             \A s \in Sess : conn'[s] = conn[s] \/ conn'[s] # "up"
      PROVE  NoLeak'
  BY <1>1
<1>2. ASSUME NEW s \in Sess, RunAccept(s) \/ RunConnect(s)
      PROVE  NoLeak'
  BY <1>2 DEF RunAccept, RunConnect, AddSess, Runs
<1>3. ASSUME NEW S, sessMap' = sessMap \ S, stopCalled' = stopCalled \cup S, loop' = loop,
             \A s \in Sess : conn'[s] = conn[s] \/ conn'[s] # "up"
      PROVE  NoLeak'
  BY <1>3
<1>4. ASSUME NEW s \in Sess, RunRemove(s) \/ RunOver(s)
      PROVE  NoLeak'
  <2>1. \A o \in Sess : conn'[o] = conn[o] \/ conn'[o] # "up"
    BY <1>4 DEF RunRemove, RunOver, NoEffect
  <2>2. loop' = loop
    BY <1>4 DEF RunRemove, RunOver, Runs
  <2>3. \/ UNCHANGED <<sessMap, stopCalled>>
        \/ sessMap' = sessMap \ {s} /\ stopCalled' = stopCalled \cup {s}
    BY <1>4 DEF RunRemove, RunOver, NoEffect, Leaves, DeleteSess
  <2>4. QED
    BY <1>1, <1>3, <2>1, <2>2, <2>3
<1>5. ASSUME NEW k \in Svr, RunRemoveSvr(k)
      PROVE  NoLeak'
  <2>1. conn' = conn /\ loop' = loop
    BY <1>5 DEF RunRemoveSvr, NoEffect, Runs
  <2>2. \/ UNCHANGED <<sessMap, stopCalled>>
        \/ sessMap' = sessMap \ {sessAgent[k]} /\ stopCalled' = stopCalled \cup {sessAgent[k]}
    BY <1>5 DEF RunRemoveSvr, NoEffect, Leaves, DeleteSess
  <2>3. QED
    BY <1>1, <1>3, <2>1, <2>2
<1>6. CASE RunFront
  BY <1>3, <1>6 DEF RunFront, DeleteSess, Runs
<1>7. ASSUME NEW expired \in SUBSET pending, LoginTimeout(expired)
      PROVE  NoLeak'
  BY <1>3, <1>7 DEF LoginTimeout
<1>8. ASSUME NEW s \in Sess, NEW k \in Svr, RunRegister(s, k)
      PROVE  NoLeak'
  BY <1>1, <1>8 DEF RunRegister, NoEffect, Runs
<1>9. CASE StopAllSess
  BY <1>9 DEF StopAllSess
<1>10. CASE BeginDrain
  BY <1>10 DEF BeginDrain
<1>11. CASE StopListen \/ CallFront \/ Stop \/ UNCHANGED vars
  BY <1>1, <1>11 DEF StopListen, CallFront, Stop, vars
<1>12. ASSUME NEW t \in calls, Enqueue(t)
       PROVE  NoLeak'
  BY <1>1, <1>12 DEF Enqueue
<1>13. ASSUME NEW t \in calls, Drop(t)
       PROVE  NoLeak'
  <2>1. \A s \in Sess : conn'[s] = conn[s] \/ conn'[s] # "up"
    BY <1>13 DEF Drop
  <2>2. QED
    BY <1>1, <1>13, <2>1 DEF Drop
<1>14. ASSUME NEW s \in Sess, Arrives(s) \/ StartConnect(s) \/ HandshakeFails(s) \/ TimerFires(s)
                              \/ HandshakeDone(s) \/ Breaks(s) \/ StopRuns(s) \/ UserLogsIn(s)
       PROVE  NoLeak'
  <2>1. \A o \in Sess : conn'[o] = conn[o] \/ conn'[o] # "up"
    BY <1>14 DEF Arrives, StartConnect, HandshakeFails, TimerFires, HandshakeDone, Breaks, StopRuns,
                 UserLogsIn
  <2>2. UNCHANGED <<sessMap, stopCalled, loop>>
    BY <1>14 DEF Arrives, StartConnect, HandshakeFails, TimerFires, HandshakeDone, Breaks, StopRuns,
                 UserLogsIn
  <2>3. QED
    BY <1>1, <2>1, <2>2
<1>15. ASSUME NEW s \in Sess, RemoveSession(s)
       PROVE  NoLeak'
  BY <1>1, <1>15 DEF RemoveSession
<1>16. ASSUME NEW s \in Sess, NEW k \in Svr, RegisterSess(s, k)
       PROVE  NoLeak'
  BY <1>1, <1>16 DEF RegisterSess
<1>17. ASSUME NEW k \in Svr, RemoveSvr(k)
       PROVE  NoLeak'
  BY <1>1, <1>17 DEF RemoveSvr
<1>18. QED
  BY <1>2, <1>4, <1>5, <1>6, <1>7, <1>8, <1>9, <1>10, <1>11, <1>12, <1>13, <1>14, <1>15, <1>16,
     <1>17 DEF Next, LoopStep

(* A connection that is up has an owner, or its stop() is on its way. *)
THEOREM NoLeakHolds == Spec => []NoLeak
<1>1. Init => NoLeak
  BY DEF Init, NoLeak
<1>2. TypeOK /\ NoLeak /\ [Next]_vars => NoLeak'
  BY LeakStep, TypeOKTyped
<1>3. QED
  BY <1>1, <1>2, TypeCorrect, PTL DEF Spec

-----------------------------------------------------------------------------
(* Where routes lead, for peers that say one thing about themselves. *)

Asked(s, k) ==
    \/ <<"register", s, k>> \in calls
    \/ \E i : i \in DOMAIN queue /\ queue[i] = <<"register", s, k>>

(* An agent, and a registration on its way, are what the peer says. *)
RoleInv ==
    /\ \A s \in Sess : agt[s] # None => agt[s] \in Roles[s]
    /\ \A s \in Sess, k \in Svr : Asked(s, k) => k \in Roles[s]

LEMMA RoleStep ==
    Typed /\ RoleInv /\ [Next]_vars => RoleInv'
<1> SUFFICES ASSUME Typed, RoleInv, [Next]_vars
             PROVE  RoleInv'
  OBVIOUS
<1> USE DEF tables
<1>1. ASSUME \A s \in Sess : agt'[s] \in {agt[s], None} \cup Roles[s],
             \A s \in Sess, k \in Svr : Asked(s, k)' => Asked(s, k) \/ k \in Roles[s]
      PROVE  RoleInv'
  BY <1>1 DEF RoleInv
<1>2. ASSUME NEW t, Runs(t)
      PROVE  \A s \in Sess, k \in Svr : Asked(s, k)' => Asked(s, k)
  BY <1>2, Taken DEF Asked, Runs
<1>3. ASSUME NEW t, Submit(t), queue' = queue,
             \A s \in Sess, k \in Svr : t = <<"register", s, k>> => k \in Roles[s]
      PROVE  \A s \in Sess, k \in Svr : Asked(s, k)' => Asked(s, k) \/ k \in Roles[s]
  BY <1>3 DEF Asked, Submit
<1>4. ASSUME UNCHANGED <<calls, queue>>
      PROVE  \A s \in Sess, k \in Svr : Asked(s, k)' => Asked(s, k)
  BY <1>4 DEF Asked
<1>5. ASSUME NEW s \in Sess, RunAccept(s) \/ RunConnect(s) \/ RunRemove(s) \/ RunOver(s)
      PROVE  RoleInv'
  <2>1. agt' = agt
    BY <1>5 DEF RunAccept, RunConnect, RunRemove, RunOver, NoEffect, Leaves
  <2>2. \E t : Runs(t)
    BY <1>5 DEF RunAccept, RunConnect, RunRemove, RunOver
  <2>3. QED
    BY <1>1, <1>2, <2>1, <2>2
<1>6. ASSUME NEW k \in Svr, RunRemoveSvr(k)
      PROVE  RoleInv'
  <2>1. agt' = agt /\ \E t : Runs(t)
    BY <1>6 DEF RunRemoveSvr, NoEffect, Leaves
  <2>2. QED
    BY <1>1, <1>2, <2>1
<1>7. CASE RunFront
  BY <1>1, <1>2, <1>7 DEF RunFront
<1>8. ASSUME NEW s \in Sess, NEW k \in Svr, RunRegister(s, k)
      PROVE  RoleInv'
  <2>1. Runs(<<"register", s, k>>)
    BY <1>8 DEF RunRegister
  <2>2. k \in Roles[s]
    BY <2>1, Taken DEF RoleInv, Asked
  <2>3. \A o \in Sess : agt'[o] \in {agt[o], None} \cup Roles[o]
    BY <1>8, <2>2 DEF RunRegister, NoEffect, Typed
  <2>4. QED
    BY <1>1, <1>2, <2>1, <2>3
<1>9. ASSUME NEW expired \in SUBSET pending, LoginTimeout(expired)
      PROVE  RoleInv'
  BY <1>1, <1>4, <1>9 DEF LoginTimeout
<1>10. CASE BeginDrain \/ StopAllSess \/ StopListen \/ Stop \/ UNCHANGED vars
  <2>1. UNCHANGED <<agt, calls, queue>>
    BY <1>10 DEF BeginDrain, StopAllSess, StopListen, Stop, vars
  <2>2. QED
    BY <1>1, <1>4, <2>1
<1>11. ASSUME NEW t \in calls, Enqueue(t)
       PROVE  RoleInv'
  <2>1. agt' = agt
    BY <1>11 DEF Enqueue
  <2>2. ASSUME NEW s \in Sess, NEW k \in Svr, Asked(s, k)'
        PROVE  Asked(s, k)
    <3>1. DOMAIN queue = 1 .. Len(queue)
      BY DEF Typed
    <3>2. CASE (<<"register", s, k>> \in calls)'
      BY <1>11, <3>2 DEF Enqueue, Asked
    <3>3. ASSUME NEW i, i \in DOMAIN queue', queue'[i] = <<"register", s, k>>
          PROVE  Asked(s, k)
      <4>1. i \in DOMAIN queue \/ i = Len(queue) + 1
        BY <1>11, <3>1, <3>3, Put
      <4>2. QED
        BY <1>11, <3>3, <4>1, Put DEF Asked
    <3>4. QED
      BY <2>2, <3>2, <3>3 DEF Asked
  <2>3. QED
    BY <1>1, <2>1, <2>2
<1>12. ASSUME NEW t \in calls, Drop(t)
       PROVE  RoleInv'
  <2>1. agt' = agt /\ queue' = queue /\ calls' \subseteq calls
    BY <1>12 DEF Drop
  <2>2. \A s \in Sess, k \in Svr : Asked(s, k)' => Asked(s, k)
    BY <2>1 DEF Asked
  <2>3. QED
    BY <1>1, <2>1, <2>2
<1>13. ASSUME NEW s \in Sess, Arrives(s) \/ StartConnect(s) \/ HandshakeFails(s) \/ TimerFires(s)
                              \/ StopRuns(s)
       PROVE  RoleInv'
  <2>1. UNCHANGED <<agt, calls, queue>>
    BY <1>13 DEF Arrives, StartConnect, HandshakeFails, TimerFires, StopRuns
  <2>2. QED
    BY <1>1, <1>4, <2>1
<1>14. ASSUME NEW s \in Sess, UserLogsIn(s)
       PROVE  RoleInv'
  <2>1. UNCHANGED <<calls, queue>>
    BY <1>14 DEF UserLogsIn
  <2>2. \A o \in Sess : agt'[o] \in {agt[o], None} \cup Roles[o]
    BY <1>14 DEF UserLogsIn, Typed
  <2>3. QED
    BY <1>1, <1>4, <2>1, <2>2
<1>15. ASSUME NEW s \in Sess, HandshakeDone(s) \/ Breaks(s) \/ RemoveSession(s)
       PROVE  RoleInv'
  <2>1. UNCHANGED <<agt, queue>>
    BY <1>15 DEF HandshakeDone, Breaks, RemoveSession
  <2>2. UNCHANGED calls \/ \E kind \in {"accept", "connect", "over", "remove"} : Submit(<<kind, s>>)
    BY <1>15 DEF HandshakeDone, Breaks, ReportEnd, RemoveSession
  <2>3. \A o \in Sess, k \in Svr : Asked(o, k)' => Asked(o, k) \/ k \in Roles[o]
    BY <1>3, <1>4, <2>1, <2>2
  <2>4. QED
    BY <1>1, <2>1, <2>3
<1>16. ASSUME NEW s \in Sess, NEW k \in Svr, RegisterSess(s, k)
       PROVE  RoleInv'
  <2>1. UNCHANGED <<agt, queue>> /\ Submit(<<"register", s, k>>) /\ k \in Roles[s]
    BY <1>16 DEF RegisterSess
  <2>2. QED
    BY <1>1, <1>3, <2>1
<1>17. ASSUME NEW k \in Svr, RemoveSvr(k)
       PROVE  RoleInv'
  <2>1. UNCHANGED <<agt, queue>> /\ Submit(<<"removeSvr", k>>)
    BY <1>17 DEF RemoveSvr
  <2>2. QED
    BY <1>1, <1>3, <2>1
<1>18. CASE CallFront
  <2>1. UNCHANGED <<agt, queue>> /\ Submit(<<"front">>)
    BY <1>18 DEF CallFront
  <2>2. QED
    BY <1>1, <1>3, <2>1
<1>19. QED
  BY <1>5, <1>6, <1>7, <1>8, <1>9, <1>10, <1>11, <1>12, <1>13, <1>14, <1>15, <1>16, <1>17, <1>18
  DEF Next, LoopStep

(* With one role each, a session that leaves takes its only route along. *)
LEMMA RouteLeaves ==
    ASSUME Typed, RouteExact, NEW s \in Sess, Leaves(s, agt[s])
    PROVE  RouteExact'
<1> DEFINE k == agt[s]
           held == {j \in Svr : k \in Svr /\ TypeOf[j] = TypeOf[k] /\ sessAgent[j] = s}
<1>1. agt' = agt /\ sessMap' = sessMap \ {s} /\ sessAgent' = WithoutRoute(k, s)
  BY DEF Leaves, DeleteSess
<1>2. s # None
  OBVIOUS
<1>3. \A j \in Svr : sessAgent[j] = s => j = k /\ j \in held
  BY <1>2 DEF RouteExact
<1>4. \A j \in Svr : sessAgent'[j] # None => sessAgent'[j] = sessAgent[j] /\ sessAgent[j] # s
  <2>1. CASE held = {}
    BY <1>1, <1>3, <2>1 DEF WithoutRoute
  <2>2. CASE held # {}
    <3>1. held = {k} /\ k \in Svr
      BY <1>3, <2>2
    <3>2. (CHOOSE j \in held : TRUE) = k
      BY <3>1
    <3>3. sessAgent' = [sessAgent EXCEPT ![k] = None]
      BY <1>1, <2>2, <3>2 DEF WithoutRoute
    <3>4. QED
      BY <1>3, <3>3 DEF Typed
  <2>3. QED
    BY <2>1, <2>2
<1>5. QED
  BY <1>1, <1>4 DEF RouteExact

LEMMA RouteStep ==
    ASSUME Disciplined
    PROVE  Typed /\ RoleInv /\ RouteExact /\ [Next]_vars => RouteExact'
<1> SUFFICES ASSUME Typed, RoleInv, RouteExact, [Next]_vars
             PROVE  RouteExact'
  OBVIOUS
<1> USE DEF tables
<1>1. CASE UNCHANGED <<agt, sessAgent>> /\ sessMap \subseteq sessMap'
  BY <1>1 DEF RouteExact
<1>2. ASSUME NEW s \in Sess, RunAccept(s) \/ RunConnect(s)
      PROVE  RouteExact'
  BY <1>1, <1>2 DEF RunAccept, RunConnect, AddSess
<1>3. ASSUME NEW s \in Sess, RunRemove(s) \/ RunOver(s)
      PROVE  RouteExact'
  BY <1>1, <1>3, RouteLeaves DEF RunRemove, RunOver, NoEffect
<1>4. ASSUME NEW k \in Svr, RunRemoveSvr(k)
      PROVE  RouteExact'
  <2>1. CASE sessAgent[k] = None
    BY <1>1, <1>4, <2>1 DEF RunRemoveSvr, NoEffect
  <2>2. CASE sessAgent[k] # None
    <3>1. sessAgent[k] \in Sess /\ agt[sessAgent[k]] = k
      BY <2>2 DEF Typed, RouteExact
    <3>2. QED
      BY <1>4, <2>2, <3>1, RouteLeaves DEF RunRemoveSvr
  <2>3. QED
    BY <2>1, <2>2
<1>5. CASE RunFront
  BY <1>5 DEF RunFront, DeleteSess, RouteExact, Typed
<1>6. ASSUME NEW s \in Sess, NEW k \in Svr, RunRegister(s, k)
      PROVE  RouteExact'
  <2>1. CASE NoEffect
    BY <1>1, <2>1 DEF NoEffect
  <2>2. CASE ~NoEffect
    <3>1. k \in Roles[s]
      BY <1>6, Taken DEF RunRegister, RoleInv, Asked
    <3>2. agt[s] = None \/ agt[s] = k
      BY <3>1 DEF RoleInv, Disciplined
    <3>3. agt' = [agt EXCEPT ![s] = k] /\ sessAgent' = [sessAgent EXCEPT ![k] = s]
          /\ s \in sessMap /\ sessMap' = sessMap
      BY <1>6, <2>2, <3>2 DEF RunRegister
    <3>4. QED
      BY <3>2, <3>3 DEF RouteExact, Typed
  <2>3. QED
    BY <2>1, <2>2
<1>7. ASSUME NEW expired \in SUBSET pending, LoginTimeout(expired)
      PROVE  RouteExact'
  BY <1>7 DEF LoginTimeout, NeedsLogin, RouteExact
<1>8. ASSUME NEW s \in Sess, UserLogsIn(s)
      PROVE  RouteExact'
  <2>1. agt[s] = None
    BY <1>8 DEF UserLogsIn, RoleInv, Disciplined
  <2>2. QED
    BY <1>8, <2>1 DEF UserLogsIn, RouteExact, Typed
<1>9. QED
  BY <1>1, <1>2, <1>3, <1>4, <1>5, <1>6, <1>7, <1>8, TableSteps

(* A route leads to a session that is there and registered under its key, when no
   peer registers twice or logs in as a user too.                                 *)
THEOREM RouteExactHolds ==
    ASSUME Disciplined
    PROVE  Spec => []RouteExact
<1>1. Init => RoleInv /\ RouteExact
  BY DEF Init, RoleInv, RouteExact, Asked
<1>2. BaseInv /\ RoleInv /\ RouteExact /\ [Next]_vars => (RoleInv /\ RouteExact)'
  BY RoleStep, RouteStep, TypeOKTyped DEF BaseInv
<1>3. QED
  BY <1>1, <1>2, BaseInvariance, PTL DEF Spec

-----------------------------------------------------------------------------
(* How tasks flow from the callers through the channel to run. *)

Front == <<"front">>

Queued(t) == \E i \in DOMAIN queue : queue[i] = t

(* run takes t and leaves shutdown alone; the end of a session is handled by RunOver. *)
RunsAsItself(t) ==
    Runs(t) /\ UNCHANGED shutdown /\ \A s \in Sess : t = <<"over", s>> => RunOver(s)

(* What a step may do to the calls in progress, to the channel and to shutdown. *)
LEMMA Flow ==
    ASSUME Typed, [Next]_vars
    PROVE  \/ UNCHANGED <<calls, queue>> /\ (UNCHANGED shutdown \/ StopListen \/ Stop)
           \/ UNCHANGED <<queue, shutdown>> /\ \E t \in Task \ {Front} : Submit(t)
           \/ CallFront
           \/ \E t \in calls : Enqueue(t) \/ Drop(t)
           \/ \E t \in Task \ {Front} : RunsAsItself(t)
           \/ RunFront
<1> USE DEF Front, RunsAsItself
<1>1. ASSUME NEW s \in Sess
      PROVE  /\ <<"accept", s>> \in Task \ {Front} /\ <<"connect", s>> \in Task \ {Front}
             /\ <<"over", s>> \in Task \ {Front} /\ <<"remove", s>> \in Task \ {Front}
  BY TaskKinds
<1>2. ASSUME NEW s \in Sess, NEW k \in Svr
      PROVE  <<"register", s, k>> \in Task \ {Front} /\ <<"removeSvr", k>> \in Task \ {Front}
  BY TaskKinds
<1>3. ASSUME NEW s \in Sess, RunAccept(s) \/ RunConnect(s) \/ RunRemove(s) \/ RunOver(s)
      PROVE  \E t \in Task \ {Front} : RunsAsItself(t)
  <2>1. CASE RunAccept(s)
    BY <1>1, <2>1 DEF RunAccept
  <2>2. CASE RunConnect(s)
    BY <1>1, <2>2 DEF RunConnect
  <2>3. CASE RunRemove(s)
    BY <1>1, <2>3 DEF RunRemove, NoEffect, Leaves
  <2>4. CASE RunOver(s)
    <3>1. Runs(<<"over", s>>) /\ UNCHANGED shutdown
      BY <2>4 DEF RunOver, NoEffect, Leaves
    <3>2. QED
      BY <1>1, <2>4, <3>1
  <2>5. QED
    BY <1>3, <2>1, <2>2, <2>3, <2>4
<1>4. ASSUME NEW s \in Sess, NEW k \in Svr, RunRegister(s, k)
      PROVE  \E t \in Task \ {Front} : RunsAsItself(t)
  BY <1>2, <1>4 DEF RunRegister, NoEffect
<1>5. ASSUME NEW k \in Svr, RunRemoveSvr(k)
      PROVE  \E t \in Task \ {Front} : RunsAsItself(t)
  <2>1. Runs(<<"removeSvr", k>>) /\ UNCHANGED shutdown
    BY <1>5 DEF RunRemoveSvr, NoEffect, Leaves
  <2>2. <<"removeSvr", k>> \in Task \ {Front}
    BY TaskKinds
  <2>3. QED
    BY <2>1, <2>2
<1>6. ASSUME NEW s \in Sess, HandshakeDone(s) \/ Breaks(s) \/ RemoveSession(s)
      PROVE  \/ UNCHANGED <<calls, queue, shutdown>>
             \/ UNCHANGED <<queue, shutdown>> /\ \E t \in Task \ {Front} : Submit(t)
  BY <1>1, <1>6 DEF HandshakeDone, Breaks, RemoveSession, ReportEnd
<1>7. ASSUME NEW s \in Sess, NEW k \in Svr, RegisterSess(s, k)
      PROVE  UNCHANGED <<queue, shutdown>> /\ \E t \in Task \ {Front} : Submit(t)
  BY <1>2, <1>7 DEF RegisterSess
<1>8. ASSUME NEW k \in Svr, RemoveSvr(k)
      PROVE  UNCHANGED <<queue, shutdown>> /\ \E t \in Task \ {Front} : Submit(t)
  <2>1. <<"removeSvr", k>> \in Task \ {Front}
    BY TaskKinds
  <2>2. QED
    BY <1>8, <2>1 DEF RemoveSvr
<1>9. ASSUME NEW s \in Sess, Arrives(s) \/ StartConnect(s) \/ HandshakeFails(s) \/ TimerFires(s)
                             \/ StopRuns(s) \/ UserLogsIn(s)
      PROVE  UNCHANGED <<calls, queue, shutdown>>
  BY <1>9 DEF Arrives, StartConnect, HandshakeFails, TimerFires, StopRuns, UserLogsIn
<1>10. CASE BeginDrain \/ StopAllSess \/ UNCHANGED vars
            \/ \E expired \in SUBSET pending : LoginTimeout(expired)
  BY <1>10 DEF BeginDrain, StopAllSess, LoginTimeout, vars
<1>11. CASE StopListen \/ Stop
  BY <1>11 DEF StopListen, Stop
<1>12. QED
  BY <1>3, <1>4, <1>5, <1>6, <1>7, <1>8, <1>9, <1>10, <1>11 DEF Next, LoopStep

(* The task of StopFront exists once, and only while its caller waits for it. *)
FrontInv ==
    /\ Front \in calls => shutdown = "front" /\ ~Queued(Front)
    /\ Queued(Front) => shutdown = "front"
    /\ \A i, j \in DOMAIN queue : queue[i] = Front /\ queue[j] = Front => i = j

LEMMA FrontStep ==
    Typed /\ FrontInv /\ [Next]_vars => FrontInv' /\ (Stopping => Stopping')
<1> SUFFICES ASSUME Typed, FrontInv, [Next]_vars
             PROVE  FrontInv' /\ (Stopping => Stopping')
  OBVIOUS
<1> USE DEF FrontInv, Queued, Stopping
<1>1. CASE UNCHANGED <<calls, queue>> /\ (UNCHANGED shutdown \/ StopListen \/ Stop)
  BY <1>1 DEF StopListen, Stop
<1>2. CASE UNCHANGED <<queue, shutdown>> /\ \E t \in Task \ {Front} : Submit(t)
  BY <1>2 DEF Submit
<1>3. CASE CallFront
  BY <1>3 DEF CallFront, Submit, Front
<1>4. ASSUME NEW t \in calls, Enqueue(t)
      PROVE  FrontInv' /\ (Stopping => Stopping')
  <2>1. calls' = calls \ {t} /\ UNCHANGED shutdown
    BY <1>4 DEF Enqueue
  <2>2. /\ DOMAIN queue' = 1 .. Len(queue) + 1 /\ queue'[Len(queue) + 1] = t
        /\ DOMAIN queue = 1 .. Len(queue) /\ Len(queue) \in Nat
        /\ \A i \in DOMAIN queue : queue'[i] = queue[i]
    BY <1>4, Put DEF Typed
  <2>3. \A i \in DOMAIN queue' : i \in DOMAIN queue \/ i = Len(queue) + 1
    BY <2>2
  <2>4. CASE t = Front
    BY <2>1, <2>2, <2>3, <2>4
  <2>5. CASE t # Front
    BY <2>1, <2>2, <2>3, <2>5
  <2>6. QED
    BY <2>4, <2>5
<1>5. ASSUME NEW t \in calls, Drop(t)
      PROVE  FrontInv' /\ (Stopping => Stopping')
  <2>1. /\ calls' = calls \ {t} /\ UNCHANGED queue
        /\ UNCHANGED shutdown \/ (t[1] = "front" /\ shutdown' = "fronted")
    BY <1>5 DEF Drop
  <2>2. t[1] = "front" => t = Front
    BY DEF Typed, Task, Front
  <2>3. QED
    BY <2>1, <2>2
<1>6. ASSUME NEW t \in Task, Runs(t)
      PROVE  /\ UNCHANGED calls
             /\ Queued(Front)' => Queued(Front)
             /\ \A i, j \in DOMAIN queue' : queue'[i] = Front /\ queue'[j] = Front => i = j
             /\ t = Front => Queued(Front) /\ ~Queued(Front)'
  <2>1. UNCHANGED calls /\ queue \in Seq(Task) /\ queue' \in Seq(Task)
    BY <1>6, Taken DEF Runs, Typed
  <2>2. /\ \A i \in DOMAIN queue' : i \in Nat \ {0} /\ i + 1 \in DOMAIN queue /\ queue'[i] = queue[i + 1]
        /\ 1 \in DOMAIN queue /\ queue[1] = t
    BY <1>6, <2>1, Taken
  <2>3. Queued(Front)' => Queued(Front)
    BY <2>2
  <2>4. \A i, j \in DOMAIN queue' : queue'[i] = Front /\ queue'[j] = Front => i = j
    <3> SUFFICES ASSUME NEW i \in DOMAIN queue', NEW j \in DOMAIN queue',
                        queue'[i] = Front, queue'[j] = Front
                 PROVE  i = j
      OBVIOUS
    <3>1. i + 1 = j + 1
      BY <2>2
    <3>2. QED
      BY <2>2, <3>1
  <2>5. ASSUME t = Front, NEW i \in DOMAIN queue', queue'[i] = Front
        PROVE  FALSE
    <3>1. i + 1 = 1
      BY <2>2, <2>5
    <3>2. QED
      BY <2>2, <3>1
  <2>6. QED
    BY <2>1, <2>2, <2>3, <2>4, <2>5
<1>7. CASE \E t \in Task \ {Front} : RunsAsItself(t)
  BY <1>6, <1>7 DEF RunsAsItself
<1>8. CASE RunFront
  <2>1. Runs(Front) /\ Front \in Task /\ shutdown' = "fronted"
    BY <1>8, TaskKinds DEF RunFront, FrontDone, Front
  <2>2. QED
    BY <1>6, <2>1
<1>9. QED
  BY <1>1, <1>2, <1>3, <1>4, <1>5, <1>7, <1>8, Flow

LEMMA FrontInvHolds == Spec => []FrontInv
<1>1. Init => FrontInv
  BY DEF Init, FrontInv, Queued
<1>2. TypeOK /\ FrontInv /\ [Next]_vars => FrontInv'
  BY FrontStep, TypeOKTyped
<1>3. QED
  BY <1>1, <1>2, TypeCorrect, PTL DEF Spec

(* What is still to be run or dropped; a call is worth two steps. *)
Work == 2 * Cardinality(calls) + Len(queue)

(* Once Stop has set the flag, it stays set, and every step that touches the callers'
   tasks or the channel brings the drain nearer to its end, however callers and run
   interleave: nobody adds a task, so drainTasks cannot be kept going.               *)
DrainShrinks ==
    [][Stopping => Stopping' /\ (UNCHANGED <<calls, queue>> \/ Work' < Work)]_vars

FiniteCalls == IsFiniteSet(calls)

LEMMA FiniteCallsHolds == Spec => []FiniteCalls
<1>1. Init => FiniteCalls
  BY FS_EmptySet DEF Init, FiniteCalls
<1>2. TypeOK /\ FiniteCalls /\ [Next]_vars => FiniteCalls'
  <2> SUFFICES ASSUME Typed, FiniteCalls, [Next]_vars
               PROVE  IsFiniteSet(calls')
    BY TypeOKTyped DEF FiniteCalls
  <2>1. ASSUME NEW t, Submit(t)
        PROVE  IsFiniteSet(calls')
    BY <2>1, FS_AddElement DEF Submit, FiniteCalls
  <2>2. ASSUME NEW t, calls' = calls \ {t}
        PROVE  IsFiniteSet(calls')
    BY <2>2, FS_Subset DEF FiniteCalls
  <2>3. QED
    BY <2>1, <2>2, Flow DEF CallFront, Enqueue, Drop, Runs, RunsAsItself, RunFront, FiniteCalls
<1>3. QED
  BY <1>1, <1>2, TypeCorrect, PTL DEF Spec

(* After Stop, the work left for drainTasks only shrinks. *)
THEOREM DrainShrinksHolds == Spec => DrainShrinks
<1>1. TypeOK /\ FrontInv /\ FiniteCalls /\ [Next]_vars
          => [Stopping => Stopping' /\ (UNCHANGED <<calls, queue>> \/ Work' < Work)]_vars
  <2> SUFFICES ASSUME Typed, FrontInv, FiniteCalls, [Next]_vars, Stopping
               PROVE  Stopping' /\ (UNCHANGED <<calls, queue>> \/ Work' < Work)
    BY TypeOKTyped
  <2>1. Stopping'
    BY FrontStep
  <2>2. Len(queue) \in Nat /\ Cardinality(calls) \in Nat
    BY FS_CardinalityType DEF Typed, FiniteCalls
  <2>3. ASSUME NEW t \in calls
        PROVE  Cardinality(calls \ {t}) = Cardinality(calls) - 1
    BY FS_RemoveElement DEF FiniteCalls
  <2>4. ASSUME NEW t \in calls, Enqueue(t)
        PROVE  Work' < Work
    <3>1. Len(queue') = Len(queue) + 1 /\ Cardinality(calls') = Cardinality(calls) - 1
      BY <2>3, <2>4 DEF Enqueue, Typed
    <3>2. QED
      BY <2>2, <3>1 DEF Work
  <2>5. ASSUME NEW t \in calls, Drop(t)
        PROVE  Work' < Work
    <3>1. Len(queue') = Len(queue) /\ Cardinality(calls') = Cardinality(calls) - 1
      BY <2>3, <2>5 DEF Drop
    <3>2. QED
      BY <2>2, <3>1 DEF Work
  <2>6. ASSUME NEW t, Runs(t)
        PROVE  Work' < Work
    <3>1. Len(queue') = Len(queue) - 1 /\ calls' = calls
      BY <2>6, Taken DEF Runs
    <3>2. QED
      BY <2>2, <3>1 DEF Work
  <2>7. ASSUME NEW t
        PROVE  ~Submit(t) /\ ~CallFront
    BY DEF Submit, MayAdd, CallFront
  <2>8. QED
    BY <2>1, <2>4, <2>5, <2>6, <2>7, Flow DEF RunsAsItself, RunFront, StopListen, Stop
<1>2. QED
  BY <1>1, TypeCorrect, FrontInvHolds, FiniteCallsHolds, PTL DEF Spec, DrainShrinks

-----------------------------------------------------------------------------
(* How sessions end. *)

(* A session that has been up never becomes another one: its connection can only go
   down, and once it has left sessMap nothing brings it back, neither a task that was
   still queued nor a reconnection, which is a session of its own.                   *)
SettledForGood ==
    [][\A s \in Sess : conn[s] \in {"up", "down"} =>
          conn'[s] \in {conn[s], "down"} /\ (s \in sessMap' => s \in sessMap)]_vars

(* Connections that are up come down for one of these reasons. *)
LEMMA ConnStep ==
    ASSUME Typed, OfferInv, [Next]_vars, NEW s \in Sess
    PROVE  /\ conn[s] = "down" => conn'[s] = "down"
           /\ conn[s] = "up" =>
                 \/ conn'[s] = "up"
                 \/ conn'[s] = "down" /\ (ReportEnd(s) \/ s \in stopCalled \/ loop = "draining")
<1> DEFINE Ends == /\ conn[s] = "down" => conn'[s] = "down"
                   /\ conn[s] = "up" =>
                         \/ conn'[s] = "up"
                         \/ conn'[s] = "down" /\ (ReportEnd(s) \/ s \in stopCalled \/ loop = "draining")
<1>a. conn \in [Sess -> {"none", "handshake", "dialing", "waiting", "offered", "up", "down"}]
  BY DEF Typed
<1> USE <1>a DEF Goes
<1>1. ASSUME UNCHANGED conn
      PROVE  Ends
  BY <1>1
<1>2. ASSUME NEW o \in Sess, NEW state, conn[o] \notin {"up", "down"}, Goes(o, state)
      PROVE  Ends
  BY <1>2
<1>3. ASSUME NEW o \in Sess, RunAccept(o) \/ RunConnect(o)
      PROVE  Ends
  <2>1. conn[o] = "offered"
    BY <1>3, TakesOffer DEF RunAccept, RunConnect
  <2>2. QED
    BY <1>2, <1>3, <2>1 DEF RunAccept, RunConnect
<1>4. ASSUME NEW o \in Sess, RunOver(o)
      PROVE  Ends
  <2>1. UNCHANGED conn \/ \E d \in Fresh(o) : Goes(d, "dialing")
    BY <1>4 DEF RunOver, NoEffect
  <2>2. \A d \in Fresh(o) : d \in Sess /\ conn[d] = "none"
    BY DEF Fresh
  <2>3. QED
    BY <1>1, <1>2, <2>1, <2>2
<1>5. ASSUME NEW t \in calls, Drop(t)
      PROVE  Ends
  <2>1. UNCHANGED conn \/ (t[1] \in {"accept", "connect"} /\ \E state : Goes(t[2], state))
    BY <1>5 DEF Drop
  <2>2. CASE t[1] \in {"accept", "connect"}
    <3>1. t[2] \in Sess /\ t = <<t[1], t[2]>>
      BY <2>2, TaskSession DEF Typed
    <3>2. conn[t[2]] = "offered"
      <4>1. InCalls(t[1], t[2])
        BY <3>1 DEF InCalls
      <4>2. QED
        BY <2>2, <3>1, <4>1 DEF OfferInv
    <3>3. QED
      BY <1>1, <1>2, <2>1, <3>1, <3>2
  <2>3. QED
    BY <1>1, <2>1, <2>2
<1>6. ASSUME NEW o \in Sess, Arrives(o) \/ StartConnect(o) \/ HandshakeFails(o) \/ TimerFires(o)
                             \/ HandshakeDone(o)
      PROVE  Ends
  BY <1>6, <1>2 DEF Arrives, StartConnect, HandshakeFails, TimerFires, HandshakeDone
<1>7. ASSUME NEW o \in Sess, Breaks(o) \/ StopRuns(o)
      PROVE  Ends
  BY <1>7 DEF Breaks, StopRuns
<1>8. CASE StopAllSess
  BY <1>8 DEF StopAllSess
<1>9. QED
  BY <1>1, <1>3, <1>4, <1>5, <1>6, <1>7, <1>8
     DEF Next, LoopStep, vars, RunRemove, RunRegister, RunRemoveSvr, RunFront, NoEffect, BeginDrain,
         LoginTimeout, Enqueue, UserLogsIn, RemoveSession, RegisterSess, RemoveSvr, StopListen,
         CallFront, Stop

(* A session enters sessMap when its connection comes up. *)
LEMMA EntersUp ==
    ASSUME Typed, OfferInv, [Next]_vars, NEW s \in sessMap' \ sessMap
    PROVE  conn[s] = "offered" /\ conn'[s] = "up"
<1>1. ASSUME NEW o \in Sess, RunAccept(o) \/ RunConnect(o)
      PROVE  conn[s] = "offered" /\ conn'[s] = "up"
  <2>1. conn[o] = "offered"
    BY <1>1, TakesOffer DEF RunAccept, RunConnect
  <2>2. s = o /\ Goes(o, "up")
    BY <1>1 DEF RunAccept, RunConnect, AddSess
  <2>3. QED
    BY <2>1, <2>2 DEF Goes, Typed
<1>2. ASSUME sessMap' \subseteq sessMap
      PROVE  FALSE
  BY <1>2
<1>3. QED
  BY <1>1, <1>2, TableSteps
     DEF tables, RunRemove, RunOver, UserLogsIn, RunRegister, RunRemoveSvr, RunFront, LoginTimeout,
         NoEffect, Leaves, DeleteSess

(* No queued task revives a session that was up. *)
THEOREM SettledForGoodHolds == Spec => SettledForGood
<1>1. BaseInv /\ [Next]_vars
          => [\A s \in Sess : conn[s] \in {"up", "down"} =>
                 conn'[s] \in {conn[s], "down"} /\ (s \in sessMap' => s \in sessMap)]_vars
  <2> SUFFICES ASSUME BaseInv, [Next]_vars, NEW s \in Sess, conn[s] \in {"up", "down"}
               PROVE  conn'[s] \in {conn[s], "down"} /\ (s \in sessMap' => s \in sessMap)
    OBVIOUS
  <2>1. Typed /\ OfferInv
    BY TypeOKTyped DEF BaseInv
  <2>2. QED
    BY <2>1, ConnStep, EntersUp
<1>2. QED
  BY <1>1, BaseInvariance, PTL DEF Spec, SettledForGood

(* stop() is called on sessions that have been up, and as long as run serves, only on
   sessions it has taken out of sessMap.                                              *)
SettledInv ==
    /\ \A s \in stopCalled : conn[s] \in {"up", "down"}
    /\ \A k \in Svr : sessAgent[k] # None => conn[sessAgent[k]] \in {"up", "down"}
    /\ sessMap \cap stopCalled # {} => loop = "done"
    /\ loop # "running" => Stopping

LEMMA SettledStep ==
    Typed /\ OfferInv /\ FrontInv /\ SettledInv /\ [Next]_vars => SettledInv'
<1> SUFFICES ASSUME Typed, OfferInv, FrontInv, SettledInv, [Next]_vars
             PROVE  SettledInv'
  OBVIOUS
<1>1. Stopping => Stopping'
  BY FrontStep
<1>2. \A s \in Sess : conn[s] \in {"up", "down"} => conn'[s] \in {"up", "down"}
  BY ConnStep
<1>3. /\ sessMap \subseteq Sess /\ stopCalled \subseteq Sess
      /\ \A k \in Svr : sessAgent[k] \in Sess \cup {None}
      /\ \A s \in sessMap : conn[s] \in {"up", "down"}
  BY DEF Typed, OfferInv
<1> USE DEF SettledInv, SafeGoStop
<1>4. ASSUME NEW S \in SUBSET Sess, \A s \in S : conn[s] \in {"up", "down"},
             sessMap' = sessMap \ S, stopCalled' = stopCalled \cup S, UNCHANGED loop,
             \A k \in Svr : sessAgent'[k] \in {sessAgent[k], None} \cup sessMap
      PROVE  SettledInv'
  BY <1>1, <1>2, <1>3, <1>4
<1>5. ASSUME UNCHANGED <<sessMap, sessAgent, stopCalled>>,
             UNCHANGED loop \/ (loop' = "draining" /\ loop = "running" /\ Stopping)
      PROVE  SettledInv'
  BY <1>1, <1>2, <1>3, <1>5
<1>6. ASSUME NEW s \in Sess, RunAccept(s) \/ RunConnect(s)
      PROVE  SettledInv'
  <2>1. conn[s] = "offered" /\ s \notin sessMap /\ s \notin stopCalled
    <3>1. conn[s] = "offered"
      BY <1>6, TakesOffer DEF RunAccept, RunConnect
    <3>2. QED
      BY <1>3, <3>1
  <2>2. /\ UNCHANGED <<sessAgent, loop>> /\ conn'[s] \in {"up", "down"}
        /\ \/ sessMap' = sessMap \cup {s} /\ UNCHANGED stopCalled
           \/ UNCHANGED sessMap /\ stopCalled' = stopCalled \cup {s}
    BY <1>6 DEF RunAccept, RunConnect, AddSess, Goes, Runs, Typed
  <2>3. /\ \A o \in stopCalled' : conn'[o] \in {"up", "down"}
        /\ \A k \in Svr : sessAgent'[k] # None => conn'[sessAgent'[k]] \in {"up", "down"}
    BY <1>2, <1>3, <2>2
  <2>4. sessMap' \cap stopCalled' = sessMap \cap stopCalled
    BY <2>1, <2>2
  <2>5. QED
    BY <1>1, <2>2, <2>3, <2>4
<1>7. ASSUME NEW s \in Sess, NEW k
      PROVE  \A j \in Svr : WithoutRoute(k, s)[j] \in {sessAgent[j], None}
  BY DEF WithoutRoute, Typed
<1>8. ASSUME NEW s \in Sess, NEW k, Leaves(s, k), UNCHANGED loop, conn[s] \in {"up", "down"}
      PROVE  SettledInv'
  <2>1. sessMap' = sessMap \ {s} /\ stopCalled' = stopCalled \cup {s} /\ sessAgent' = WithoutRoute(k, s)
    BY <1>8 DEF Leaves, DeleteSess
  <2>2. \A j \in Svr : sessAgent'[j] \in {sessAgent[j], None}
    BY <1>7, <2>1
  <2>3. {s} \in SUBSET Sess /\ \A o \in {s} : conn[o] \in {"up", "down"}
    BY <1>8
  <2>4. QED
    BY <1>4, <1>8, <2>1, <2>2, <2>3
<1>9. ASSUME NEW s \in Sess, RunRemove(s) \/ RunOver(s)
      PROVE  SettledInv'
  <2>1. UNCHANGED loop
    BY <1>9 DEF RunRemove, RunOver, Runs
  <2>2. CASE s \notin sessMap
    BY <1>5, <1>9, <2>1, <2>2 DEF RunRemove, RunOver, NoEffect, tables
  <2>3. CASE s \in sessMap
    BY <1>3, <1>8, <1>9, <2>1, <2>3 DEF RunRemove, RunOver
  <2>4. QED
    BY <2>2, <2>3
<1>10. ASSUME NEW k \in Svr, RunRemoveSvr(k)
       PROVE  SettledInv'
  <2>1. UNCHANGED loop
    BY <1>10 DEF RunRemoveSvr, Runs
  <2>2. CASE sessAgent[k] = None
    BY <1>5, <1>10, <2>1, <2>2 DEF RunRemoveSvr, NoEffect, tables
  <2>3. CASE sessAgent[k] # None
    BY <1>3, <1>8, <1>10, <2>1, <2>3 DEF RunRemoveSvr
  <2>4. QED
    BY <2>2, <2>3
<1>11. ASSUME NEW s \in Sess, NEW k \in Svr, RunRegister(s, k)
       PROVE  SettledInv'
  <2>1. UNCHANGED <<sessMap, stopCalled, loop>>
    BY <1>11 DEF RunRegister, NoEffect, tables, Runs
  <2>2. \A j \in Svr : sessAgent'[j] \in {sessAgent[j], None} \cup sessMap
    BY <1>11 DEF RunRegister, NoEffect, tables, Typed
  <2>3. sessMap' = sessMap \ {} /\ stopCalled' = stopCalled \cup {} /\ {} \in SUBSET Sess
    BY <2>1
  <2>4. QED
    BY <1>4, <2>1, <2>2, <2>3
<1>12. CASE RunFront
  <2>1. /\ sessMap' = sessMap \ (sessMap \cap Accept)
        /\ stopCalled' = stopCalled \cup (sessMap \cap Accept) /\ UNCHANGED loop
        /\ \A k \in Svr : sessAgent'[k] \in {sessAgent[k], None}
    BY <1>12 DEF RunFront, DeleteSess, Runs
  <2>2. /\ sessMap \cap Accept \in SUBSET Sess
        /\ \A s \in sessMap \cap Accept : conn[s] \in {"up", "down"}
    BY <1>3
  <2>3. QED
    BY <1>4, <2>1, <2>2
<1>13. ASSUME NEW expired \in SUBSET pending, LoginTimeout(expired)
       PROVE  SettledInv'
  <2>1. PICK late \in SUBSET sessMap :
            /\ sessMap' = sessMap \ late /\ stopCalled' = stopCalled \cup late
            /\ UNCHANGED <<sessAgent, loop>>
    BY <1>13 DEF LoginTimeout
  <2>2. QED
    BY <1>3, <1>4, <2>1
<1>14. CASE StopAllSess
  <2>1. /\ loop = "draining" /\ loop' = "done" /\ stopCalled' = stopCalled \cup sessMap
        /\ UNCHANGED <<sessMap, sessAgent>>
    BY <1>14 DEF StopAllSess, tables
  <2>2. QED
    BY <1>1, <1>2, <1>3, <2>1
<1>15. CASE BeginDrain
  BY <1>5, <1>15 DEF BeginDrain, tables
<1>16. ASSUME NEW s \in Sess, Arrives(s) \/ StartConnect(s) \/ HandshakeFails(s) \/ TimerFires(s)
                              \/ HandshakeDone(s) \/ Breaks(s) \/ StopRuns(s) \/ UserLogsIn(s)
                              \/ RemoveSession(s) \/ \E k \in Svr : RegisterSess(s, k)
       PROVE  UNCHANGED <<sessMap, sessAgent, stopCalled, loop>>
  BY <1>16 DEF Arrives, StartConnect, HandshakeFails, TimerFires, HandshakeDone, Breaks, StopRuns,
               UserLogsIn, RemoveSession, RegisterSess, tables
<1>17. CASE \/ StopListen \/ CallFront \/ Stop \/ UNCHANGED vars
            \/ \E k \in Svr : RemoveSvr(k)
            \/ \E t \in calls : Enqueue(t) \/ Drop(t)
  BY <1>5, <1>17 DEF StopListen, CallFront, Stop, RemoveSvr, Enqueue, Drop, vars, tables
<1>18. QED
  BY <1>5, <1>6, <1>9, <1>10, <1>11, <1>12, <1>13, <1>14, <1>15, <1>16, <1>17 DEF Next, LoopStep

(* The end of a session is on its way to run, or was dropped because taskChan was full,
   or the manager stops.                                                               *)
Reported(s) == <<"over", s>> \in calls \/ Queued(<<"over", s>>) \/ s \in lost \/ Stopping

(* A session in sessMap whose connection is down is about to be taken out of it: between
   the reader's or writer's failure and the task loop no race of kicks, timeouts,
   StopFront or reconnections loses the event, except where taskChan is full.           *)
EndReported == \A s \in sessMap : conn[s] = "down" => Reported(s)

LEMMA LostGrows == ASSUME [Next]_vars PROVE lost \subseteq lost'
BY DEF Next, LoopStep, vars, Runs, RunAccept, RunConnect, RunRemove, RunOver, RunRegister,
       RunRemoveSvr, RunFront, BeginDrain, StopAllSess, LoginTimeout, Enqueue, Drop, Arrives,
       StartConnect, HandshakeFails, TimerFires, HandshakeDone, Breaks, StopRuns, UserLogsIn,
       RemoveSession, RegisterSess, RemoveSvr, StopListen, CallFront, Stop

(* run takes the head of the channel only. *)
LEMMA HeadOnly ==
    ASSUME Typed, NEW t, NEW u, u # t, Runs(t), Queued(u)
    PROVE  Queued(u)'
<1>1. PICK i \in DOMAIN queue : queue[i] = u
  BY DEF Queued
<1>2. /\ queue \in Seq(Task) /\ queue' \in Seq(Task) /\ Len(queue') = Len(queue) - 1
      /\ queue[1] = t /\ \A j \in DOMAIN queue' : queue'[j] = queue[j + 1]
  BY Taken DEF Typed
<1>3. i - 1 \in DOMAIN queue' /\ queue'[i - 1] = queue[(i - 1) + 1]
  BY <1>1, <1>2
<1>4. (i - 1) + 1 = i
  BY <1>1, <1>2
<1>5. QED
  BY <1>1, <1>3, <1>4 DEF Queued

LEMMA ReportedStays ==
    ASSUME Typed, FrontInv, [Next]_vars, NEW s \in Sess, Reported(s)
    PROVE  Reported(s)' \/ RunOver(s)
<1> DEFINE over == <<"over", s>>
<1>1. CASE s \in lost \/ Stopping
  BY <1>1, FrontStep, LostGrows DEF Reported
<1>2. ASSUME NEW t \in calls, Enqueue(t), over \in calls \/ Queued(over)
      PROVE  over \in calls' \/ Queued(over)'
  <2>1. calls' = calls \ {t} /\ queue \in Seq(Task)
    BY <1>2 DEF Enqueue, Typed
  <2>2. /\ Len(queue) + 1 \in DOMAIN queue' /\ queue'[Len(queue) + 1] = t
        /\ \A i \in DOMAIN queue : queue'[i] = queue[i] /\ i \in DOMAIN queue'
    BY <1>2, <2>1, Put
  <2>3. QED
    BY <1>2, <2>1, <2>2 DEF Queued
<1>3. ASSUME NEW t \in calls, Drop(t), over \in calls \/ Queued(over)
      PROVE  over \in calls' \/ Queued(over)' \/ s \in lost'
  <2>1. calls' = calls \ {t} /\ UNCHANGED queue /\ (t = over => s \in lost')
    BY <1>3 DEF Drop
  <2>2. QED
    BY <1>3, <2>1 DEF Queued
<1>4. ASSUME NEW t, Runs(t), over \in calls \/ Queued(over), t # over
      PROVE  over \in calls' \/ Queued(over)'
  BY <1>4, HeadOnly DEF Runs
<1>5. ASSUME NEW t, Submit(t), UNCHANGED queue, over \in calls \/ Queued(over)
      PROVE  over \in calls' \/ Queued(over)'
  BY <1>5 DEF Submit, Queued
<1>6. over # Front
  BY DEF Front
<1>7. CASE over \in calls \/ Queued(over)
  <2>1. CASE UNCHANGED <<calls, queue>>
    BY <1>7, <2>1 DEF Reported, Queued
  <2>2. CASE \/ \E t \in calls : Enqueue(t) \/ Drop(t)
             \/ \E t \in Task \ {Front} : RunsAsItself(t)
    BY <1>2, <1>3, <1>4, <1>7, <2>2 DEF Reported, RunsAsItself
  <2>3. CASE RunFront
    BY <1>4, <1>6, <1>7, <2>3 DEF Reported, RunFront, Front
  <2>4. CASE UNCHANGED queue /\ \E t : Submit(t)
    BY <1>5, <1>7, <2>4 DEF Reported
  <2>5. QED
    BY <2>1, <2>2, <2>3, <2>4, Flow DEF CallFront
<1>8. QED
  BY <1>1, <1>7 DEF Reported

LEMMA EndStep ==
    Typed /\ OfferInv /\ FrontInv /\ SettledInv /\ EndReported /\ [Next]_vars => EndReported'
<1> SUFFICES ASSUME Typed, OfferInv, FrontInv, SettledInv, EndReported, [Next]_vars,
                    NEW s \in sessMap', conn'[s] = "down"
             PROVE  Reported(s)'
  BY DEF EndReported
<1>1. s \in sessMap /\ s \in Sess
  BY EntersUp DEF Typed
<1>2. ~RunOver(s)
  BY DEF RunOver, Leaves, DeleteSess, NoEffect, tables
<1>3. CASE conn[s] = "down"
  BY <1>1, <1>2, <1>3, ReportedStays DEF EndReported
<1>4. CASE conn[s] = "up"
  <2>1. ReportEnd(s) \/ s \in stopCalled \/ loop = "draining"
    BY <1>1, <1>4, ConnStep
  <2>2. <<"over", s>> \in calls' \/ Stopping
    BY <1>1, <2>1 DEF ReportEnd, Submit, MayAdd, SettledInv
  <2>3. QED
    BY <2>2, FrontStep DEF Reported
<1>5. QED
  BY <1>1, <1>3, <1>4 DEF OfferInv

(* No end of a session is lost, but to a full taskChan or to Stop. *)
THEOREM EndReportedHolds == Spec => []EndReported
<1>1. Init => SettledInv /\ EndReported
  BY DEF Init, SettledInv, EndReported
<1>2. BaseInv => Typed /\ OfferInv
  BY TypeOKTyped DEF BaseInv
<1>3. QED
  BY <1>1, <1>2, BaseInvariance, FrontInvHolds, SettledStep, EndStep, PTL DEF Spec

=============================================================================
