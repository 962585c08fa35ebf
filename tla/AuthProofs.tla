------------------------------ MODULE AuthProofs ------------------------------
(***************************************************************************)
(* Proofs about Auth, for any number of concurrent logins and requests.    *)
(***************************************************************************)
EXTENDS Auth, TLAPS

USE AuthAssumption

(* What a login knows at each point, and what its EXEC and credentials imply. *)
LoginInv ==
    \A l \in Login :
        /\ acct[l] # None => acct[l] = binding[IdentityOf[l]]
        /\ pc[l] \notin {"idle", "binding", "failed"} => acct[l] # None
        /\ pc[l] \in {"idle", "binding", "account", "get", "exec"} => l \notin saved
        /\ pc[l] \in {"ticket", "token", "returned"} => l \in saved
        /\ l \in saved => acct[l] # None
        /\ pc[l] \in {"idle", "binding", "account", "get"} => old[l] = None
        /\ (\E k \in Kind : <<k, l>> \in creds) => l \in saved

(* A credential that a request has taken is gone for every other request. *)
SpendInv ==
    \A r \in Request :
        /\ req[r].state # "idle" => /\ req[r].cred \in Credential
                                    /\ pc[req[r].cred[2]] = "returned"
        /\ req[r].state \in {"taken", "granted"} =>
              /\ req[r].cred \notin creds
              /\ \A q \in Request \ {r} :
                    req[q].state \in {"taken", "granted"} => req[q].cred # req[r].cred

(* account_session names the login that EXECed last, and that is never the one
   a finished SaveSession took for the old session.                           *)
PointerInv ==
    /\ sessions \subseteq saved
    /\ \A a \in Login : current[a] # None => current[a] \in saved /\ acct[current[a]] = a
    /\ \A k \in Login : old[k] # None => /\ old[k] \in saved
                                         /\ acct[old[k]] = acct[k]
                                         /\ k \in saved => current[acct[k]] # old[k]

IInv == TypeOK /\ LoginInv /\ SpendInv /\ PointerInv

LEMMA CredentialPairs ==
    \A c : c \in Credential <=> \E k \in Kind, l \in Login : c = <<k, l>>
BY DEF Credential

LEMMA IInvInit == Init => IInv
BY DEF Init, IInv, TypeOK, LoginState, LoginInv, SpendInv, PointerInv, Credential, Kind

LEMMA TypeStep == IInv /\ [Next]_vars => TypeOK'
<1> SUFFICES ASSUME IInv, [Next]_vars
             PROVE  TypeOK'
  OBVIOUS
<1> USE DEF IInv, TypeOK, LoginState, Moves, mongo, redis
<1>1. ASSUME NEW l \in Login, Begin(l) \/ CallFails(l)
      PROVE  TypeOK'
  BY <1>1 DEF Begin, CallFails
<1>2. ASSUME NEW l \in Login, FindOrCreateBinding(l)
      PROVE  TypeOK'
  <2>1. Bound(l) \in [Identity -> Login \cup {None}] /\ IdentityOf[l] \in Identity
    BY DEF Bound
  <2>2. QED
    BY <1>2, <2>1 DEF FindOrCreateBinding
<1>3. ASSUME NEW l \in Login, UpsertAccount(l) \/ GetOldSession(l)
      PROVE  TypeOK'
  <2>1. acct[l] \in Login
    BY <1>3 DEF UpsertAccount, GetOldSession, LoginInv
  <2>2. QED
    BY <1>3, <2>1 DEF UpsertAccount, GetOldSession, AccountKey
<1>4. ASSUME NEW l \in Login, ExecSaveSession(l)
      PROVE  TypeOK'
  <2>1. current' \in [Login -> Login \cup {None}]
    BY <1>4 DEF ExecSaveSession, Pointed
  <2>2. sessions' \in SUBSET Login /\ saved' \in SUBSET Login
    BY <1>4 DEF ExecSaveSession
  <2>3. overlaps' \in [Login -> SUBSET Login]
    BY <1>4 DEF ExecSaveSession
  <2>4. pc' \in [Login -> LoginState]
    BY <1>4 DEF ExecSaveSession
  <2>5. QED
    BY <1>4, <2>1, <2>2, <2>3, <2>4 DEF ExecSaveSession
<1>5. ASSUME NEW l \in Login, SaveTicket(l) \/ SaveToken(l)
      PROVE  TypeOK'
  BY <1>5, CredentialPairs DEF SaveTicket, SaveToken, Kind
<1>6. ASSUME NEW c \in Credential, NEW r \in Request, Consume(r, c) \/ ConsumeFails(r, c)
      PROVE  TypeOK'
  BY <1>6 DEF Consume, ConsumeFails, Taken, Answer
<1>7. ASSUME NEW r \in Request, GetSession(r)
      PROVE  TypeOK'
  BY <1>7 DEF GetSession, Answer
<1>8. ASSUME NEW l \in Login, ExpireSession(l) \/ ExpireCurrent(l)
      PROVE  TypeOK'
  BY <1>8 DEF ExpireSession, ExpireCurrent
<1>9. ASSUME NEW c \in Credential, ExpireCredential(c)
      PROVE  TypeOK'
  BY <1>9 DEF ExpireCredential
<1>10. CASE UNCHANGED vars
  BY <1>10 DEF vars
<1>11. QED
  BY <1>1, <1>2, <1>3, <1>4, <1>5, <1>6, <1>7, <1>8, <1>9, <1>10 DEF Next

LEMMA LoginStep == IInv /\ [Next]_vars => LoginInv'
<1> SUFFICES ASSUME IInv, [Next]_vars
             PROVE  LoginInv'
  OBVIOUS
<1> USE DEF IInv, LoginInv, TypeOK, LoginState, Moves, mongo, redis
<1>1. ASSUME NEW l \in Login, Begin(l) \/ CallFails(l)
      PROVE  LoginInv'
  <2>1. CASE Begin(l)
    BY <2>1 DEF Begin
  <2>2. CASE CallFails(l)
    BY <2>2 DEF CallFails
  <2>3. QED
    BY <1>1, <2>1, <2>2
<1>2. ASSUME NEW l \in Login, FindOrCreateBinding(l)
      PROVE  LoginInv'
  <2>1. /\ binding' = Bound(l)
        /\ acct' = [acct EXCEPT ![l] = Bound(l)[IdentityOf[l]]]
        /\ Bound(l)[IdentityOf[l]] # None
        /\ \A i \in Identity : binding[i] # None => Bound(l)[i] = binding[i]
    BY <1>2 DEF FindOrCreateBinding, Bound
  <2>2. \A k \in Login : acct'[k] # None => acct'[k] = binding'[IdentityOf[k]]
    BY <2>1
  <2>3. QED
    BY <1>2, <2>1, <2>2 DEF FindOrCreateBinding
<1>3. ASSUME NEW l \in Login, UpsertAccount(l) \/ GetOldSession(l)
      PROVE  LoginInv'
  <2>1. CASE UpsertAccount(l)
    BY <2>1 DEF UpsertAccount
  <2>2. CASE GetOldSession(l)
    BY <2>2 DEF GetOldSession
  <2>3. QED
    BY <1>3, <2>1, <2>2
<1>4. ASSUME NEW l \in Login, ExecSaveSession(l)
      PROVE  LoginInv'
  BY <1>4 DEF ExecSaveSession
<1>5. ASSUME NEW l \in Login, SaveTicket(l) \/ SaveToken(l)
      PROVE  LoginInv'
  <2>1. /\ UNCHANGED <<acct, old, binding, saved>>
        /\ pc[l] \in {"ticket", "token"} /\ pc'[l] \in {"token", "returned", "failed"}
        /\ \A k \in Login \ {l} : pc'[k] = pc[k]
        /\ \A kind \in Kind, k \in Login \ {l} : <<kind, k>> \in creds' => <<kind, k>> \in creds
    BY <1>5 DEF SaveTicket, SaveToken
  <2>2. ASSUME NEW k \in Login
        PROVE  (\E kind \in Kind : <<kind, k>> \in creds') => k \in saved
    BY <2>1
  <2>3. QED
    BY <2>1, <2>2
<1>6. ASSUME NEW c \in Credential, NEW r \in Request, Consume(r, c) \/ ConsumeFails(r, c)
      PROVE  LoginInv'
  BY <1>6 DEF Consume, ConsumeFails, Taken
<1>7. ASSUME NEW r \in Request, GetSession(r)
      PROVE  LoginInv'
  BY <1>7 DEF GetSession
<1>8. ASSUME NEW l \in Login, ExpireSession(l) \/ ExpireCurrent(l)
      PROVE  LoginInv'
  BY <1>8 DEF ExpireSession, ExpireCurrent
<1>9. ASSUME NEW c \in Credential, ExpireCredential(c)
      PROVE  LoginInv'
  BY <1>9 DEF ExpireCredential
<1>10. CASE UNCHANGED vars
  BY <1>10 DEF vars
<1>11. QED
  BY <1>1, <1>2, <1>3, <1>4, <1>5, <1>6, <1>7, <1>8, <1>9, <1>10 DEF Next

LEMMA SpendStep == IInv /\ [Next]_vars => SpendInv'
<1> SUFFICES ASSUME IInv, [Next]_vars
             PROVE  SpendInv'
  OBVIOUS
<1> USE DEF IInv, SpendInv, TypeOK, Moves, mongo, redis
<1>1. ASSUME UNCHANGED <<req, creds>>, NEW l \in Login, pc[l] # "returned",
             \A k \in Login \ {l} : pc'[k] = pc[k]
      PROVE  SpendInv'
  <2>1. \A r \in Request : req[r].state # "idle" => req[r].cred[2] \in Login \ {l}
    BY <1>1, CredentialPairs
  <2>2. QED
    BY <1>1, <2>1
<1>2. ASSUME NEW l \in Login,
             Begin(l) \/ FindOrCreateBinding(l) \/ UpsertAccount(l) \/ GetOldSession(l)
             \/ ExecSaveSession(l) \/ CallFails(l)
      PROVE  SpendInv'
  <2>1. UNCHANGED <<req, creds>> /\ pc[l] # "returned"
    BY <1>2 DEF Begin, FindOrCreateBinding, UpsertAccount, GetOldSession, ExecSaveSession,
                CallFails
  <2>2. \A k \in Login \ {l} : pc'[k] = pc[k]
    BY <1>2 DEF Begin, FindOrCreateBinding, UpsertAccount, GetOldSession, ExecSaveSession,
                CallFails
  <2>3. QED
    BY <1>1, <2>1, <2>2
<1>3. ASSUME NEW l \in Login, SaveTicket(l) \/ SaveToken(l)
      PROVE  SpendInv'
  <2>1. /\ pc[l] # "returned" /\ UNCHANGED req
        /\ \A k \in Login \ {l} : pc'[k] = pc[k]
        /\ \A c \in creds' \ creds : c[2] = l
    BY <1>3 DEF SaveTicket, SaveToken
  <2>2. \A r \in Request : req[r].state # "idle" => req[r].cred[2] \in Login \ {l}
    BY <2>1, CredentialPairs
  <2>3. QED
    BY <2>1, <2>2
<1>4. ASSUME NEW c \in Credential, NEW r \in Request, Consume(r, c)
      PROVE  SpendInv'
  <2>1. PICK state \in {"taken", "refused"} :
            req' = [req EXCEPT ![r] = [state |-> state, cred |-> c]]
    BY <1>4 DEF Consume, Answer
  <2>2. /\ pc[c[2]] = "returned" /\ UNCHANGED pc
        /\ c \in creds /\ creds' = creds \ {c}
    BY <1>4 DEF Consume, Presents, Taken
  <2>3. req'[r].state = state /\ req'[r].cred = c /\ \A q \in Request \ {r} : req'[q] = req[q]
    BY <2>1
  <2>4. \A q \in Request \ {r} : req[q].state \in {"taken", "granted"} => req[q].cred # c
    BY <2>2
  <2>5. ASSUME NEW q \in Request
        PROVE  /\ req'[q].state # "idle" =>
                     req'[q].cred \in Credential /\ pc'[req'[q].cred[2]] = "returned"
               /\ req'[q].state \in {"taken", "granted"} =>
                     /\ req'[q].cred \notin creds'
                     /\ \A p \in Request \ {q} :
                           req'[p].state \in {"taken", "granted"} => req'[p].cred # req'[q].cred
    <3>1. CASE q = r
      BY <2>2, <2>3, <2>4, <3>1
    <3>2. CASE q # r
      BY <2>2, <2>3, <2>4, <3>2
    <3>3. QED
      BY <3>1, <3>2
  <2>6. QED
    BY ONLY <2>5 DEF SpendInv
<1>5. ASSUME NEW c \in Credential, NEW r \in Request, ConsumeFails(r, c)
      PROVE  SpendInv'
  <2>1. /\ req'[r].state = "refused" /\ req'[r].cred = c
        /\ \A q \in Request \ {r} : req'[q] = req[q]
        /\ pc[c[2]] = "returned" /\ UNCHANGED <<pc, creds>>
    BY <1>5 DEF ConsumeFails, Answer, Presents
  <2>2. QED
    BY <2>1
<1>6. ASSUME NEW r \in Request, GetSession(r)
      PROVE  SpendInv'
  <2>1. /\ req'[r].state \in {"granted", "refused"} /\ req'[r].cred = req[r].cred
        /\ \A q \in Request \ {r} : req'[q] = req[q]
        /\ req[r].state = "taken" /\ UNCHANGED <<pc, creds>>
    BY <1>6 DEF GetSession, Answer
  <2>2. ASSUME NEW q \in Request
        PROVE  /\ req'[q].state # "idle" =>
                     req'[q].cred \in Credential /\ pc'[req'[q].cred[2]] = "returned"
               /\ req'[q].state \in {"taken", "granted"} =>
                     /\ req'[q].cred \notin creds'
                     /\ \A p \in Request \ {q} :
                           req'[p].state \in {"taken", "granted"} => req'[p].cred # req'[q].cred
    <3>1. CASE q = r
      BY <2>1, <3>1
    <3>2. CASE q # r
      BY <2>1, <3>2
    <3>3. QED
      BY <3>1, <3>2
  <2>3. QED
    BY ONLY <2>2 DEF SpendInv
<1>7. ASSUME NEW l \in Login, ExpireSession(l) \/ ExpireCurrent(l)
      PROVE  SpendInv'
  BY <1>7 DEF ExpireSession, ExpireCurrent
<1>8. ASSUME NEW c \in Credential, ExpireCredential(c)
      PROVE  SpendInv'
  BY <1>8 DEF ExpireCredential
<1>9. CASE UNCHANGED vars
  BY <1>9 DEF vars
<1>10. QED
  BY <1>2, <1>3, <1>4, <1>5, <1>6, <1>7, <1>8, <1>9 DEF Next

LEMMA PointerStep == IInv /\ [Next]_vars => PointerInv'
<1> SUFFICES ASSUME IInv, [Next]_vars
             PROVE  PointerInv'
  OBVIOUS
<1> USE DEF IInv, PointerInv, TypeOK, LoginInv, Moves, mongo, redis
<1>1. ASSUME UNCHANGED <<acct, old, sessions, current, saved>>
      PROVE  PointerInv'
  BY <1>1
<1>2. ASSUME NEW l \in Login, FindOrCreateBinding(l)
      PROVE  PointerInv'
  <2>1. /\ l \notin saved /\ old[l] = None
        /\ \A k \in Login \ {l} : acct'[k] = acct[k]
        /\ UNCHANGED <<old, sessions, current, saved>>
    BY <1>2 DEF FindOrCreateBinding
  <2>2. QED
    BY <2>1
<1>3. ASSUME NEW l \in Login, GetOldSession(l)
      PROVE  PointerInv'
  <2>1. /\ l \notin saved /\ acct[l] \in Login
        /\ old' = [old EXCEPT ![l] = current[acct[l]]]
        /\ UNCHANGED <<acct, sessions, current, saved>>
    BY <1>3 DEF GetOldSession
  <2>2. QED
    BY <2>1
<1>4. ASSUME NEW l \in Login, ExecSaveSession(l)
      PROVE  PointerInv'
  <2>1. /\ l \notin saved /\ acct[l] \in Login
        /\ current' = [current EXCEPT ![acct[l]] = l]
        /\ saved' = saved \cup {l}
        /\ sessions' \subseteq sessions \cup {l}
        /\ UNCHANGED <<acct, old>>
    BY <1>4 DEF ExecSaveSession, Pointed
  <2>2. QED
    BY <2>1
<1>5. ASSUME NEW l \in Login, ExpireSession(l) \/ ExpireCurrent(l)
      PROVE  PointerInv'
  BY <1>5 DEF ExpireSession, ExpireCurrent
<1>6. QED
  BY <1>1, <1>2, <1>3, <1>4, <1>5
     DEF Next, vars, Begin, UpsertAccount, SaveTicket, SaveToken, CallFails, Consume,
         ConsumeFails, GetSession, ExpireCredential

LEMMA IInvHolds == Spec => []IInv
<1>1. IInv /\ [Next]_vars => IInv'
  BY TypeStep, LoginStep, SpendStep, PointerStep DEF IInv
<1>2. QED
  BY <1>1, IInvInit, PTL DEF Spec

(* Every variable stays in its declared set. *)
THEOREM TypeCorrect == Spec => []TypeOK
<1>1. IInv => TypeOK
  BY DEF IInv
<1>2. QED
  BY <1>1, IInvHolds, PTL

(* A ticket or token is granted to one request at most, under any interleaving
   of requests, retries, expiries and failures.                               *)
THEOREM OneShotHolds == Spec => []OneShot
<1>1. IInv => OneShot
  BY DEF IInv, SpendInv, OneShot
<1>2. QED
  BY <1>1, IInvHolds, PTL

(* Concurrent first logins of one identity share one account. *)
THEOREM OneAccountPerIdentityHolds == Spec => []OneAccountPerIdentity
<1>1. IInv => OneAccountPerIdentity
  BY DEF IInv, LoginInv, OneAccountPerIdentity
<1>2. QED
  BY <1>1, IInvHolds, PTL

-------------------------------------------------------------------------------
(* The session of a login that can still be used, and the sessions that leak. *)

(* Only the EXEC of a login that read l as the old session takes l's away. *)
LiveInv ==
    \A l \in saved : Unspent(l) => l \in sessions \/ \E k \in saved : old[k] = l

(* Between its GET and its EXEC a login knows the current session, or the one that
   replaced it has EXECed since.                                                  *)
ReadInv ==
    \A m \in Login :
        pc[m] = "exec" => current[acct[m]] \in {old[m], None} \cup overlaps[m]

LEMMA LiveStep == IInv /\ LiveInv /\ [Next]_vars => LiveInv'
<1> SUFFICES ASSUME IInv, LiveInv, [Next]_vars
             PROVE  LiveInv'
  OBVIOUS
<1> USE DEF IInv, LiveInv, TypeOK, LoginInv, Moves, mongo, redis
<1>1. ASSUME UNCHANGED <<old, sessions, saved>>,
             \A l \in saved : Unspent(l)' => Unspent(l)
      PROVE  LiveInv'
  BY <1>1
<1>2. ASSUME NEW l \in Login,
             Begin(l) \/ FindOrCreateBinding(l) \/ UpsertAccount(l) \/ CallFails(l)
      PROVE  LiveInv'
  <2>1. UNCHANGED <<old, sessions, saved, creds>>
    BY <1>2 DEF Begin, FindOrCreateBinding, UpsertAccount, CallFails
  <2>2. \A k \in Login : pc'[k] \in {"ticket", "token"} => pc'[k] = pc[k]
    BY <1>2 DEF Begin, FindOrCreateBinding, UpsertAccount, CallFails
  <2>3. QED
    BY <1>1, <2>1, <2>2 DEF Unspent
<1>3. ASSUME NEW l \in Login, GetOldSession(l)
      PROVE  LiveInv'
  <2>1. /\ l \notin saved /\ \A k \in Login \ {l} : old'[k] = old[k] /\ pc'[k] = pc[k]
        /\ UNCHANGED <<sessions, saved, creds>>
    BY <1>3 DEF GetOldSession
  <2>2. QED
    BY <2>1 DEF Unspent
<1>4. ASSUME NEW l \in Login, ExecSaveSession(l)
      PROVE  LiveInv'
  <2>1. /\ saved' = saved \cup {l} /\ UNCHANGED <<old, creds>>
        /\ \A k \in Login \ {l} : pc'[k] = pc[k]
        /\ sessions' = (sessions \cup {l}) \ ({old[l]} \ {l, None})
    BY <1>4 DEF ExecSaveSession, Overwritten
  <2>2. \A k \in saved \ {l} : Unspent(k)' => Unspent(k)
    BY <2>1 DEF Unspent
  <2>3. QED
    BY <2>1, <2>2
<1>5. ASSUME NEW l \in Login, SaveTicket(l) \/ SaveToken(l)
      PROVE  LiveInv'
  <2>1. /\ UNCHANGED <<old, sessions, saved>> /\ pc[l] \in {"ticket", "token"}
        /\ \A k \in Login \ {l} : pc'[k] = pc[k]
        /\ \A c \in creds' \ creds : c[2] = l
    BY <1>5 DEF SaveTicket, SaveToken
  <2>2. \A k \in saved : Unspent(k)' => Unspent(k)
    BY <2>1 DEF Unspent
  <2>3. QED
    BY <1>1, <2>1, <2>2
<1>6. ASSUME UNCHANGED <<pc, old, sessions, saved>>, creds' \subseteq creds
      PROVE  LiveInv'
  BY <1>1, <1>6 DEF Unspent
<1>7. ASSUME NEW l \in Login, ExpireSession(l)
      PROVE  LiveInv'
  <2>1. ~Unspent(l) /\ sessions' = sessions \ {l} /\ UNCHANGED <<pc, old, saved, creds>>
    BY <1>7 DEF ExpireSession, SessionMayExpire, Unspent
  <2>2. QED
    BY <2>1 DEF Unspent
<1>8. QED
  BY <1>2, <1>3, <1>4, <1>5, <1>6, <1>7
     DEF Next, vars, Consume, Taken, ConsumeFails, GetSession, ExpireCredential, ExpireCurrent

LEMMA LiveInvHolds == Spec => []LiveInv
<1>1. Init => LiveInv
  BY DEF Init, LiveInv
<1>2. QED
  BY <1>1, IInvHolds, LiveStep, PTL DEF Spec

LEMMA LeakStep ==
    IInv /\ ReadInv /\ LeakNeedsOverlap /\ [Next]_vars => ReadInv' /\ LeakNeedsOverlap'
<1> SUFFICES ASSUME IInv, ReadInv, LeakNeedsOverlap, [Next]_vars
             PROVE  ReadInv' /\ LeakNeedsOverlap'
  OBVIOUS
<1> USE DEF IInv, ReadInv, LeakNeedsOverlap, TypeOK, LoginInv, PointerInv, Moves, mongo, redis
<1>1. ASSUME UNCHANGED <<acct, old, sessions, current, saved, overlaps>>,
             \A m \in Login : pc'[m] = "exec" => pc[m] = "exec"
      PROVE  ReadInv' /\ LeakNeedsOverlap'
  BY <1>1
<1>2. ASSUME NEW l \in Login,
             Begin(l) \/ UpsertAccount(l) \/ SaveTicket(l) \/ SaveToken(l) \/ CallFails(l)
      PROVE  ReadInv' /\ LeakNeedsOverlap'
  <2>1. \A m \in Login : pc'[m] = "exec" => pc[m] = "exec"
    BY <1>2 DEF Begin, UpsertAccount, SaveTicket, SaveToken, CallFails
  <2>2. QED
    BY <1>1, <1>2, <2>1 DEF Begin, UpsertAccount, SaveTicket, SaveToken, CallFails
<1>3. ASSUME NEW l \in Login, FindOrCreateBinding(l)
      PROVE  ReadInv' /\ LeakNeedsOverlap'
  <2>1. /\ l \notin saved /\ pc'[l] # "exec"
        /\ \A k \in Login \ {l} : acct'[k] = acct[k] /\ pc'[k] = pc[k]
        /\ UNCHANGED <<old, sessions, current, saved, overlaps>>
    BY <1>3 DEF FindOrCreateBinding
  <2>2. QED
    BY <2>1
<1>4. ASSUME NEW l \in Login, GetOldSession(l)
      PROVE  ReadInv' /\ LeakNeedsOverlap'
  <2>1. /\ old'[l] = current[acct[l]]
        /\ \A k \in Login \ {l} : old'[k] = old[k] /\ pc'[k] = pc[k]
        /\ UNCHANGED <<acct, sessions, current, saved, overlaps>>
    BY <1>4 DEF GetOldSession
  <2>2. QED
    BY <2>1
<1>5. ASSUME NEW l \in Login, ExecSaveSession(l)
      PROVE  ReadInv' /\ LeakNeedsOverlap'
  <2>1. /\ pc[l] = "exec" /\ pc'[l] # "exec" /\ acct[l] \in Login
        /\ \A k \in Login \ {l} : pc'[k] = pc[k]
        /\ current' = [current EXCEPT ![acct[l]] = l]
        /\ sessions' = (sessions \cup {l}) \ ({old[l]} \ {l, None})
        /\ saved' = saved \cup {l}
        /\ UNCHANGED <<acct, old>>
    BY <1>5 DEF ExecSaveSession, Pointed, Overwritten
  <2>2. /\ overlaps'[l] = overlaps[l]
        /\ \A k \in Login : overlaps[k] \subseteq overlaps'[k]
        /\ \A k \in Login \ {l} : pc[k] = "exec" => l \in overlaps'[k]
    BY <1>5 DEF ExecSaveSession
  <2>3. ReadInv'
    BY <2>1, <2>2
  <2>4. ASSUME NEW s \in sessions', current'[acct[s]] # s
        PROVE  \E k \in saved' : acct[k] = acct[s] /\ s \in overlaps'[k]
    <3>1. s \in sessions /\ s # l /\ s # old[l]
      BY <2>1, <2>4
    <3>2. CASE current[acct[s]] = s
      <4>1. acct[s] = acct[l]
        BY <2>1, <2>4, <3>1, <3>2
      <4>2. s \in overlaps[l]
        BY <2>1, <3>1, <3>2, <4>1
      <4>3. QED
        BY <2>1, <2>2, <4>1, <4>2
    <3>3. CASE current[acct[s]] # s
      BY <2>1, <2>2, <3>1, <3>3
    <3>4. QED
      BY <3>2, <3>3
  <2>5. QED
    BY <2>1, <2>3, <2>4
<1>6. ASSUME NEW l \in Login, ExpireSession(l) \/ ExpireCurrent(l)
      PROVE  ReadInv' /\ LeakNeedsOverlap'
  <2>1. CASE ExpireSession(l)
    BY <2>1 DEF ExpireSession
  <2>2. CASE ExpireCurrent(l)
    <3>1. /\ UNCHANGED <<pc, acct, old, sessions, saved, overlaps>>
          /\ current[l] \notin sessions
          /\ current'[l] = None /\ \A a \in Login \ {l} : current'[a] = current[a]
      BY <2>2 DEF ExpireCurrent
    <3>2. ReadInv'
      BY <3>1
    <3>3. LeakNeedsOverlap'
      BY <3>1
    <3>4. QED
      BY <3>2, <3>3
  <2>3. QED
    BY <1>6, <2>1, <2>2
<1>7. ASSUME UNCHANGED <<pc, acct, old, sessions, current, saved, overlaps>>
      PROVE  ReadInv' /\ LeakNeedsOverlap'
  BY <1>1, <1>7
<1>8. QED
  BY <1>2, <1>3, <1>4, <1>5, <1>6, <1>7
     DEF Next, vars, Consume, ConsumeFails, GetSession, ExpireCredential

(* A ticket or token that can be spent is worth a session unless a later login of
   the account overwrote it: logins that fail halfway, expiry and racing logins
   never leave a client with credentials for nothing.                            *)
THEOREM LiveCredentialHasSessionHolds == Spec => []LiveCredentialHasSession
<1>1. IInv /\ LiveInv => LiveCredentialHasSession
  <2> SUFFICES ASSUME IInv, LiveInv, NEW c \in creds
               PROVE  c[2] \in sessions \/ \E k \in saved : old[k] = c[2]
    BY DEF LiveCredentialHasSession
  <2>1. PICK k \in Kind, l \in Login : c = <<k, l>>
    BY CredentialPairs DEF IInv, TypeOK
  <2>2. l \in saved /\ Unspent(l)
    BY <2>1 DEF IInv, LoginInv, Unspent
  <2>3. QED
    BY <2>1, <2>2 DEF LiveInv
<1>2. QED
  BY <1>1, IInvHolds, LiveInvHolds, PTL

(* The newest login of an account keeps its session however many older logins are
   still on their way.                                                            *)
THEOREM NewestLoginSurvivesHolds == Spec => []NewestLoginSurvives
<1>1. IInv /\ LiveInv => NewestLoginSurvives
  BY DEF IInv, TypeOK, PointerInv, LiveInv, NewestLoginSurvives
<1>2. QED
  BY <1>1, IInvHolds, LiveInvHolds, PTL

(* Old sessions leak only through the race between the GET and the EXEC of
   SaveSession, never through expiry, failures or sequential logins.       *)
THEOREM LeakNeedsOverlapHolds == Spec => []LeakNeedsOverlap
<1>1. Init => ReadInv /\ LeakNeedsOverlap
  BY DEF Init, ReadInv, LeakNeedsOverlap
<1>2. QED
  BY <1>1, IInvHolds, LeakStep, PTL DEF Spec

(* The leak is the only way two sessions of one account coexist: as long as no
   login EXECs between the GET and the EXEC of another login of its account, an
   account has at most one session, which is what the doc comment promises.     *)
OneSessionUnlessOverlap ==
    (\A k \in saved : \A l \in overlaps[k] : acct[l] # acct[k]) => OneSessionPerAccount

(* For any logins, clients and expiries of the auth service, two sessions of one
   account need two SaveSessions that overlap.                                 *)
THEOREM OneSessionUnlessOverlapHolds == Spec => []OneSessionUnlessOverlap
<1>1. LeakNeedsOverlap => OneSessionUnlessOverlap
  BY DEF LeakNeedsOverlap, OneSessionUnlessOverlap, OneSessionPerAccount
<1>2. QED
  BY <1>1, LeakNeedsOverlapHolds, PTL

-------------------------------------------------------------------------------
(* Accounts and the sessions that name them. *)

AccountInv ==
    \A l \in Login :
        pc[l] \in {"get", "exec", "ticket", "token", "returned"} \/ l \in saved
            => acct[l] \in accounts

(* Every session that was ever saved names an account that MongoDB holds, although
   the account and the session are written to two databases that share no
   transaction and any call in between may fail.                                 *)
SessionHasAccount == \A l \in saved : acct[l] \in accounts

LEMMA AccountStep == IInv /\ AccountInv /\ [Next]_vars => AccountInv'
<1> SUFFICES ASSUME IInv, AccountInv, [Next]_vars
             PROVE  AccountInv'
  OBVIOUS
<1> USE DEF IInv, AccountInv, TypeOK, LoginState, Moves, mongo, redis
<1>1. ASSUME NEW l \in Login, UNCHANGED <<acct, accounts, saved>>,
             \A k \in Login \ {l} : pc'[k] = pc[k],
             pc'[l] \in {"get", "exec", "ticket", "token", "returned"} => acct[l] \in accounts
      PROVE  AccountInv'
  BY <1>1
<1>2. ASSUME NEW l \in Login, Begin(l) \/ CallFails(l)
      PROVE  AccountInv'
  BY <1>1, <1>2 DEF Begin, CallFails
<1>3. ASSUME NEW l \in Login, FindOrCreateBinding(l)
      PROVE  AccountInv'
  <2>1. /\ l \notin saved /\ pc'[l] \in {"account", "failed"}
        /\ \A k \in Login \ {l} : acct'[k] = acct[k] /\ pc'[k] = pc[k]
        /\ UNCHANGED <<accounts, saved>>
    BY <1>3 DEF FindOrCreateBinding, LoginInv
  <2>2. QED
    BY <2>1
<1>4. ASSUME NEW l \in Login, UpsertAccount(l)
      PROVE  AccountInv'
  <2>1. /\ accounts' = accounts \cup {acct[l]} /\ UNCHANGED <<acct, saved>>
        /\ \A k \in Login \ {l} : pc'[k] = pc[k]
    BY <1>4 DEF UpsertAccount, AccountKey
  <2>2. QED
    BY <2>1
<1>5. ASSUME NEW l \in Login, GetOldSession(l) \/ SaveTicket(l) \/ SaveToken(l)
      PROVE  AccountInv'
  <2>1. UNCHANGED <<acct, accounts, saved>> /\ acct[l] \in accounts
    BY <1>5 DEF GetOldSession, SaveTicket, SaveToken
  <2>2. \A k \in Login \ {l} : pc'[k] = pc[k]
    BY <1>5 DEF GetOldSession, SaveTicket, SaveToken
  <2>3. QED
    BY <1>1, <2>1, <2>2
<1>6. ASSUME NEW l \in Login, ExecSaveSession(l)
      PROVE  AccountInv'
  <2>1. /\ UNCHANGED <<acct, accounts>> /\ acct[l] \in accounts
        /\ saved' = saved \cup {l}
        /\ \A k \in Login \ {l} : pc'[k] = pc[k]
    BY <1>6 DEF ExecSaveSession
  <2>2. QED
    BY <2>1
<1>7. ASSUME UNCHANGED <<pc, acct, accounts, saved>>
      PROVE  AccountInv'
  BY <1>7
<1>8. QED
  BY <1>2, <1>3, <1>4, <1>5, <1>6, <1>7
     DEF Next, vars, Consume, ConsumeFails, GetSession, ExpireCredential, ExpireSession,
         ExpireCurrent

LEMMA AccountInvHolds == Spec => []AccountInv
<1>1. Init => AccountInv
  BY DEF Init, AccountInv
<1>2. QED
  BY <1>1, IInvHolds, AccountStep, PTL DEF Spec

(* No failure between UpsertAccount and SaveSession leaves a session without account. *)
THEOREM SessionHasAccountHolds == Spec => []SessionHasAccount
<1>1. IInv /\ AccountInv => SessionHasAccount
  BY DEF IInv, TypeOK, AccountInv, SessionHasAccount
<1>2. QED
  BY <1>1, IInvHolds, AccountInvHolds, PTL

(* A session ends in two ways only: its key expires, in a step that does nothing else,
   or a login of the same account EXECs and takes it over while setting its own.  No
   login, however its calls interleave with others or fail, ends the session of another
   account, also one about to expire, and none is deleted without a successor.          *)
TakenOver(l) == \E k \in saved' \ saved : acct[k] = acct[l] /\ k # l /\ k \in sessions'

SessionTakenByOwnAccount ==
    [][\A l \in sessions \ sessions' : ExpireSession(l) \/ TakenOver(l)]_vars

(* Apart from the expiry of its key, a session goes only in the EXEC of a SaveSession of
   its own account, which sets the session of that login.                               *)
THEOREM SessionTakenByOwnAccountHolds == Spec => SessionTakenByOwnAccount
<1>1. IInv /\ [Next]_vars => [\A l \in sessions \ sessions' : ExpireSession(l) \/ TakenOver(l)]_vars
  <2> SUFFICES ASSUME IInv, [Next]_vars, NEW l \in sessions \ sessions'
               PROVE  ExpireSession(l) \/ TakenOver(l)
    OBVIOUS
  <2>1. ASSUME NEW k \in Login, ExecSaveSession(k)
        PROVE  TakenOver(l)
    <3>1. /\ sessions' = (sessions \cup {k}) \ ({old[k]} \ {k, None})
          /\ saved' = saved \cup {k} /\ k \notin saved
      BY <2>1 DEF ExecSaveSession, Overwritten, Moves, IInv, LoginInv
    <3>2. l = old[k] /\ l # k /\ l # None
      BY <3>1
    <3>3. acct[k] = acct[l] /\ k \in sessions'
      BY <3>1, <3>2 DEF IInv, PointerInv
    <3>4. QED
      BY <3>1, <3>2, <3>3 DEF TakenOver
  <2>2. ASSUME NEW k \in Login, ExpireSession(k)
        PROVE  ExpireSession(l)
    <3>1. l = k
      BY <2>2 DEF ExpireSession
    <3>2. QED
      BY <2>2, <3>1
  <2>3. QED
    BY <2>1, <2>2
       DEF Next, vars, mongo, redis, Begin, FindOrCreateBinding, UpsertAccount, GetOldSession,
           SaveTicket, SaveToken, CallFails, ExpireCurrent, ExpireCredential, Consume,
           ConsumeFails, GetSession
<1>2. QED
  BY <1>1, IInvHolds, PTL DEF Spec, SessionTakenByOwnAccount

===============================================================================
