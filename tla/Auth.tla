--------------------------------- MODULE Auth ---------------------------------
(***************************************************************************)
(* The auth service: AuthService of service/auth/module over its MongoDB   *)
(* and Redis repositories.  Requests run concurrently and nothing locks    *)
(* them: what is atomic is one MongoDB findAndModify, one Redis command,   *)
(* one MULTI/EXEC.  Any call may fail, before or after it took effect.     *)
(*                                                                         *)
(* Every id newID draws is new, so the session, the login ticket, the      *)
(* connect token and the account id drawn by a login attempt l are all     *)
(* named l.  Keys expire; the TTLs are ordered (ticket 60s < token 5min <  *)
(* session 24h, and the session key is set just before account_session     *)
(* with the same TTL), which the guards of the Expire actions state.       *)
(***************************************************************************)
EXTENDS Naturals, FiniteSets

CONSTANTS Login,      \* login attempts
          Request,    \* consume requests
          Identity,   \* channel and subject
          IdentityOf, \* the identity each attempt logs in
          None

ASSUME AuthAssumption == None \notin Login /\ IdentityOf \in [Login -> Identity]

Kind == {"ticket", "token"}
Credential == Kind \X Login

VARIABLES pc,       \* progress of each login attempt
          acct,     \* the account id each attempt read from its binding
          old,      \* oldSessionID each attempt read in SaveSession
          binding,  \* MongoDB account_bindings: identity -> account id
          accounts, \* MongoDB accounts
          sessions, \* Redis auth:session:*
          current,  \* Redis auth:account_session:*: account -> session
          creds,    \* Redis auth:login_ticket:* and auth:connect_token:*
          req,      \* consume requests: progress and credential presented
          saved,    \* history: attempts whose MULTI/EXEC took effect
          overlaps  \* history: attempts that EXECed between l's GET and l's EXEC

mongo == <<binding, accounts>>
redis == <<sessions, current, creds>>
vars == <<pc, acct, old, mongo, redis, req, saved, overlaps>>

LoginState == {"idle", "binding", "account", "get", "exec", "ticket", "token",
               "returned", "failed"}

TypeOK ==
    /\ pc \in [Login -> LoginState]
    /\ acct \in [Login -> Login \cup {None}]
    /\ old \in [Login -> Login \cup {None}]
    /\ binding \in [Identity -> Login \cup {None}]
    /\ accounts \in SUBSET Login
    /\ sessions \in SUBSET Login
    /\ current \in [Login -> Login \cup {None}]
    /\ creds \in SUBSET Credential
    /\ req \in [Request -> [state : {"idle", "taken", "granted", "refused"},
                            cred  : Credential \cup {None}]]
    /\ saved \in SUBSET Login
    /\ overlaps \in [Login -> SUBSET Login]

Init ==
    /\ pc = [l \in Login |-> "idle"]
    /\ acct = [l \in Login |-> None]
    /\ old = [l \in Login |-> None]
    /\ binding = [i \in Identity |-> None]
    /\ accounts = {}
    /\ sessions = {}
    /\ current = [a \in Login |-> None]
    /\ creds = {}
    /\ req = [r \in Request |-> [state |-> "idle", cred |-> None]]
    /\ saved = {}
    /\ overlaps = [l \in Login |-> {}]

(* The call the attempt makes at `from` took effect; the attempt goes on, or
   stops with an error because the reply was lost.                          *)
Moves(l, from, to) ==
    /\ pc[l] = from
    /\ \E next \in {to, "failed"} : pc' = [pc EXCEPT ![l] = next]

(* Mutated forms; only the mutation runs use them. *)
MintAlways(l) == [binding EXCEPT ![IdentityOf[l]] = l]
KeepOld(l) == {}
PointIfAbsent(l) == [current EXCEPT ![acct[l]] = IF @ = None THEN l ELSE @]
PeekCredential(c) == creds
ExpireAnyTime(l) == TRUE
AccountOfIdentity(l) == IdentityOf[l]

-------------------------------------------------------------------------------
(* Login. *)

Begin(l) ==
    /\ pc[l] = "idle"
    /\ pc' = [pc EXCEPT ![l] = "binding"]
    /\ UNCHANGED <<acct, old, mongo, redis, req, saved, overlaps>>

(* The upsert's $setOnInsert: the binding keeps the account it was born with. *)
Bound(l) == [binding EXCEPT ![IdentityOf[l]] = IF @ = None THEN l ELSE @]

FindOrCreateBinding(l) ==
    /\ Moves(l, "binding", "account")
    /\ binding' = Bound(l)
    /\ acct' = [acct EXCEPT ![l] = binding'[IdentityOf[l]]]
    /\ UNCHANGED <<old, accounts, redis, req, saved, overlaps>>

(* The _id the account is stored under: binding.AccountID. *)
AccountKey(l) == acct[l]

UpsertAccount(l) ==
    /\ Moves(l, "account", "get")
    /\ accounts' = accounts \cup {AccountKey(l)}
    /\ UNCHANGED <<acct, old, binding, redis, req, saved, overlaps>>

(* SaveSession, first half: the GET outside the transaction. *)
GetOldSession(l) ==
    /\ Moves(l, "get", "exec")
    /\ old' = [old EXCEPT ![l] = current[acct[l]]]
    /\ UNCHANGED <<acct, mongo, redis, req, saved, overlaps>>

(* The session the transaction deletes. *)
Overwritten(l) == {old[l]} \ {l, None}

(* account_session after the transaction. *)
Pointed(l) == [current EXCEPT ![acct[l]] = l]

(* SaveSession, second half: MULTI/EXEC. *)
ExecSaveSession(l) ==
    /\ Moves(l, "exec", "ticket")
    /\ sessions' = (sessions \cup {l}) \ Overwritten(l)
    /\ current' = Pointed(l)
    /\ saved' = saved \cup {l}
    /\ overlaps' = [k \in Login |->
                       IF pc[k] = "exec" /\ k # l THEN overlaps[k] \cup {l} ELSE overlaps[k]]
    /\ UNCHANGED <<acct, old, mongo, creds, req>>

SaveTicket(l) ==
    /\ Moves(l, "ticket", "token")
    /\ creds' = creds \cup {<<"ticket", l>>}
    /\ UNCHANGED <<acct, old, mongo, sessions, current, req, saved, overlaps>>

SaveToken(l) ==
    /\ Moves(l, "token", "returned")
    /\ creds' = creds \cup {<<"token", l>>}
    /\ UNCHANGED <<acct, old, mongo, sessions, current, req, saved, overlaps>>

(* A call that fails without effect: Login returns the error and undoes nothing. *)
CallFails(l) ==
    /\ pc[l] \in {"binding", "account", "get", "exec", "ticket", "token"}
    /\ pc' = [pc EXCEPT ![l] = "failed"]
    /\ UNCHANGED <<acct, old, mongo, redis, req, saved, overlaps>>

-------------------------------------------------------------------------------
(* ConsumeLoginTicket and ConsumeConnectToken. *)

(* A client presents a credential Login returned to it, perhaps not for the
   first time. *)
Presents(r, c) == req[r].state = "idle" /\ pc[c[2]] = "returned"

Answer(r, c, state) == req' = [req EXCEPT ![r] = [state |-> state, cred |-> c]]

Taken(c) == creds \ {c}

(* GETDEL found the key.  If its reply is lost the client library retries, finds
   nothing, and the request is refused although the credential is spent.        *)
Consume(r, c) ==
    /\ Presents(r, c)
    /\ c \in creds
    /\ creds' = Taken(c)
    /\ \E state \in {"taken", "refused"} : Answer(r, c, state)
    /\ UNCHANGED <<pc, acct, old, mongo, sessions, current, saved, overlaps>>

(* GETDEL found nothing, or never reached Redis. *)
ConsumeFails(r, c) ==
    /\ Presents(r, c)
    /\ Answer(r, c, "refused")
    /\ UNCHANGED <<pc, acct, old, mongo, redis, saved, overlaps>>

(* GetSession of the session the credential names, after the GETDEL. *)
GetSession(r) ==
    /\ req[r].state = "taken"
    /\ \/ req[r].cred[2] \in sessions /\ Answer(r, req[r].cred, "granted")
       \/ Answer(r, req[r].cred, "refused")
    /\ UNCHANGED <<pc, acct, old, mongo, redis, saved, overlaps>>

-------------------------------------------------------------------------------
(* Expiry. *)

ExpireCredential(c) ==
    /\ c \in creds
    /\ c[1] = "token" => <<"ticket", c[2]>> \notin creds
    /\ creds' = creds \ {c}
    /\ UNCHANGED <<pc, acct, old, mongo, sessions, current, req, saved, overlaps>>

(* The session outlives its login attempt, its credentials and the requests
   that spend them.                                                          *)
SessionMayExpire(l) ==
    /\ pc[l] \in {"returned", "failed"}
    /\ \A k \in Kind : <<k, l>> \notin creds
    /\ \A r \in Request : req[r].state = "taken" => req[r].cred[2] # l

ExpireSession(l) ==
    /\ l \in sessions
    /\ SessionMayExpire(l)
    /\ sessions' = sessions \ {l}
    /\ UNCHANGED <<pc, acct, old, mongo, current, creds, req, saved, overlaps>>

ExpireCurrent(a) ==
    /\ current[a] # None /\ current[a] \notin sessions
    /\ current' = [current EXCEPT ![a] = None]
    /\ UNCHANGED <<pc, acct, old, mongo, sessions, creds, req, saved, overlaps>>

Next ==
    \/ \E l \in Login :
          \/ Begin(l) \/ FindOrCreateBinding(l) \/ UpsertAccount(l) \/ GetOldSession(l)
          \/ ExecSaveSession(l) \/ SaveTicket(l) \/ SaveToken(l) \/ CallFails(l)
          \/ ExpireSession(l) \/ ExpireCurrent(l)
    \/ \E c \in Credential :
          \/ ExpireCredential(c)
          \/ \E r \in Request : Consume(r, c) \/ ConsumeFails(r, c)
    \/ \E r \in Request : GetSession(r)

Spec == Init /\ [][Next]_vars

-------------------------------------------------------------------------------
(* Safety properties. *)

(* A login ticket or connect token buys its session at most once, however often
   and concurrently it is presented (GETDEL).                                  *)
OneShot ==
    \A r, q \in Request :
        req[r].state = "granted" /\ req[q].state = "granted" /\ r # q
            => req[r].cred # req[q].cred

(* Two logins of one channel and subject are logins of one account, even when
   both are the first (the upsert of FindOrCreateBinding on its unique index). *)
OneAccountPerIdentity ==
    \A l, k \in Login :
        IdentityOf[l] = IdentityOf[k] /\ acct[l] # None /\ acct[k] # None
            => acct[l] = acct[k]

(* A credential that can still be spent is worth a session, unless another login
   of its account overwrote that session (order of the saves in Login, TTLs).     *)
LiveCredentialHasSession ==
    \A c \in creds : c[2] \in sessions \/ \E k \in saved : old[k] = c[2]

(* The login of an account that EXECed last keeps its session while it saves its
   credentials and until they are spent or expired: no older login that was still
   between its GET and its EXEC deletes it.                                       *)
Unspent(l) == pc[l] \in {"ticket", "token"} \/ \E k \in Kind : <<k, l>> \in creds

NewestLoginSurvives ==
    \A l \in saved : current[acct[l]] = l /\ Unspent(l) => l \in sessions

(* A session other than the account's current one survives only because a later
   login read the account's session before this one was saved and EXECed after. *)
LeakNeedsOverlap ==
    \A l \in sessions :
        \/ current[acct[l]] = l
        \/ \E k \in saved : acct[k] = acct[l] /\ l \in overlaps[k]

(* "SessionRepository creates the session and overwrites the old one". *)
OneSessionPerAccount ==
    \A l, k \in sessions : acct[l] = acct[k] => l = k

===============================================================================
