-------------------------------- MODULE Auth --------------------------------
(***************************************************************************)
(* Clients and their sessions: the requests that register, log in,         *)
(* unregister and authenticate (service/auth.go) and what they call in     *)
(* service/auth/service.go.  Client keys live in the store, sessions in    *)
(* the cache.  Requests run concurrently; each action is one operation of  *)
(* the store or of the cache, the only places with a lock.                 *)
(*                                                                         *)
(* That a bcrypt comparison succeeds for the registered key and no other,  *)
(* that the source of randomness does not fail and that tokens do not      *)
(* repeat (when FreshTokens), is assumed.                                  *)
(***************************************************************************)
EXTENDS Naturals, FiniteSets

CONSTANTS Clients, Keys, Tokens,
          ShortKeys,          \* keys below MinKeyLen
          LongKeys,           \* keys above the 72 bytes bcrypt hashes
          Requests,           \* concurrent HTTP requests
          NoClient, NoKey, NoToken,
          Ops,                \* the requests clients send in this instance
          SelfRegistration,   \* cfg.API.Security.AllowSelfRegistration
          EnableAdmin,        \* cfg.API.Security.EnableAdmin
          FreshTokens,        \* whether newRandomToken never repeats itself
          StoreFails,         \* whether calls of the store may return errors
          MaxRestarts         \* bound

ASSUME NamesAssumption == NoClient \notin Clients /\ NoKey \notin Keys /\ NoToken \notin Tokens
ASSUME OpsAssumption ==
  Ops \subseteq {"register", "login", "unregister", "basic", "bearer"}
ASSUME FlagsAssumption ==
  /\ SelfRegistration \in BOOLEAN /\ EnableAdmin \in BOOLEAN
  /\ FreshTokens \in BOOLEAN /\ StoreFails \in BOOLEAN
  /\ ShortKeys \subseteq Keys /\ LongKeys \subseteq Keys \ ShortKeys
  /\ MaxRestarts \in Nat

VARIABLES hash,              \* the key registered for each client, or NoKey
          owner, expired,    \* the session cache
          issued,            \* tokens newRandomToken has returned
          op, who, with, tok,  \* per request: kind, client, key and token it carries
          step,              \* where it is
          restarts

cache == <<owner, expired>>
args == <<op, who, with, tok>>
vars == <<hash, cache, issued, args, step, restarts>>

DB == INSTANCE Store WITH db <- hash, Keys <- Clients, Values <- Keys, Absent <- NoKey
Cache == INSTANCE SessionCache

Answers == {"created", "granted", "denied"}

Steps == Answers \cup
  {"idle", "check", "put", "auth", "session", "lookup", "evict", "find", "erase", "revoke"}

TypeOK ==
  /\ hash \in [Clients -> Keys \cup {NoKey}]
  /\ Cache!TypeOK
  /\ issued \in SUBSET Tokens
  /\ op \in [Requests -> Ops \cup {"none"}]
  /\ who \in [Requests -> Clients \cup {NoClient}]
  /\ with \in [Requests -> Keys \cup {NoKey}]
  /\ tok \in [Requests -> Tokens \cup {NoToken}]
  /\ step \in [Requests -> Steps]
  /\ restarts \in 0 .. MaxRestarts

Init ==
  /\ hash = [c \in Clients |-> NoKey]
  /\ Cache!Init
  /\ issued = {}
  /\ restarts = 0
  /\ op = [r \in Requests |-> "none"]
  /\ who = [r \in Requests |-> NoClient]
  /\ with = [r \in Requests |-> NoKey]
  /\ tok = [r \in Requests |-> NoToken]
  /\ step = [r \in Requests |-> "idle"]

GoTo(r, s) == step' = [step EXCEPT ![r] = s]

-----------------------------------------------------------------------------
(* Requests arrive.                                                        *)

Arrive(r, o, c, k, t, s) ==
  /\ step[r] = "idle" /\ o \in Ops
  /\ op' = [op EXCEPT ![r] = o]
  /\ who' = [who EXCEPT ![r] = c]
  /\ with' = [with EXCEPT ![r] = k]
  /\ tok' = [tok EXCEPT ![r] = t]
  /\ GoTo(r, s)
  /\ UNCHANGED <<hash, cache, issued, restarts>>

\* Register tests the least length of the key before anything else, the greatest
\* is left to bcrypt.
FirstOfRegister(k) == IF k \in ShortKeys THEN "denied" ELSE "check"

\* registerClient: open to all under self registration, otherwise to the admin
\* and to registered clients.
ArriveRegister(r, c, k) ==
  /\ \/ SelfRegistration \/ EnableAdmin
     \/ \E x \in Clients : DB!Present(x)
     \/ \E t \in Tokens : Cache!Valid(t)
  /\ Arrive(r, "register", c, k, NoToken, FirstOfRegister(k))

ArriveLogin(r, c, k) == Arrive(r, "login", c, k, NoToken, "auth")

\* basicAuthHandler in front of any request but /unregister.
ArriveBasic(r, c, k) ==
  Arrive(r, "basic", c, k, NoToken,
         IF SelfRegistration THEN FirstOfRegister(k) ELSE "auth")

\* bearerAuthHandler in front of any other request.
ArriveBearer(r, t) == Arrive(r, "bearer", NoClient, NoKey, t, "lookup")

\* unregisterClient: with the client's own key or token, or by the admin.
ArriveUnregister(r, c) ==
  /\ SelfRegistration \/ EnableAdmin
  /\ \/ \E k \in Keys : Arrive(r, "unregister", c, k, NoToken, "auth")
     \/ \E t \in Tokens : Arrive(r, "unregister", c, NoKey, t, "lookup")
     \/ EnableAdmin /\ Arrive(r, "unregister", c, NoKey, NoToken, "find")

\* The answer has been sent.
Answer(r) ==
  /\ step[r] \in Answers
  /\ op' = [op EXCEPT ![r] = "none"]
  /\ who' = [who EXCEPT ![r] = NoClient]
  /\ with' = [with EXCEPT ![r] = NoKey]
  /\ tok' = [tok EXCEPT ![r] = NoToken]
  /\ GoTo(r, "idle")
  /\ UNCHANGED <<hash, cache, issued, restarts>>

-----------------------------------------------------------------------------
(* Service.Register: Get, then Put.  Between the two the key is hashed.    *)

\* A basic request goes on to authenticate when the client is registered now,
\* by itself or already; POST /register reports the latter as an error.
AlreadyRegistered_Refused(r) == "denied"
AlreadyRegistered_Created(r) == IF op[r] = "basic" THEN "auth" ELSE "created"
AlreadyRegistered(r) == IF op[r] = "basic" THEN "auth" ELSE "denied"
NewlyRegistered(r) == IF op[r] = "basic" THEN "auth" ELSE "created"

RegisterCheck(r) ==
  /\ step[r] = "check"
  /\ \/ GoTo(r, IF DB!Present(who[r]) THEN AlreadyRegistered(r) ELSE "put")
     \/ StoreFails /\ GoTo(r, "denied")
  /\ UNCHANGED <<hash, cache, issued, args, restarts>>

\* hashKey: bcrypt refuses keys that are too long.
HashFails(r) == with[r] \in LongKeys

\* The keys Register can register.
Acceptable == Keys \ (ShortKeys \cup LongKeys)

\* The earlier Get relied on: Set in place of Put.
RegisterPut_Set(r) ==
  /\ step[r] = "put"
  /\ DB!Set(who[r], with[r])
  /\ GoTo(r, NewlyRegistered(r))
  /\ UNCHANGED <<cache, issued, args, restarts>>

\* The error of hashKey dropped.
RegisterPut_HashErrorDropped(r) ==
  /\ step[r] = "put"
  /\ \/ DB!Put(who[r], with[r]) /\ GoTo(r, NewlyRegistered(r))
     \/ DB!Present(who[r]) /\ UNCHANGED hash /\ GoTo(r, AlreadyRegistered(r))
  /\ UNCHANGED <<cache, issued, args, restarts>>

RegisterPut(r) ==
  /\ step[r] = "put"
  /\ \/ HashFails(r) /\ UNCHANGED hash /\ GoTo(r, "denied")
     \/ /\ ~HashFails(r)
        /\ \/ DB!Put(who[r], with[r]) /\ GoTo(r, NewlyRegistered(r))
           \/ DB!Present(who[r]) /\ UNCHANGED hash /\ GoTo(r, AlreadyRegistered(r))
           \/ /\ StoreFails /\ ~DB!Present(who[r])
              /\ DB!SetFails(who[r], with[r])
              /\ GoTo(r, "denied")
  /\ UNCHANGED <<cache, issued, args, restarts>>

-----------------------------------------------------------------------------
(* Service.Authenticate and what follows it.                               *)

AfterAuth(r) ==
  CASE op[r] = "login" -> "session"
    [] op[r] = "unregister" -> "find"
    [] OTHER -> "granted"

Matches(r) == DB!Present(who[r]) /\ hash[who[r]] = with[r]

Authenticate(r) ==
  /\ step[r] = "auth"
  /\ \/ GoTo(r, IF Matches(r) THEN AfterAuth(r) ELSE "denied")
     \/ StoreFails /\ GoTo(r, "denied")
  /\ UNCHANGED <<hash, cache, issued, args, restarts>>

Candidates == IF FreshTokens THEN Tokens \ issued ELSE Tokens

\* Service.Login, after Authenticate.  The new token is the request's answer.
LoginPut(r) ==
  /\ step[r] = "session"
  /\ \E k \in Candidates :
       /\ issued' = issued \cup {k}
       /\ IF Cache!InMap(k)
            THEN GoTo(r, "denied") /\ UNCHANGED <<cache, tok>>
            ELSE /\ Cache!Put(who[r], k)
                 /\ GoTo(r, "granted")
                 /\ tok' = [tok EXCEPT ![r] = k]
  /\ UNCHANGED <<hash, op, who, with, restarts>>

\* The client of the token not compared with the one to unregister.
AfterLookup_AnyClient(r) == IF op[r] = "bearer" THEN "granted" ELSE "find"

\* SessionCache.Get, called by bearerAuthHandler.  A client may unregister
\* nobody but itself.
AfterLookup(r) ==
  IF op[r] = "bearer" THEN "granted"
  ELSE IF owner[tok[r]] = who[r] THEN "find" ELSE "denied"

BearerLookup(r) ==
  /\ step[r] = "lookup"
  /\ GoTo(r, IF Cache!Valid(tok[r]) THEN AfterLookup(r)
             ELSE IF Cache!InMap(tok[r]) THEN "evict" ELSE "denied")
  /\ who' = IF op[r] = "bearer" THEN [who EXCEPT ![r] = owner[tok[r]]] ELSE who
  /\ UNCHANGED <<hash, cache, issued, op, with, tok, restarts>>

\* The expired session removed by client instead of by token.
BearerEvict_ByClient(r) ==
  /\ step[r] = "evict"
  /\ Cache!Delete(who[r])
  /\ GoTo(r, "denied")
  /\ UNCHANGED <<hash, issued, args, restarts>>

BearerEvict(r) ==
  /\ step[r] = "evict"
  /\ Cache!Evict(tok[r])
  /\ GoTo(r, "denied")
  /\ UNCHANGED <<hash, issued, args, restarts>>

-----------------------------------------------------------------------------
(* Service.Unregister.                                                     *)

UnregisterFind(r) ==
  /\ step[r] = "find"
  /\ \/ GoTo(r, IF DB!Present(who[r]) THEN "erase" ELSE "denied")
     \/ StoreFails /\ GoTo(r, "denied")
  /\ UNCHANGED <<hash, cache, issued, args, restarts>>

\* The key overwritten with an empty one instead of deleted.
UnregisterErase_Emptied(r) ==
  /\ step[r] = "erase"
  /\ DB!Set(who[r], "")
  /\ GoTo(r, "revoke")
  /\ UNCHANGED <<cache, issued, args, restarts>>

\* Deleting a key that is gone already is no error.
UnregisterErase(r) ==
  /\ step[r] = "erase"
  /\ \/ DB!Delete(who[r]) /\ GoTo(r, "revoke")
     \/ StoreFails /\ DB!DeleteFails(who[r]) /\ GoTo(r, "denied")
  /\ UNCHANGED <<cache, issued, args, restarts>>

\* The session of the request's own token ended, and no other.
UnregisterRevoke_OwnToken(r) ==
  /\ step[r] = "revoke"
  /\ IF tok[r] = NoToken THEN UNCHANGED cache ELSE Cache!Evict(tok[r])
  /\ GoTo(r, "granted")
  /\ UNCHANGED <<hash, issued, args, restarts>>

UnregisterRevoke(r) ==
  /\ step[r] = "revoke"
  /\ Cache!Delete(who[r])
  /\ GoTo(r, "granted")
  /\ UNCHANGED <<hash, issued, args, restarts>>

-----------------------------------------------------------------------------
\* Keys survive a restart, sessions and requests do not.
Restart ==
  /\ restarts < MaxRestarts
  /\ restarts' = restarts + 1
  /\ Cache!Clear
  /\ op' = [r \in Requests |-> "none"]
  /\ who' = [r \in Requests |-> NoClient]
  /\ with' = [r \in Requests |-> NoKey]
  /\ tok' = [r \in Requests |-> NoToken]
  /\ step' = [r \in Requests |-> "idle"]
  /\ UNCHANGED <<hash, issued>>

SessionExpires(k) == Cache!Expire(k) /\ UNCHANGED <<hash, issued, args, step, restarts>>

Serve(r) ==
  \/ RegisterCheck(r) \/ RegisterPut(r)
  \/ Authenticate(r) \/ LoginPut(r)
  \/ BearerLookup(r) \/ BearerEvict(r)
  \/ UnregisterFind(r) \/ UnregisterErase(r) \/ UnregisterRevoke(r)
  \/ Answer(r)

Next ==
  \/ \E r \in Requests :
       \/ \E c \in Clients, k \in Keys :
            ArriveRegister(r, c, k) \/ ArriveLogin(r, c, k) \/ ArriveBasic(r, c, k)
       \/ \E c \in Clients : ArriveUnregister(r, c)
       \/ \E k \in Tokens : ArriveBearer(r, k)
       \/ Serve(r)
  \/ \E k \in Tokens : SessionExpires(k)
  \/ Restart

Spec == Init /\ [][Next]_vars

-----------------------------------------------------------------------------
\* A client has one bearer token at a time.  SessionCache.delete relies on it: it
\* removes the first token it finds and looks no further.
OneTokenPerClient == Cache!OneTokenPerClient

\* The key of a registered client never changes under it: registrations that
\* overlap do not overwrite one another.
KeyNeverOverwritten ==
  [][\A c \in Clients : hash[c] # NoKey /\ hash'[c] # NoKey => hash'[c] = hash[c]]_vars

\* A session that has not expired ends only when its client logs in again or is
\* unregistered, or with the process: the late removal of an expired token by a
\* Get that let go of the lock in between hits no other session.
LiveSessionKept ==
  [][\A k \in Tokens :
       Cache!Valid(k) /\ owner'[k] # owner[k] =>
         \/ \E r \in Requests : step[r] \in {"session", "revoke"} /\ who[r] = owner[k]
         \/ restarts' # restarts]_vars

\* When an unregistration is through the client has no session, with whatever
\* credentials it was asked for.  (A login that compared the key before may still
\* add one.)
UnregisterInvalidates ==
  [][\A r \in Requests :
       step[r] = "revoke" /\ step'[r] = "granted" =>
         \A k \in Tokens : owner'[k] # who[r]]_vars

\* A request is served, logs its client in or unregisters it only after it showed a
\* credential that was good at that moment; a token gives no other token; sessions and
\* keys begin and end as Sessions says, although every check is made in one step and
\* relied on in a later one.
SessionsSeen == [c \in Clients |-> {k \in Tokens : Cache!Valid(k) /\ owner[k] = c}]
Entitled(r) ==
  CASE step[r] = "session" -> "login"
    [] step[r] \in {"find", "erase"} -> "unregister"
    [] step[r] = "revoke" -> "end"
    [] step[r] = "granted" /\ op[r] \in {"basic", "bearer"} -> "serve"
    [] OTHER -> "nothing"
Credential(r) ==
  IF with[r] # NoKey THEN with[r] ELSE IF tok[r] # NoToken THEN tok[r] ELSE "admin"
RightsSeen ==
  [r \in Requests |->
     IF Entitled(r) = "nothing"
       THEN [to |-> "nothing", client |-> NoClient, by |-> NoKey]
       ELSE [to |-> Entitled(r), client |-> who[r], by |-> Credential(r)]]
Promise == INSTANCE Sessions WITH
             key <- hash, session <- SessionsSeen, used <- issued, right <- RightsSeen,
             Admin <- EnableAdmin
ImplementsSessions == Promise!Spec

\* Where nobody unregisters: a client told that it was created is registered
\* with the key it sent, so of two registrations with different keys one is refused.
CreatedMeansRegistered ==
  \A r \in Requests : step[r] = "created" => hash[who[r]] = with[r]

\* Where nobody unregisters, no call of the store fails and clients register
\* themselves: a request with a key that Register accepts is refused only to who holds
\* another such key than the registered one, however many first requests of a client
\* arrive at once.  A key that is too short or too long registers nobody, and so keeps
\* no later request out.
FirstRequestServed ==
  \A r \in Requests :
    step[r] = "denied" /\ op[r] = "basic" /\ with[r] \in Acceptable =>
      hash[who[r]] \in Acceptable \ {with[r]}
=============================================================================
