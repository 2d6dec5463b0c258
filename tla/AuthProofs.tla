----------------------------- MODULE AuthProofs -----------------------------
(***************************************************************************)
(* Theorems about Auth for any clients, keys, tokens and any number of     *)
(* concurrent requests.                                                    *)
(***************************************************************************)
EXTENDS Auth, TLAPS

\* What a request carries at each of its steps.
ArgInv ==
  \A r \in Requests :
    /\ step[r] \in {"check", "put", "auth", "created"} \/ op[r] = "basic" =>
         who[r] \in Clients /\ with[r] \in Keys
    /\ step[r] \in {"session", "find", "erase", "revoke"} => who[r] \in Clients
    /\ step[r] \in {"lookup", "evict"} =>
         tok[r] \in Tokens /\ with[r] = NoKey /\ op[r] \in {"bearer", "unregister"}
    /\ step[r] = "session" => op[r] = "login"
    /\ step[r] \in {"find", "erase", "revoke"} => op[r] = "unregister"
    /\ step[r] = "lookup" /\ op[r] = "unregister" => who[r] \in Clients

Inv == TypeOK /\ ArgInv

LEMMA InvInit == Init => Inv
  BY FlagsAssumption DEF Init, Inv, ArgInv, TypeOK, Cache!TypeOK, Cache!Init, Steps, Answers

LEMMA ArriveInv ==
  ASSUME Inv, NEW r \in Requests
  PROVE  /\ \A c \in Clients, k \in Keys :
              ArriveRegister(r, c, k) \/ ArriveLogin(r, c, k) \/ ArriveBasic(r, c, k) => Inv'
         /\ \A c \in Clients : ArriveUnregister(r, c) => Inv'
         /\ \A k \in Tokens : ArriveBearer(r, k) => Inv'
  BY DEF Inv, ArgInv, TypeOK, Cache!TypeOK, Steps, Answers, cache, Arrive, GoTo,
         ArriveRegister, FirstOfRegister, ArriveLogin, ArriveBasic, ArriveUnregister,
         ArriveBearer

LEMMA ServeInv ==
  ASSUME Inv, NEW r \in Requests, Serve(r) PROVE Inv'
<1> USE DEF Inv, ArgInv, TypeOK, Cache!TypeOK, Steps, Answers, cache, args, GoTo
<1>1. CASE RegisterCheck(r)
  BY <1>1 DEF RegisterCheck, AlreadyRegistered
<1>2. CASE RegisterPut(r)
  BY <1>2 DEF RegisterPut, AlreadyRegistered, NewlyRegistered, DB!Put, DB!Set, DB!SetFails
<1>3. CASE Authenticate(r)
  BY <1>3 DEF Authenticate, AfterAuth
<1>4. CASE LoginPut(r)
  <2> PICK k \in Tokens :
         /\ issued' = issued \cup {k}
         /\ \/ GoTo(r, "denied") /\ UNCHANGED <<cache, tok>>
            \/ Cache!Put(who[r], k) /\ GoTo(r, "granted") /\ tok' = [tok EXCEPT ![r] = k]
    BY <1>4 DEF LoginPut, Candidates
  <2>1. CASE UNCHANGED cache
    BY <1>4, <2>1 DEF LoginPut, Cache!Put
  <2>2. CASE Cache!Put(who[r], k)
    <3>1. Cache!TypeOK'
      BY <1>4, <2>2 DEF LoginPut, Cache!Put
    <3> QED
      BY <1>4, <3>1 DEF LoginPut
  <2> QED
    BY <2>1, <2>2
<1>5. CASE BearerLookup(r)
  BY <1>5 DEF BearerLookup, AfterLookup
<1>6. CASE BearerEvict(r)
  BY <1>6 DEF BearerEvict, Cache!Evict
<1>7. CASE UnregisterFind(r) \/ UnregisterErase(r)
  BY <1>7 DEF UnregisterFind, UnregisterErase, DB!Delete, DB!DeleteFails
<1>8. CASE UnregisterRevoke(r)
  <2>1. Cache!TypeOK'
    BY <1>8 DEF UnregisterRevoke, Cache!Delete
  <2> QED
    BY <1>8, <2>1 DEF UnregisterRevoke
<1>9. CASE Answer(r)
  BY <1>9 DEF Answer
<1> QED
  BY <1>1, <1>2, <1>3, <1>4, <1>5, <1>6, <1>7, <1>8, <1>9 DEF Serve

LEMMA InvStep == Inv /\ [Next]_vars => Inv'
<1> SUFFICES ASSUME Inv, [Next]_vars PROVE Inv'
  OBVIOUS
<1>1. CASE Restart
  BY <1>1, FlagsAssumption
     DEF Restart, Cache!Clear, Inv, ArgInv, TypeOK, Cache!TypeOK, Steps, Answers
<1>2. CASE \E k \in Tokens : SessionExpires(k)
  BY <1>2 DEF SessionExpires, Cache!Expire, Inv, ArgInv, TypeOK, Cache!TypeOK, args
<1>3. CASE UNCHANGED vars
  BY <1>3 DEF vars, cache, args, Inv, ArgInv, TypeOK, Cache!TypeOK
<1> QED
  BY <1>1, <1>2, <1>3, ArriveInv, ServeInv DEF Next

\* The state keeps its type, and requests carry what their steps use.
THEOREM TypeCorrect == Spec => []Inv
  BY InvInit, InvStep, PTL DEF Spec

\* Nothing but keys, tokens and clients is where one is expected, whatever requests
\* overlap and fail.
THEOREM TypeKept == Spec => []TypeOK
<1>1. Inv => TypeOK
  BY DEF Inv
<1> QED
  BY <1>1, TypeCorrect, PTL

-----------------------------------------------------------------------------
(* Registration.                                                           *)

\* Which steps write the store.
LEMMA HashStep ==
  ASSUME Inv, [Next]_vars
  PROVE  \/ UNCHANGED hash
         \/ \E r \in Requests : RegisterPut(r) \/ UnregisterErase(r)
  BY DEF Next, vars, Serve, Arrive, ArriveRegister, ArriveLogin, ArriveBasic,
         ArriveUnregister, ArriveBearer, Answer, RegisterCheck, Authenticate, LoginPut,
         BearerLookup, BearerEvict, UnregisterFind, UnregisterRevoke, Restart, SessionExpires

\* Registrations never overwrite the key of a registered client.
THEOREM RegisteredKeyIsKept == Spec => KeyNeverOverwritten
<1> DEFINE Kept == \A c \in Clients : hash[c] # NoKey /\ hash'[c] # NoKey => hash'[c] = hash[c]
<1>1. Inv /\ [Next]_vars => Kept
  <2> SUFFICES ASSUME Inv, [Next]_vars PROVE Kept
    OBVIOUS
  <2>1. ASSUME NEW r \in Requests, RegisterPut(r) PROVE Kept
    BY <2>1 DEF RegisterPut, DB!Put, DB!Set, DB!SetFails, DB!Present, Inv, TypeOK
  <2>2. ASSUME NEW r \in Requests, UnregisterErase(r) PROVE Kept
    BY <2>2 DEF UnregisterErase, DB!Delete, DB!DeleteFails, Inv, TypeOK
  <2> QED
    BY HashStep, <2>1, <2>2
<1> QED
  BY <1>1, TypeCorrect, PTL DEF Spec, KeyNeverOverwritten

-----------------------------------------------------------------------------
(* Where nobody unregisters, keys only accumulate.                         *)

\* Only keys that pass both tests of their length are on record, and a request that is
\* past its registration belongs to a registered client.
RegisteredInv ==
  /\ \A c \in Clients : hash[c] \in Acceptable \cup {NoKey}
  /\ \A r \in Requests :
       /\ step[r] \notin {"find", "erase", "revoke"}
       /\ step[r] \in {"check", "put"} => with[r] \notin ShortKeys
       /\ step[r] = "auth" /\ op[r] = "basic" => hash[who[r]] # NoKey

LEMMA RegistrationStep ==
  ASSUME "unregister" \notin Ops, SelfRegistration, ~StoreFails,
         Inv, RegisteredInv, CreatedMeansRegistered, FirstRequestServed, [Next]_vars
  PROVE  (RegisteredInv /\ CreatedMeansRegistered /\ FirstRequestServed)'
<1> DEFINE Good == RegisteredInv /\ CreatedMeansRegistered /\ FirstRequestServed
<1> USE NamesAssumption, FlagsAssumption
    DEF RegisteredInv, CreatedMeansRegistered, FirstRequestServed, Inv, TypeOK, ArgInv,
        Steps, Answers, cache, args, GoTo, Acceptable
<1>1. ASSUME NEW r \in Requests, NEW c \in Clients, NEW k \in Keys,
             ArriveRegister(r, c, k) \/ ArriveLogin(r, c, k) \/ ArriveBasic(r, c, k)
      PROVE  Good'
  BY <1>1 DEF ArriveRegister, ArriveLogin, ArriveBasic, Arrive, FirstOfRegister
<1>2. ASSUME NEW r \in Requests, NEW c \in Clients, ArriveUnregister(r, c) PROVE Good'
  BY <1>2 DEF ArriveUnregister, Arrive
<1>3. ASSUME NEW r \in Requests, NEW k \in Tokens, ArriveBearer(r, k) PROVE Good'
  BY <1>3 DEF ArriveBearer, Arrive
<1>4. ASSUME NEW r \in Requests, RegisterCheck(r) PROVE Good'
  BY <1>4 DEF RegisterCheck, AlreadyRegistered, DB!Present
<1>5. ASSUME NEW r \in Requests, RegisterPut(r) PROVE Good'
  BY <1>5 DEF RegisterPut, HashFails, AlreadyRegistered, NewlyRegistered, DB!Present, DB!Put,
              DB!Set
<1>6. ASSUME NEW r \in Requests, Authenticate(r) PROVE Good'
  BY <1>6 DEF Authenticate, AfterAuth, Matches, DB!Present
<1>7. ASSUME NEW r \in Requests, LoginPut(r) PROVE Good'
  BY <1>7 DEF LoginPut
<1>8. ASSUME NEW r \in Requests, BearerLookup(r) PROVE Good'
  BY <1>8 DEF BearerLookup, AfterLookup
<1>9. ASSUME NEW r \in Requests, BearerEvict(r) PROVE Good'
  BY <1>9 DEF BearerEvict
<1>10. ASSUME NEW r \in Requests, Answer(r) PROVE Good'
  BY <1>10 DEF Answer
<1>11. CASE Restart
  BY <1>11 DEF Restart
<1>12. CASE (\E k \in Tokens : SessionExpires(k)) \/ UNCHANGED vars
  BY <1>12 DEF SessionExpires, vars
<1>13. ~ \E r \in Requests : UnregisterFind(r) \/ UnregisterErase(r) \/ UnregisterRevoke(r)
  BY DEF UnregisterFind, UnregisterErase, UnregisterRevoke
<1> QED
  BY <1>1, <1>2, <1>3, <1>4, <1>5, <1>6, <1>7, <1>8, <1>9, <1>10, <1>11, <1>12, <1>13
     DEF Next, Serve

\* Where nobody unregisters, the store works and clients register themselves, a
\* client told it was created is registered with its own key, and the first requests
\* of a client are served however many arrive at once, if their key can be registered
\* at all: it is neither too short for Register nor too long for bcrypt.
THEOREM FirstRequestsAreServed ==
  ASSUME "unregister" \notin Ops, SelfRegistration, ~StoreFails
  PROVE  Spec => [](CreatedMeansRegistered /\ FirstRequestServed)
<1> DEFINE Good == RegisteredInv /\ CreatedMeansRegistered /\ FirstRequestServed
<1>1. Init => Good
  BY DEF Init, RegisteredInv, CreatedMeansRegistered, FirstRequestServed
<1>2. Inv /\ Good /\ [Next]_vars => Good'
  BY RegistrationStep
<1>3. Good => CreatedMeansRegistered /\ FirstRequestServed
  OBVIOUS
<1> HIDE DEF Good
<1> QED
  BY <1>1, <1>2, <1>3, TypeCorrect, PTL DEF Spec

\* Of two registrations with different keys one is refused.
THEOREM CreatedAreRegistered ==
  ASSUME "unregister" \notin Ops, SelfRegistration, ~StoreFails
  PROVE  Spec => []CreatedMeansRegistered
  BY FirstRequestsAreServed, PTL

-----------------------------------------------------------------------------
(* Sessions.                                                               *)

\* Which steps write the cache.
LEMMA CacheStep ==
  ASSUME Inv, [Next]_vars
  PROVE  \/ UNCHANGED owner
         \/ \E r \in Requests : LoginPut(r) \/ BearerEvict(r) \/ UnregisterRevoke(r)
         \/ Restart
  BY DEF Next, vars, cache, Serve, Arrive, ArriveRegister, ArriveLogin, ArriveBasic,
         ArriveUnregister, ArriveBearer, Answer, RegisterCheck, RegisterPut, Authenticate,
         BearerLookup, UnregisterFind, UnregisterErase, SessionExpires, Cache!Expire

\* No client ever has two bearer tokens, whether tokens repeat or not.
THEOREM OneSession == Spec => []OneTokenPerClient
<1> USE NamesAssumption DEF OneTokenPerClient, Cache!OneTokenPerClient, Cache!InMap
<1>1. Init => OneTokenPerClient
  BY DEF Init, Cache!Init
<1>2. Inv /\ OneTokenPerClient /\ [Next]_vars => OneTokenPerClient'
  <2> SUFFICES ASSUME Inv, OneTokenPerClient, [Next]_vars PROVE OneTokenPerClient'
    OBVIOUS
  <2>1. ASSUME NEW r \in Requests, LoginPut(r) PROVE OneTokenPerClient'
    <3>1. CASE UNCHANGED cache
      BY <3>1 DEF cache
    <3>2. CASE \E k \in Tokens : Cache!Put(who[r], k)
      BY <3>2, <2>1 DEF LoginPut, Inv, TypeOK, ArgInv, Cache!TypeOK, Cache!Put,
                        Cache!FirstFound, Cache!TokensOf
    <3> QED
      BY <2>1, <3>1, <3>2 DEF LoginPut, Candidates
  <2>2. ASSUME NEW r \in Requests, BearerEvict(r) \/ UnregisterRevoke(r)
        PROVE  OneTokenPerClient'
    BY <2>2 DEF BearerEvict, UnregisterRevoke, Cache!Evict, Cache!Delete, Inv, TypeOK,
                Cache!TypeOK
  <2>3. CASE Restart
    BY <2>3 DEF Restart, Cache!Clear
  <2> QED
    BY CacheStep, <2>1, <2>2, <2>3
<1> QED
  BY <1>1, <1>2, TypeCorrect, PTL DEF Spec

\* What delete finds first is all there is, so that an unregistration leaves its
\* client without a session.
THEOREM UnregistrationInvalidates == Spec => UnregisterInvalidates
<1> DEFINE Gone == \A r \in Requests :
       step[r] = "revoke" /\ step'[r] = "granted" => \A k \in Tokens : owner'[k] # who[r]
<1>1. Inv /\ OneTokenPerClient /\ [Next]_vars => Gone
  <2> SUFFICES ASSUME Inv, OneTokenPerClient, [Next]_vars,
                      NEW r \in Requests, step[r] = "revoke", step'[r] = "granted"
               PROVE  \A k \in Tokens : owner'[k] # who[r]
    OBVIOUS
  <2> USE DEF Inv, TypeOK, Steps, Answers, GoTo
  <2>1. UnregisterRevoke(r)
    <3>1. \A x \in Requests : \A o, c, k, t, s : ~Arrive(x, o, c, k, t, s)
      BY DEF Arrive
    <3>2. \A x \in Requests : UnregisterRevoke(x) => x = r
      BY DEF UnregisterRevoke
    <3>3. \A x \in Requests :
            ~RegisterCheck(x) /\ ~RegisterPut(x) /\ ~Authenticate(x) /\ ~LoginPut(x)
      BY DEF RegisterCheck, RegisterPut, Authenticate, LoginPut
    <3>4. \A x \in Requests :
            /\ ~BearerLookup(x) /\ ~BearerEvict(x)
            /\ ~UnregisterFind(x) /\ ~UnregisterErase(x) /\ ~Answer(x)
      BY DEF BearerLookup, BearerEvict, UnregisterFind, UnregisterErase, Answer
    <3>5. ~Restart /\ ~ \E k \in Tokens : SessionExpires(k)
      BY DEF Restart, SessionExpires
    <3> QED
      BY <3>1, <3>2, <3>3, <3>4, <3>5
         DEF Next, vars, Serve, ArriveRegister, ArriveLogin, ArriveBasic,
             ArriveUnregister, ArriveBearer
  <2> QED
    BY <2>1, NamesAssumption
       DEF UnregisterRevoke, Cache!Delete, Cache!FirstFound, Cache!TokensOf, Cache!InMap,
           OneTokenPerClient, Cache!OneTokenPerClient, Inv, TypeOK, ArgInv, Cache!TypeOK
<1> HIDE DEF Gone
<1>2. [][Gone]_vars => UnregisterInvalidates
  BY PTL DEF Gone, UnregisterInvalidates
<1> QED
  BY <1>1, <1>2, OneSession, TypeCorrect, PTL DEF Spec

\* A session is in the map only under a token that was issued, and a Get that is
\* about to remove an expired session still finds none that is valid there.
SessionInv ==
  /\ \A k \in Tokens : Cache!InMap(k) => k \in issued
  /\ \A r \in Requests : step[r] = "evict" => tok[r] \in issued /\ ~Cache!Valid(tok[r])

LEMMA SessionStep ==
  ASSUME FreshTokens, Inv, SessionInv, [Next]_vars PROVE SessionInv'
<1> USE NamesAssumption
    DEF SessionInv, Inv, TypeOK, ArgInv, Cache!TypeOK, Cache!InMap, Cache!Valid, Steps,
        Answers, cache, args, GoTo
<1>1. ASSUME NEW r \in Requests, NEW c \in Clients, NEW k \in Keys,
             ArriveRegister(r, c, k) \/ ArriveLogin(r, c, k) \/ ArriveBasic(r, c, k)
      PROVE  SessionInv'
  BY <1>1 DEF ArriveRegister, ArriveLogin, ArriveBasic, Arrive, FirstOfRegister
<1>2. ASSUME NEW r \in Requests, NEW c \in Clients, ArriveUnregister(r, c) PROVE SessionInv'
  BY <1>2 DEF ArriveUnregister, Arrive
<1>3. ASSUME NEW r \in Requests, NEW k \in Tokens, ArriveBearer(r, k) PROVE SessionInv'
  BY <1>3 DEF ArriveBearer, Arrive
<1>4. ASSUME NEW r \in Requests,
             \/ RegisterCheck(r) \/ RegisterPut(r) \/ Authenticate(r)
             \/ UnregisterFind(r) \/ UnregisterErase(r) \/ Answer(r)
      PROVE  SessionInv'
  BY <1>4 DEF RegisterCheck, RegisterPut, Authenticate, UnregisterFind, UnregisterErase,
              Answer, AlreadyRegistered, NewlyRegistered, AfterAuth
<1>5. ASSUME NEW r \in Requests, LoginPut(r) PROVE SessionInv'
  <2> PICK k \in Tokens \ issued :
         /\ issued' = issued \cup {k}
         /\ \/ GoTo(r, "denied") /\ UNCHANGED <<cache, tok>>
            \/ Cache!Put(who[r], k) /\ GoTo(r, "granted") /\ tok' = [tok EXCEPT ![r] = k]
    BY <1>5 DEF LoginPut, Candidates
  <2>1. CASE UNCHANGED cache
    BY <1>5, <2>1 DEF LoginPut, Cache!Put
  <2>2. CASE Cache!Put(who[r], k)
    <3>1. \A x \in Tokens : /\ owner'[x] # NoClient => x = k \/ owner[x] # NoClient
                            /\ x # k /\ Cache!Valid(x)' => Cache!Valid(x)
      BY <2>2 DEF Cache!Put, Cache!FirstFound, Cache!TokensOf
    <3> QED
      BY <1>5, <2>2, <3>1 DEF LoginPut
  <2> QED
    BY <2>1, <2>2
<1>6. ASSUME NEW r \in Requests, BearerLookup(r) PROVE SessionInv'
  BY <1>6 DEF BearerLookup, AfterLookup
<1>7. ASSUME NEW r \in Requests, BearerEvict(r) PROVE SessionInv'
  BY <1>7 DEF BearerEvict, Cache!Evict
<1>8. ASSUME NEW r \in Requests, UnregisterRevoke(r) PROVE SessionInv'
  BY <1>8 DEF UnregisterRevoke, Cache!Delete, Cache!FirstFound, Cache!TokensOf
<1>9. CASE Restart
  BY <1>9 DEF Restart, Cache!Clear
<1>10. CASE \E k \in Tokens : SessionExpires(k)
  BY <1>10 DEF SessionExpires, Cache!Expire
<1>11. CASE UNCHANGED vars
  BY <1>11 DEF vars
<1> QED
  BY <1>1, <1>2, <1>3, <1>4, <1>5, <1>6, <1>7, <1>8, <1>9, <1>10, <1>11 DEF Next, Serve

\* While tokens do not repeat, a Get that removes an expired session after it let go
\* of the lock never removes a live one.
THEOREM LiveSessionsAreKept == ASSUME FreshTokens PROVE Spec => LiveSessionKept
<1> DEFINE Kept == \A k \in Tokens :
       Cache!Valid(k) /\ owner'[k] # owner[k] =>
         \/ \E r \in Requests : step[r] \in {"session", "revoke"} /\ who[r] = owner[k]
         \/ restarts' # restarts
<1>1. Init => SessionInv
  BY DEF Init, SessionInv, Cache!Init, Cache!InMap
<1>2. Inv /\ SessionInv /\ [Next]_vars => SessionInv'
  BY SessionStep
<1>3. Inv /\ SessionInv /\ [Next]_vars => Kept
  <2> SUFFICES ASSUME Inv, SessionInv, [Next]_vars PROVE Kept
    OBVIOUS
  <2> USE DEF Inv, TypeOK, Cache!TypeOK, Cache!Valid, Cache!InMap, Cache!FirstFound,
              Cache!TokensOf
  <2>1. ASSUME NEW r \in Requests, LoginPut(r) PROVE Kept
    BY <2>1 DEF LoginPut, Cache!Put, cache
  <2>2. ASSUME NEW r \in Requests, UnregisterRevoke(r) PROVE Kept
    BY <2>2 DEF UnregisterRevoke, Cache!Delete
  <2>3. ASSUME NEW r \in Requests, BearerEvict(r) PROVE Kept
    BY <2>3 DEF BearerEvict, Cache!Evict, SessionInv
  <2>4. CASE Restart
    BY <2>4 DEF Restart
  <2> QED
    BY CacheStep, <2>1, <2>2, <2>3, <2>4
<1> HIDE DEF Kept
<1>4. [][Kept]_vars => LiveSessionKept
  BY PTL DEF Kept, LiveSessionKept
<1> QED
  BY <1>1, <1>2, <1>3, <1>4, TypeCorrect, PTL DEF Spec

-----------------------------------------------------------------------------
(* The promise: each step is one of Sessions' or a stutter.                *)

Kept == [Promise!Next]_(Promise!vars)

\* A step of one request leaves what the others are entitled to.
LEMMA OneRequest ==
  ASSUME Inv, Inv', NEW r \in Requests,
         \A x \in Requests : x # r => UNCHANGED <<op[x], who[x], with[x], tok[x], step[x]>>
  PROVE  RightsSeen' = [RightsSeen EXCEPT ![r] = RightsSeen[r]']
<1>1. ASSUME NEW x \in Requests, x # r PROVE RightsSeen[x]' = RightsSeen[x]
  <2>1. Entitled(x)' = Entitled(x) /\ Credential(x)' = Credential(x) /\ who'[x] = who[x]
    BY <1>1 DEF Entitled, Credential
  <2> QED
    BY <2>1 DEF RightsSeen
<1>2. RightsSeen = [x \in Requests |-> RightsSeen[x]]
      /\ RightsSeen' = [x \in Requests |-> RightsSeen[x]']
  BY DEF RightsSeen
<1> QED
  BY <1>1, <1>2

\* A request whose keys and sessions stay as they are may always lose its right.
LEMMA RightGoes ==
  ASSUME Inv, Inv', NEW r \in Requests, UNCHANGED <<hash, SessionsSeen, issued>>,
         \A x \in Requests : x # r => UNCHANGED <<op[x], who[x], with[x], tok[x], step[x]>>
  PROVE  /\ UNCHANGED RightsSeen[r] => Kept
         /\ RightsSeen[r]' = Promise!Nothing => Kept
<1>1. RightsSeen' = [RightsSeen EXCEPT ![r] = RightsSeen[r]']
  BY OneRequest
<1>2. ASSUME UNCHANGED RightsSeen[r] PROVE Kept
  <2>1. UNCHANGED RightsSeen
    BY <1>1, <1>2 DEF RightsSeen
  <2> QED
    BY <2>1 DEF Kept, Promise!vars
<1>3. ASSUME RightsSeen[r]' = Promise!Nothing PROVE Kept
  BY <1>1, <1>3 DEF Kept, Promise!Next, Promise!Drop, Promise!Gets
<1> QED
  BY <1>2, <1>3

\* A request that shows a good credential.
LEMMA RightComes ==
  ASSUME Inv, Inv', NEW r \in Requests, UNCHANGED <<hash, SessionsSeen, issued>>,
         \A x \in Requests : x # r => UNCHANGED <<op[x], who[x], with[x], tok[x], step[x]>>,
         RightsSeen[r] = Promise!Nothing,
         NEW to \in {"serve", "login", "unregister"}, NEW c \in Clients,
         NEW by \in Keys \cup Tokens \cup {"admin"},
         Promise!Good(to, c, by), RightsSeen[r]' = Promise!Right(to, c, by)
  PROVE  Kept
<1>1. RightsSeen' = [RightsSeen EXCEPT ![r] = RightsSeen[r]']
  BY OneRequest
<1>2. Promise!Show(r, to, c, by)
  BY <1>1 DEF Promise!Show, Promise!Gets
<1> QED
  BY <1>2 DEF Kept, Promise!Next

\* Rights that are nothing.
LEMMA NoRight ==
  ASSUME NEW r \in Requests
  PROVE  /\ step[r] \notin {"session", "find", "erase", "revoke", "granted"}
              => RightsSeen[r] = Promise!Nothing
         /\ step'[r] \notin {"session", "find", "erase", "revoke", "granted"}
              => RightsSeen[r]' = Promise!Nothing
  BY DEF RightsSeen, Entitled, Promise!Nothing, Promise!Right

LEMMA ArriveKept ==
  ASSUME Inv, Inv', NEW r \in Requests,
         \/ \E c \in Clients, k \in Keys :
              ArriveRegister(r, c, k) \/ ArriveLogin(r, c, k) \/ ArriveBasic(r, c, k)
         \/ \E c \in Clients : ArriveUnregister(r, c)
         \/ \E k \in Tokens : ArriveBearer(r, k)
  PROVE  Kept
<1> USE DEF Inv, TypeOK, GoTo
<1>1. /\ UNCHANGED <<hash, cache, issued>> /\ step[r] = "idle"
      /\ \A x \in Requests : x # r => UNCHANGED <<op[x], who[x], with[x], tok[x], step[x]>>
      /\ \/ step'[r] \in {"check", "denied", "auth", "lookup"}
         \/ /\ EnableAdmin /\ step'[r] = "find" /\ who'[r] \in Clients
            /\ with'[r] = NoKey /\ tok'[r] = NoToken
  BY DEF Arrive, ArriveRegister, ArriveLogin, ArriveBasic, ArriveUnregister, ArriveBearer,
         FirstOfRegister
<1>2. UNCHANGED <<hash, SessionsSeen, issued>>
  BY <1>1 DEF cache, SessionsSeen, Cache!Valid, Cache!InMap
<1>3. CASE step'[r] \in {"check", "denied", "auth", "lookup"}
  <2>1. RightsSeen[r]' = Promise!Nothing
    BY <1>3, NoRight
  <2> QED
    BY <1>1, <1>2, <2>1, RightGoes
<1>4. CASE /\ EnableAdmin /\ step'[r] = "find" /\ who'[r] \in Clients
           /\ with'[r] = NoKey /\ tok'[r] = NoToken
  <2> PICK c \in Clients : c = who'[r]
    BY <1>4
  <2>1. RightsSeen[r]' = Promise!Right("unregister", c, "admin")
    BY <1>4 DEF RightsSeen, Entitled, Credential, Promise!Right
  <2>2. Promise!Good("unregister", c, "admin")
    BY <1>4 DEF Promise!Good
  <2>3. RightsSeen[r] = Promise!Nothing
    BY <1>1, NoRight
  <2> QED
    BY <1>1, <1>2, <2>1, <2>2, <2>3, RightComes
<1> QED
  BY <1>1, <1>3, <1>4

LEMMA RegisterKept ==
  ASSUME Inv, Inv', NEW r \in Requests, RegisterCheck(r) \/ RegisterPut(r) PROVE Kept
<1> USE DEF Inv, TypeOK, GoTo
<1>1. /\ UNCHANGED <<cache, issued>>
      /\ \A x \in Requests : x # r => UNCHANGED <<op[x], who[x], with[x], tok[x], step[x]>>
      /\ step[r] \in {"check", "put"} /\ step'[r] \in {"put", "auth", "created", "denied"}
  BY DEF RegisterCheck, RegisterPut, AlreadyRegistered, NewlyRegistered, args
<1>2. \/ UNCHANGED hash
      \/ \E c \in Clients : hash[c] = NoKey /\ \E k \in Keys : hash' = [hash EXCEPT ![c] = k]
  BY DEF RegisterCheck, RegisterPut, DB!Put, DB!Set, DB!SetFails, DB!Present, ArgInv
<1>3. UNCHANGED SessionsSeen
  BY <1>1 DEF cache, SessionsSeen, Cache!Valid, Cache!InMap
<1>4. RightsSeen[r] = Promise!Nothing /\ RightsSeen[r]' = Promise!Nothing
  BY <1>1, NoRight
<1>5. CASE UNCHANGED hash
  BY <1>1, <1>3, <1>4, <1>5, RightGoes
<1>6. CASE \E c \in Clients : hash[c] = NoKey /\ \E k \in Keys : hash' = [hash EXCEPT ![c] = k]
  <2>1. RightsSeen' = [RightsSeen EXCEPT ![r] = RightsSeen[r]']
    BY <1>1, OneRequest
  <2>2. UNCHANGED RightsSeen
    BY <1>4, <2>1 DEF RightsSeen
  <2> QED
    BY <1>1, <1>3, <1>6, <2>2 DEF Kept, Promise!Next, Promise!Register
<1> QED
  BY <1>2, <1>5, <1>6

LEMMA AuthenticateKept ==
  ASSUME Inv, Inv', NEW r \in Requests, Authenticate(r) PROVE Kept
<1> USE DEF Inv, TypeOK, GoTo
<1>1. /\ UNCHANGED <<hash, cache, issued, args>> /\ step[r] = "auth"
      /\ \A x \in Requests : x # r => UNCHANGED <<op[x], who[x], with[x], tok[x], step[x]>>
      /\ step'[r] = "denied" \/ (Matches(r) /\ step'[r] = AfterAuth(r))
  BY DEF Authenticate, args
<1>2. UNCHANGED <<hash, SessionsSeen, issued>>
  BY <1>1 DEF cache, SessionsSeen, Cache!Valid, Cache!InMap
<1>3. RightsSeen[r] = Promise!Nothing
  BY <1>1, NoRight
<1>4. CASE step'[r] = "denied"
  <2>1. RightsSeen[r]' = Promise!Nothing
    BY <1>4, NoRight
  <2> QED
    BY <1>1, <1>2, <2>1, RightGoes
<1>5. CASE Matches(r) /\ step'[r] = AfterAuth(r)
  <2>1. PICK c \in Clients, by \in Keys : c = who[r] /\ by = with[r]
    BY <1>1 DEF ArgInv
  <2>2. UNCHANGED <<op[r], who[r], with[r]>> /\ by # NoKey
    BY <1>1, NamesAssumption DEF args
  <2>3. \A to : Promise!Good(to, c, by)
    BY <1>5, <2>1 DEF Promise!Good, Matches
  <2>4. CASE op[r] \in {"login", "unregister", "basic", "bearer"}
    <3>1. PICK to \in {"serve", "login", "unregister"} :
            RightsSeen[r]' = Promise!Right(to, c, by)
      BY <1>5, <2>1, <2>2, <2>4 DEF RightsSeen, Entitled, Credential, AfterAuth, Promise!Right
    <3> QED
      BY <1>1, <1>2, <1>3, <2>3, <3>1, RightComes
  <2>5. CASE op[r] \notin {"login", "unregister", "basic", "bearer"}
    <3>1. RightsSeen[r]' = Promise!Nothing
      BY <1>5, <2>2, <2>5
         DEF RightsSeen, Entitled, AfterAuth, Promise!Nothing, Promise!Right
    <3> QED
      BY <1>1, <1>2, <3>1, RightGoes
  <2> QED
    BY <2>4, <2>5
<1> QED
  BY <1>1, <1>4, <1>5

LEMMA LookupKept ==
  ASSUME Inv, Inv', NEW r \in Requests, BearerLookup(r) PROVE Kept
<1> USE DEF Inv, TypeOK, GoTo
<1>1. /\ UNCHANGED <<hash, cache, issued, op, with, tok>> /\ step[r] = "lookup"
      /\ \A x \in Requests : x # r => UNCHANGED <<op[x], who[x], with[x], tok[x], step[x]>>
      /\ step'[r] \in {"evict", "denied"} \/ (Cache!Valid(tok[r]) /\ step'[r] = AfterLookup(r))
      /\ who'[r] = IF op[r] = "bearer" THEN owner[tok[r]] ELSE who[r]
  BY DEF BearerLookup
<1>2. UNCHANGED <<hash, SessionsSeen, issued>>
  BY <1>1 DEF cache, SessionsSeen, Cache!Valid, Cache!InMap
<1>3. RightsSeen[r] = Promise!Nothing
  BY <1>1, NoRight
<1>4. CASE step'[r] \in {"evict", "denied"}
  <2>1. RightsSeen[r]' = Promise!Nothing
    BY <1>4, NoRight
  <2> QED
    BY <1>1, <1>2, <2>1, RightGoes
<1>5. CASE Cache!Valid(tok[r]) /\ step'[r] \in {"granted", "find"} /\ step'[r] = AfterLookup(r)
  <2>1. /\ tok[r] \in Tokens /\ with[r] = NoKey /\ op[r] \in {"bearer", "unregister"}
        /\ owner[tok[r]] \in Clients
    BY <1>1, <1>5 DEF ArgInv, Cache!Valid, Cache!InMap, Cache!TypeOK
  <2>2. PICK c \in Clients, by \in Tokens : c = owner[tok[r]] /\ by = tok[r]
    BY <2>1
  <2>3. by \in SessionsSeen[c] /\ by # NoToken
    BY <1>5, <2>2, NamesAssumption DEF SessionsSeen
  <2>4. who'[r] = c
    BY <1>1, <1>5, <2>1, <2>2 DEF AfterLookup
  <2>5. PICK to \in {"serve", "unregister"} : RightsSeen[r]' = Promise!Right(to, c, by)
    BY <1>1, <1>5, <2>1, <2>2, <2>3, <2>4
       DEF RightsSeen, Entitled, Credential, AfterLookup, Promise!Right
  <2>6. Promise!Good(to, c, by)
    BY <2>3 DEF Promise!Good
  <2> QED
    BY <1>1, <1>2, <1>3, <2>5, <2>6, RightComes
<1> QED
  BY <1>1, <1>4, <1>5 DEF AfterLookup

\* With one token per client, what delete finds first is all of the client's sessions.
LEMMA FoundIsAll ==
  ASSUME Inv, OneTokenPerClient, NEW c \in Clients, NEW old \in Cache!FirstFound(c)
  PROVE  old = Cache!TokensOf(c)
  BY NamesAssumption DEF Cache!FirstFound, Cache!TokensOf, OneTokenPerClient,
     Cache!OneTokenPerClient, Cache!InMap

\* What is seen when the sessions of one client change.
LEMMA SeenOf ==
  ASSUME NEW c \in Clients, NEW tokens,
         {x \in Tokens : Cache!Valid(x)' /\ owner'[x] = c} = tokens,
         \A d \in Clients : d # c =>
           {x \in Tokens : Cache!Valid(x)' /\ owner'[x] = d}
             = {x \in Tokens : Cache!Valid(x) /\ owner[x] = d}
  PROVE  SessionsSeen' = [SessionsSeen EXCEPT ![c] = tokens]
<1> DEFINE now(d) == {x \in Tokens : Cache!Valid(x)' /\ owner'[x] = d}
           then(d) == {x \in Tokens : Cache!Valid(x) /\ owner[x] = d}
<1>1. SessionsSeen' = [d \in Clients |-> now(d)] /\ SessionsSeen = [d \in Clients |-> then(d)]
  BY DEF SessionsSeen
<1>2. now(c) = tokens /\ \A d \in Clients : d # c => now(d) = then(d)
  OBVIOUS
<1> HIDE DEF now, then
<1> QED
  BY <1>1, <1>2

LEMMA LoginKept ==
  ASSUME FreshTokens, Inv, Inv', SessionInv, OneTokenPerClient, NEW r \in Requests, LoginPut(r)
  PROVE  Kept
<1> USE DEF Inv, TypeOK, GoTo
<1>1. PICK c \in Clients : c = who[r]
  BY DEF LoginPut, ArgInv
<1>2. PICK k \in Tokens \ issued :
        /\ issued' = issued \cup {k} /\ Cache!Put(c, k)
        /\ step' = [step EXCEPT ![r] = "granted"] /\ tok' = [tok EXCEPT ![r] = k]
  BY <1>1 DEF LoginPut, Candidates, SessionInv
<1>3. /\ \A x \in Requests : x # r => UNCHANGED <<op[x], who[x], with[x], tok[x], step[x]>>
      /\ UNCHANGED hash /\ step[r] = "session" /\ step'[r] = "granted" /\ op'[r] = "login"
  BY <1>2 DEF LoginPut, ArgInv
<1>4. SessionsSeen' = [SessionsSeen EXCEPT ![c] = {k}]
  <2>1. PICK old \in Cache!FirstFound(c) :
          /\ owner' = [x \in Tokens |-> IF x = k THEN c
                                        ELSE IF x \in old THEN NoClient ELSE owner[x]]
          /\ expired' = expired \ (old \cup {k})
    BY <1>2 DEF Cache!Put
  <2>2. old = Cache!TokensOf(c)
    BY <2>1, FoundIsAll
  <2>3. ~Cache!InMap(k)
    BY <1>2 DEF Cache!Put
  <2>4. {x \in Tokens : Cache!Valid(x)' /\ owner'[x] = c} = {k}
    BY <1>2, <2>1, <2>2, NamesAssumption DEF Cache!Valid, Cache!InMap, Cache!TokensOf
  <2>5. ASSUME NEW d \in Clients, d # c
        PROVE  {x \in Tokens : Cache!Valid(x)' /\ owner'[x] = d}
                 = {x \in Tokens : Cache!Valid(x) /\ owner[x] = d}
    BY <1>2, <2>1, <2>2, <2>3, <2>5, NamesAssumption
       DEF Cache!Valid, Cache!InMap, Cache!TokensOf
  <2> QED
    BY <2>4, <2>5, SeenOf
<1>5. RightsSeen' = [RightsSeen EXCEPT ![r] = Promise!Nothing]
  <2>1. RightsSeen[r]' = Promise!Nothing
    BY <1>3 DEF RightsSeen, Entitled, Promise!Nothing, Promise!Right
  <2> QED
    BY <1>3, <2>1, OneRequest
<1>6. RightsSeen[r].to = "login" /\ RightsSeen[r].client = c
  BY <1>1, <1>3 DEF RightsSeen, Entitled
<1>7. Promise!Login(r)
  BY <1>2, <1>3, <1>4, <1>5, <1>6
     DEF Promise!Login, Promise!May, Promise!Becomes, Promise!Gets
<1> QED
  BY <1>7 DEF Kept, Promise!Next

\* What an expired session is removed from is what may still be used.
LEMMA EvictKept ==
  ASSUME Inv, Inv', SessionInv, NEW r \in Requests, BearerEvict(r) PROVE Kept
<1> USE DEF Inv, TypeOK, GoTo
<1>1. /\ UNCHANGED <<hash, issued>> /\ step[r] = "evict" /\ step'[r] = "denied"
      /\ \A x \in Requests : x # r => UNCHANGED <<op[x], who[x], with[x], tok[x], step[x]>>
  BY DEF BearerEvict, args
<1>2. \A x \in Tokens : /\ Cache!Valid(x)' <=> Cache!Valid(x)
                        /\ Cache!Valid(x) => owner'[x] = owner[x]
  BY <1>1, NamesAssumption
     DEF BearerEvict, Cache!Evict, SessionInv, Cache!Valid, Cache!InMap, Cache!TypeOK, ArgInv
<1>3. UNCHANGED SessionsSeen
  BY <1>2 DEF SessionsSeen
<1>4. RightsSeen[r]' = Promise!Nothing
  BY <1>1, NoRight
<1> QED
  BY <1>1, <1>3, <1>4, RightGoes

LEMMA UnregisterKept ==
  ASSUME Inv, Inv', OneTokenPerClient, NEW r \in Requests,
         UnregisterFind(r) \/ UnregisterErase(r) \/ UnregisterRevoke(r)
  PROVE  Kept
<1> USE DEF Inv, TypeOK, GoTo
<1>1. /\ UNCHANGED <<issued, op, who, with, tok>>
      /\ \A x \in Requests : x # r => UNCHANGED <<op[x], who[x], with[x], tok[x], step[x]>>
  BY DEF UnregisterFind, UnregisterErase, UnregisterRevoke, args
<1>2. PICK c \in Clients : c = who[r]
  BY DEF UnregisterFind, UnregisterErase, UnregisterRevoke, ArgInv
<1>3. RightsSeen' = [RightsSeen EXCEPT ![r] = RightsSeen[r]']
  BY <1>1, OneRequest
<1>4. step'[r] = "denied" => RightsSeen[r]' = Promise!Nothing
  BY NoRight
<1>5. CASE UnregisterFind(r)
  <2>1. UNCHANGED <<hash, SessionsSeen>> /\ step[r] = "find" /\ step'[r] \in {"erase", "denied"}
    BY <1>5 DEF UnregisterFind, cache, SessionsSeen, Cache!Valid, Cache!InMap
  <2>2. step'[r] = "erase" => UNCHANGED RightsSeen[r]
    BY <1>1, <2>1 DEF RightsSeen, Entitled, Credential
  <2> QED
    BY <1>1, <1>4, <2>1, <2>2, RightGoes
<1>6. CASE UnregisterErase(r)
  <2>1. /\ UNCHANGED SessionsSeen /\ step[r] = "erase"
        /\ \/ hash' = [hash EXCEPT ![c] = NoKey] /\ step'[r] \in {"revoke", "denied"}
           \/ UNCHANGED hash /\ step'[r] = "denied"
    BY <1>2, <1>6 DEF UnregisterErase, DB!Delete, DB!DeleteFails, cache, SessionsSeen,
                      Cache!Valid, Cache!InMap
  <2>2. RightsSeen[r] = Promise!Right("unregister", c, Credential(r))
    BY <1>2, <2>1 DEF RightsSeen, Entitled, Promise!Right
  <2>3. step'[r] = "revoke" => RightsSeen[r]' = Promise!Right("end", c, Credential(r))
    BY <1>1, <1>2 DEF RightsSeen, Entitled, Credential, Promise!Right
  <2>4. step'[r] = "revoke" => RightsSeen[r]' = [RightsSeen[r] EXCEPT !.to = "end"]
    BY <2>2, <2>3 DEF Promise!Right
  <2>5. CASE UNCHANGED hash /\ step'[r] = "denied"
    BY <1>1, <1>4, <2>1, <2>5, RightGoes
  <2>6. CASE hash' = [hash EXCEPT ![c] = NoKey] /\ step'[r] \in {"revoke", "denied"}
    <3>1. Promise!May(r, "unregister") /\ RightsSeen[r].client = c
      BY <2>2 DEF Promise!May, Promise!Right
    <3>2. \/ Promise!Gets(r, Promise!Nothing)
          \/ Promise!Gets(r, [RightsSeen[r] EXCEPT !.to = "end"])
      BY <1>3, <1>4, <2>4, <2>6 DEF Promise!Gets
    <3>3. Promise!Erase(r)
      BY <1>1, <2>1, <2>6, <3>1, <3>2 DEF Promise!Erase
    <3> QED
      BY <3>3 DEF Kept, Promise!Next
  <2> QED
    BY <2>1, <2>5, <2>6
<1>7. CASE UnregisterRevoke(r)
  <2>1. UNCHANGED hash /\ step[r] = "revoke" /\ step'[r] = "granted" /\ Cache!Delete(c)
    BY <1>2, <1>7 DEF UnregisterRevoke
  <2>2. SessionsSeen' = [SessionsSeen EXCEPT ![c] = {}]
    <3>1. PICK old \in Cache!FirstFound(c) :
            /\ owner' = [x \in Tokens |-> IF x \in old THEN NoClient ELSE owner[x]]
            /\ expired' = expired \ old
      BY <2>1 DEF Cache!Delete
    <3>2. old = Cache!TokensOf(c)
      BY <3>1, FoundIsAll
    <3>3. {x \in Tokens : Cache!Valid(x)' /\ owner'[x] = c} = {}
      BY <3>1, <3>2, NamesAssumption DEF Cache!Valid, Cache!InMap, Cache!TokensOf
    <3>4. ASSUME NEW d \in Clients, d # c
          PROVE  {x \in Tokens : Cache!Valid(x)' /\ owner'[x] = d}
                   = {x \in Tokens : Cache!Valid(x) /\ owner[x] = d}
      BY <3>1, <3>2, <3>4, NamesAssumption DEF Cache!Valid, Cache!InMap, Cache!TokensOf
    <3> QED
      BY <3>3, <3>4, SeenOf
  <2>3. RightsSeen[r].to = "end" /\ RightsSeen[r].client = c
    BY <1>2, <2>1 DEF RightsSeen, Entitled
  <2>4. CASE op[r] \notin {"basic", "bearer"}
    <3>1. RightsSeen[r]' = Promise!Nothing
      BY <1>1, <2>1, <2>4 DEF RightsSeen, Entitled, Promise!Nothing, Promise!Right
    <3>2. Promise!End(r)
      BY <1>1, <1>3, <2>1, <2>2, <2>3, <3>1
         DEF Promise!End, Promise!May, Promise!Becomes, Promise!Gets
    <3> QED
      BY <3>2 DEF Kept, Promise!Next
  <2>5. op[r] \notin {"basic", "bearer"}
    BY <2>1 DEF ArgInv
  <2> QED
    BY <2>4, <2>5
<1> QED
  BY <1>5, <1>6, <1>7

LEMMA PromiseStep ==
  ASSUME FreshTokens, Inv, Inv', SessionInv, OneTokenPerClient, [Next]_vars PROVE Kept
<1>1. ASSUME NEW r \in Requests, Answer(r) PROVE Kept
  <2>1. /\ UNCHANGED <<hash, issued, SessionsSeen>> /\ step'[r] = "idle"
        /\ \A x \in Requests : x # r => UNCHANGED <<op[x], who[x], with[x], tok[x], step[x]>>
    BY <1>1 DEF Answer, GoTo, cache, SessionsSeen, Cache!Valid, Cache!InMap, Inv, TypeOK
  <2>2. RightsSeen[r]' = Promise!Nothing
    BY <2>1, NoRight
  <2> QED
    BY <2>1, <2>2, RightGoes
<1>2. ASSUME NEW r \in Requests, Serve(r) PROVE Kept
  BY <1>1, <1>2, RegisterKept, AuthenticateKept, LookupKept, LoginKept, EvictKept,
     UnregisterKept DEF Serve
<1>3. ASSUME NEW k \in Tokens, SessionExpires(k) PROVE Kept
  <2>1. PICK c \in Clients : c = owner[k] /\ Cache!Valid(k)
    BY <1>3 DEF SessionExpires, Cache!Expire, Cache!Valid, Cache!InMap, Inv, TypeOK, Cache!TypeOK
  <2>2. /\ UNCHANGED <<hash, issued, owner, op, who, with, tok, step>>
        /\ expired' = expired \cup {k}
    BY <1>3 DEF SessionExpires, Cache!Expire, args
  <2>3. \A x \in Tokens : Cache!InMap(x) /\ owner[x] = c => x = k
    BY <2>1 DEF OneTokenPerClient, Cache!OneTokenPerClient
  <2>4. {x \in Tokens : Cache!Valid(x)' /\ owner'[x] = c} = {}
    BY <2>2, <2>3 DEF Cache!Valid, Cache!InMap
  <2>5. ASSUME NEW d \in Clients, d # c
        PROVE  {x \in Tokens : Cache!Valid(x)' /\ owner'[x] = d}
                 = {x \in Tokens : Cache!Valid(x) /\ owner[x] = d}
    BY <2>1, <2>2, <2>5 DEF Cache!Valid, Cache!InMap
  <2>6. SessionsSeen' = [SessionsSeen EXCEPT ![c] = {}]
    BY <2>4, <2>5 DEF SessionsSeen
  <2>7. UNCHANGED RightsSeen
    BY <2>2 DEF RightsSeen, Entitled, Credential
  <2> QED
    BY <2>2, <2>6, <2>7 DEF Kept, Promise!Next, Promise!Expire
<1>4. CASE Restart
  <2>1. SessionsSeen' = [c \in Clients |-> {}]
    BY <1>4 DEF Restart, Cache!Clear, SessionsSeen, Cache!Valid, Cache!InMap
  <2>2. RightsSeen' = [r \in Requests |-> Promise!Nothing]
    BY <1>4 DEF Restart, RightsSeen, Entitled, Promise!Nothing, Promise!Right
  <2> QED
    BY <1>4, <2>1, <2>2 DEF Restart, Kept, Promise!Next, Promise!Restart
<1>5. CASE UNCHANGED vars
  <2>1. UNCHANGED <<hash, issued, SessionsSeen, RightsSeen>>
    BY <1>5 DEF vars, cache, args, SessionsSeen, RightsSeen, Entitled, Credential,
                Cache!Valid, Cache!InMap
  <2> QED
    BY <2>1 DEF Kept, Promise!vars
<1> QED
  BY <1>2, <1>3, <1>4, <1>5, ArriveKept DEF Next

\* While tokens do not repeat, authentication keeps the promise of Sessions: however
\* requests overlap, expire, fail and are cut off, each one that is served, logs in or
\* unregisters somebody is entitled to it by a credential that was good when it was shown.
THEOREM SessionsImplemented == ASSUME FreshTokens PROVE Spec => ImplementsSessions
<1>1. Init => Promise!Init
  BY DEF Init, Cache!Init, Cache!Valid, Cache!InMap, Promise!Init, SessionsSeen, RightsSeen,
         Entitled, Promise!Nothing, Promise!Right
<1>2. Init => SessionInv
  BY DEF Init, SessionInv, Cache!Init, Cache!InMap
<1>3. Inv /\ SessionInv /\ [Next]_vars => SessionInv'
  BY SessionStep
<1>4. Inv /\ Inv' /\ SessionInv /\ OneTokenPerClient /\ [Next]_vars => Kept
  BY PromiseStep
<1>5. [][Kept]_vars => [][Promise!Next]_(Promise!vars)
  <2>1. UNCHANGED vars => UNCHANGED Promise!vars
    BY DEF vars, cache, args, Promise!vars, SessionsSeen, RightsSeen, Entitled, Credential,
           Cache!Valid, Cache!InMap
  <2> QED
    BY <2>1, PTL DEF Kept
<1> QED
  BY <1>1, <1>2, <1>3, <1>4, <1>5, OneSession, TypeCorrect, PTL
     DEF Spec, ImplementsSessions, Promise!Spec
=============================================================================
