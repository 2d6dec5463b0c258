---------------------------- MODULE SessionCache ----------------------------
(***************************************************************************)
(* The bearer sessions of service/auth/session_cache.go: a map from tokens *)
(* to clients with an expiration date each.  Put and Delete hold the mutex *)
(* for their whole body and are one step each.  Get reads under the read   *)
(* lock, releases it, and takes the lock again to remove the token if it   *)
(* was expired: two steps, Lookup and Evict.                               *)
(***************************************************************************)
CONSTANTS Clients, Tokens, NoClient

VARIABLES owner,      \* the client of each token, or NoClient: not in the map
          expired     \* tokens in the map whose ExpirationDate has passed

TypeOK ==
  /\ owner \in [Tokens -> Clients \cup {NoClient}]
  /\ expired \in SUBSET Tokens

Init ==
  /\ owner = [k \in Tokens |-> NoClient]
  /\ expired = {}

TokensOf(c) == {k \in Tokens : owner[k] = c}

InMap(k) == owner[k] # NoClient
Valid(k) == InMap(k) /\ k \notin expired

\* Nothing removed: the client's former session left in the map.
FirstFound_None(c) == {{}}

\* The unexported delete stops at the first token it finds for the client.
FirstFound(c) == IF TokensOf(c) = {} THEN {{}} ELSE {{k} : k \in TokensOf(c)}

Put(c, k) ==
  /\ ~InMap(k)
  /\ \E old \in FirstFound(c) :
       /\ owner' = [x \in Tokens |-> IF x = k THEN c
                                     ELSE IF x \in old THEN NoClient ELSE owner[x]]
       /\ expired' = expired \ (old \cup {k})

Delete(c) ==
  \E old \in FirstFound(c) :
    /\ owner' = [x \in Tokens |-> IF x \in old THEN NoClient ELSE owner[x]]
    /\ expired' = expired \ old

Evict(k) ==
  /\ owner' = [owner EXCEPT ![k] = NoClient]
  /\ expired' = expired \ {k}

Expire(k) ==
  /\ Valid(k)
  /\ expired' = expired \cup {k}
  /\ UNCHANGED owner

Clear ==
  /\ owner' = [k \in Tokens |-> NoClient]
  /\ expired' = {}

\* "Make sure there is only one bearer token per client."
OneTokenPerClient ==
  \A j, k \in Tokens : InMap(j) /\ owner[j] = owner[k] => j = k
=============================================================================
