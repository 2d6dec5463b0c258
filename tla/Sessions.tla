------------------------------ MODULE Sessions ------------------------------
(***************************************************************************)
(* What authentication promises: which requests are entitled to what, by   *)
(* which credential, and when sessions begin and end.  A request gets its  *)
(* right from a credential that is good at that moment and keeps it; a     *)
(* right is used up by what it entitles to.  Lookups, hashes, locks and    *)
(* the failures of the store are left to the specification that implements *)
(* this one.                                                               *)
(***************************************************************************)
CONSTANTS Clients, Keys, Tokens, Requests, NoClient, NoKey,
          Admin       \* whether there is an admin

VARIABLES key,        \* the key of each registered client, or NoKey
          session,    \* the tokens each client may use now
          used,       \* tokens that were handed out
          right       \* what each request is entitled to

vars == <<key, session, used, right>>

Right(to, c, by) == [to |-> to, client |-> c, by |-> by]
Nothing == Right("nothing", NoClient, NoKey)

Init ==
  /\ key = [c \in Clients |-> NoKey]
  /\ session = [c \in Clients |-> {}]
  /\ used = {}
  /\ right = [r \in Requests |-> Nothing]

\* A key is chosen once, until it is erased.
Register(c) ==
  /\ key[c] = NoKey
  /\ \E k \in Keys : key' = [key EXCEPT ![c] = k]
  /\ UNCHANGED <<session, used, right>>

\* A token of a client is as good as its key, except that it gives no other token.
Good(to, c, by) ==
  \/ by \in Keys /\ by = key[c]
  \/ by \in session[c] /\ to # "login"
  \/ by = "admin" /\ Admin /\ to = "unregister"

Gets(r, what) == right' = [right EXCEPT ![r] = what]

Show(r, to, c, by) ==
  /\ right[r] = Nothing
  /\ Good(to, c, by)
  /\ Gets(r, Right(to, c, by))
  /\ UNCHANGED <<key, session, used>>

May(r, to) == right[r].to = to
Becomes(r, tokens) == session' = [session EXCEPT ![right[r].client] = tokens]

\* A new token replaces the one before, whoever holds it.
Login(r) ==
  /\ May(r, "login")
  /\ \E t \in Tokens \ used : Becomes(r, {t}) /\ used' = used \cup {t}
  /\ Gets(r, Nothing)
  /\ UNCHANGED key

\* The key goes first, and with luck the session too.
Erase(r) ==
  /\ May(r, "unregister")
  /\ key' = [key EXCEPT ![right[r].client] = NoKey]
  /\ Gets(r, Nothing) \/ Gets(r, [right[r] EXCEPT !.to = "end"])
  /\ UNCHANGED <<session, used>>

End(r) ==
  /\ May(r, "end")
  /\ Becomes(r, {})
  /\ Gets(r, Nothing)
  /\ UNCHANGED <<key, used>>

\* The request was answered, or failed.
Drop(r) == Gets(r, Nothing) /\ UNCHANGED <<key, session, used>>

Expire(c) == session' = [session EXCEPT ![c] = {}] /\ UNCHANGED <<key, used, right>>

Restart ==
  /\ session' = [c \in Clients |-> {}]
  /\ right' = [r \in Requests |-> Nothing]
  /\ UNCHANGED <<key, used>>

Next ==
  \/ \E c \in Clients : Register(c) \/ Expire(c)
  \/ \E r \in Requests :
       \/ \E to \in {"serve", "login", "unregister"}, c \in Clients,
             by \in Keys \cup Tokens \cup {"admin"} : Show(r, to, c, by)
       \/ Login(r) \/ Erase(r) \/ End(r) \/ Drop(r)
  \/ Restart

Spec == Init /\ [][Next]_vars
=============================================================================
