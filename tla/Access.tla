--------------------------------- MODULE Access ---------------------------------
(***************************************************************************)
(* Custom roles and the API keys bound to them.  The use-cases look at     *)
(* roles and keys in one statement and write in a later one; no foreign    *)
(* key ties a key to its role.                                             *)
(***************************************************************************)
CONSTANTS Roles, Keys, Clients

VARIABLES
  roles,     \* the roles that have a row
  key,       \* each key: its state and the role it is bound to, if any
  request,   \* what each client is doing
  unborn,    \* the roles and keys that newId has not given out yet
  loose      \* history: the keys made while their role was being deleted, or after

vars == <<roles, key, request, unborn, loose>>

Idle == [step |-> "idle"]

Init ==
  /\ roles = {}
  /\ key = [k \in Keys |-> [state |-> "none", of |-> {}]]
  /\ request = [c \in Clients |-> Idle]
  /\ unborn = Roles \union Keys
  /\ loose = {}

At(c, step) == request[c].step = step
Goto(c, q) == request' = [request EXCEPT ![c] = q]

-------------------------------------------------------------------------------
\* createRole, under a new id.
createRole(r) ==
  /\ r \in unborn
  /\ unborn' = unborn \ {r} /\ roles' = roles \union {r}
  /\ UNCHANGED <<key, request, loose>>

\* updateRole, deleteRole and, for a key that is bound to a role, createApiKey begin
\* with roles.get.
BeginRole(c, R, step) ==
  /\ At(c, "idle") /\ R \subseteq roles
  /\ Goto(c, [step |-> step, of |-> R])
  /\ UNCHANGED <<roles, key, unborn, loose>>

\* updateRole: roles.save inserts the row again when it was deleted in the meantime.
SaveRole(c) ==
  /\ At(c, "saveRole")
  /\ roles' = roles \union request[c].of
  /\ Goto(c, Idle)
  /\ UNCHANGED <<key, unborn, loose>>

\* deleteRole: the keys that are not revoked.
Holders(R) == {k \in Keys : key[k].state \in {"active", "expired"} /\ key[k].of = R}

ListHolders(c) ==
  /\ At(c, "listHolders")
  /\ Goto(c, IF Holders(request[c].of) = {} THEN [request[c] EXCEPT !.step = "deleteRole"] ELSE Idle)
  /\ UNCHANGED <<roles, key, unborn, loose>>

DeleteRole(c) ==
  /\ At(c, "deleteRole")
  /\ roles' = roles \ request[c].of
  /\ Goto(c, Idle)
  /\ UNCHANGED <<key, unborn, loose>>

-------------------------------------------------------------------------------
\* createApiKey: the key is inserted whatever has become of its role.
InsertKey(c, k) ==
  LET R == request[c].of
      deleting == \E d \in Clients : At(d, "deleteRole") /\ request[d].of = R IN
  /\ At(c, "insertKey") /\ k \in unborn
  /\ unborn' = unborn \ {k}
  /\ key' = [key EXCEPT ![k] = [state |-> "active", of |-> R]]
  /\ loose' = IF deleting \/ ~(R \subseteq roles) THEN loose \union {k} ELSE loose
  /\ Goto(c, Idle)
  /\ UNCHANGED roles

\* expiresAt has come.
Expire(k) ==
  /\ key[k].state = "active"
  /\ key' = [key EXCEPT ![k].state = "expired"]
  /\ UNCHANGED <<roles, request, unborn, loose>>

\* revokeApiKey; a key is never deleted, so the look before changes nothing.
revokeApiKey(k) ==
  /\ key[k].state # "none"
  /\ key' = [key EXCEPT ![k].state = "revoked"]
  /\ UNCHANGED <<roles, request, unborn, loose>>

\* authenticate: a key that is bound to a role speaks for that role, and a key whose
\* role is gone is refused.
Authenticates(k) == key[k].state = "active" /\ key[k].of \subseteq roles

Next ==
  \/ \E r \in Roles : createRole(r)
  \/ \E k \in Keys : Expire(k) \/ revokeApiKey(k)
  \/ \E c \in Clients :
       \/ \E r \in Roles, step \in {"saveRole", "listHolders", "insertKey"} : BeginRole(c, {r}, step)
       \/ BeginRole(c, {}, "insertKey")
       \/ SaveRole(c) \/ ListHolders(c) \/ DeleteRole(c) \/ \E k \in Keys : InsertKey(c, k)

Spec == Init /\ [][Next]_vars

-------------------------------------------------------------------------------
\* deleteRole is "refused while any API key still references it": a key that is not
\* revoked has its role, and can authenticate until it expires, however updates,
\* deletions and revocations race - unless it was made while its role was on the way out.
HoldersKeepTheirRole ==
  \A k \in Keys \ loose :
    /\ key[k].state = "active" => Authenticates(k)
    /\ key[k].state = "expired" => key[k].of \subseteq roles
================================================================================
