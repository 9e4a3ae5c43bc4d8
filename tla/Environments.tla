------------------------------ MODULE Environments ------------------------------
(***************************************************************************)
(* The environments of a space and the aliases that stand for them.  A     *)
(* name is resolved as an alias first; creating an environment looks at no *)
(* alias, setting an alias looks at the environments in two earlier reads. *)
(***************************************************************************)
CONSTANTS Names, Clients

VARIABLES
  environments,  \* the environments that exist
  aliases,       \* the target of each alias
  request,       \* what each client is doing
  shadowed       \* history: the environments created under an alias, or one being set

vars == <<environments, aliases, request, shadowed>>

Idle == [step |-> "idle"]

Init ==
  /\ environments = {} /\ shadowed = {}
  /\ aliases = [n \in {} |-> {}]
  /\ request = [c \in Clients |-> Idle]

At(c, step) == request[c].step = step
Goto(c, q) == request' = [request EXCEPT ![c] = q]

\* createEnvironment, and each round of createSpace's loop; none is ever deleted.
createEnvironment(n) ==
  /\ n \notin environments
  /\ environments' = environments \union {n}
  /\ shadowed' = IF n \in DOMAIN aliases \/ \E c \in Clients : At(c, "setAlias") /\ request[c].alias = n
                 THEN shadowed \union {n} ELSE shadowed
  /\ UNCHANGED <<aliases, request>>

\* requireEnvironment
BeginAlias(c, alias, target) ==
  /\ At(c, "idle") /\ target \in environments
  /\ Goto(c, [step |-> "listEnvironments", alias |-> alias, target |-> target])
  /\ UNCHANGED <<environments, aliases, shadowed>>

ListEnvironments(c) ==
  /\ At(c, "listEnvironments")
  /\ Goto(c, IF request[c].alias \in environments THEN Idle ELSE [request[c] EXCEPT !.step = "setAlias"])
  /\ UNCHANGED <<environments, aliases, shadowed>>

SetAlias(c) ==
  /\ At(c, "setAlias")
  /\ aliases' = [n \in DOMAIN aliases \union {request[c].alias} |->
                   IF n = request[c].alias THEN request[c].target ELSE aliases[n]]
  /\ Goto(c, Idle)
  /\ UNCHANGED <<environments, shadowed>>

BeginDelete(c, alias) ==
  /\ At(c, "idle") /\ alias \in DOMAIN aliases
  /\ Goto(c, [step |-> "deleteAlias", alias |-> alias])
  /\ UNCHANGED <<environments, aliases, shadowed>>

DeleteAlias(c) ==
  /\ At(c, "deleteAlias")
  /\ aliases' = [n \in DOMAIN aliases \ {request[c].alias} |-> aliases[n]]
  /\ Goto(c, Idle)
  /\ UNCHANGED <<environments, shadowed>>

resolveEnvironment(n) == IF n \in DOMAIN aliases THEN aliases[n] ELSE n

Next ==
  \/ \E n \in Names : createEnvironment(n)
  \/ \E c \in Clients :
       \/ \E alias, target \in Names : BeginAlias(c, alias, target)
       \/ \E alias \in Names : BeginDelete(c, alias)
       \/ ListEnvironments(c) \/ SetAlias(c) \/ DeleteAlias(c)

Spec == Init /\ [][Next]_vars

-------------------------------------------------------------------------------
\* setEnvironmentAlias rejects a name that is an environment, "so resolution is never
\* ambiguous": every environment is reached under its own name, and an alias leads to an
\* environment - unless the environment was created under a name that was an alias, or
\* was becoming one.
ResolvesToItself ==
  /\ \A n \in environments \ shadowed : resolveEnvironment(n) = n
  /\ \A n \in DOMAIN aliases : resolveEnvironment(n) \in environments
================================================================================
