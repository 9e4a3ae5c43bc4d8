-------------------------------- MODULE Taxonomy --------------------------------
(***************************************************************************)
(* The concepts of an environment and their broader concepts.  A request   *)
(* checks what it refers to in reads of its own and then writes one row;   *)
(* nothing is locked in between, and nothing keeps a row that is referred  *)
(* to from being deleted.                                                  *)
(***************************************************************************)
CONSTANTS Concepts, Clients

VARIABLES
  broader,   \* the rows: the broader concept of each concept, as a set of at most one
  fresh,     \* the ids that newId has not given out yet
  request,   \* what each client is doing
  stale      \* history: the concepts whose row was written from an outdated list

vars == <<broader, fresh, request, stale>>

Idle == [step |-> "idle"]

Init ==
  /\ broader = [c \in {} |-> {}]
  /\ fresh = Concepts
  /\ request = [k \in Clients |-> Idle]
  /\ stale = {}

Exists(c) == c \in DOMAIN broader
At(k, step) == request[k].step = step
Goto(k, q) == request' = [request EXCEPT ![k] = q]

Parent(rows, c) == IF c \in DOMAIN rows THEN rows[c] ELSE {}

\* Variant: only the direct parent is looked at.
isAcyclicBroader_Parent(c, parent, rows) == \A p \in parent : p # c /\ c \notin Parent(rows, p)

\* From the new parent upwards one comes to an end, and not back to the concept.
isAcyclicBroader(c, parent, rows) ==
  parent = {} \/ \A S \in SUBSET Concepts : parent \subseteq S =>
    \E x \in S \ {c} : Parent(rows, x) \intersect S = {}

-------------------------------------------------------------------------------
\* createConcept and setConceptBroader: the parent is read, for an existing concept
\* the whole list is read as well, and the row is upserted.
BeginCreate(k, c, parent) ==
  /\ At(k, "idle") /\ c \in fresh
  /\ \A p \in parent : Exists(p)
  /\ fresh' = fresh \ {c}
  /\ Goto(k, [step |-> "upsert", concept |-> c, parent |-> parent, listed |-> FALSE, outdated |-> FALSE])
  /\ UNCHANGED <<broader, stale>>

BeginMove(k, c, parent) ==
  /\ At(k, "idle") /\ Exists(c)
  /\ Goto(k, [step |-> "parent", concept |-> c, parent |-> parent])
  /\ UNCHANGED <<broader, fresh, stale>>

ReadParent(k) ==
  /\ At(k, "parent")
  /\ IF \A p \in request[k].parent : Exists(p)
     THEN Goto(k, [request[k] EXCEPT !.step = "list"]) ELSE Goto(k, Idle)
  /\ UNCHANGED <<broader, fresh, stale>>

ListConcepts(k) ==
  /\ At(k, "list")
  /\ IF isAcyclicBroader(request[k].concept, request[k].parent, broader)
     THEN Goto(k, [step |-> "upsert", concept |-> request[k].concept, parent |-> request[k].parent,
                   listed |-> TRUE, outdated |-> FALSE])
     ELSE Goto(k, Idle)
  /\ UNCHANGED <<broader, fresh, stale>>

\* The row comes to be, again even when it was deleted in the meantime.  What others
\* are about to write was decided on a list without it.
Upsert(k) ==
  LET c == request[k].concept IN
  /\ At(k, "upsert")
  /\ broader' = [x \in DOMAIN broader \union {c} |-> IF x = c THEN request[k].parent ELSE broader[x]]
  /\ request' = [o \in Clients |-> IF o = k THEN Idle
                                   ELSE IF At(o, "upsert") THEN [request[o] EXCEPT !.outdated = @ \/ request[o].listed]
                                   ELSE request[o]]
  /\ stale' = IF request[k].outdated THEN stale \union {c} ELSE stale \ {c}
  /\ UNCHANGED fresh

BeginDelete(k, c) ==
  /\ At(k, "idle") /\ Exists(c)
  /\ Goto(k, [step |-> "delete", concept |-> c])
  /\ UNCHANGED <<broader, fresh, stale>>

Delete(k) ==
  /\ At(k, "delete")
  /\ broader' = [x \in DOMAIN broader \ {request[k].concept} |-> broader[x]]
  /\ Goto(k, Idle)
  /\ UNCHANGED <<fresh, stale>>

Next == \E k \in Clients :
  \/ \E c \in Concepts, parent \in {{}} \union {{p} : p \in Concepts} :
       BeginCreate(k, c, parent) \/ BeginMove(k, c, parent)
  \/ \E c \in Concepts : BeginDelete(k, c)
  \/ ReadParent(k) \/ ListConcepts(k) \/ Upsert(k) \/ Delete(k)

Spec == Init /\ [][Next]_vars

-------------------------------------------------------------------------------
\* setConceptBroader "rejects a change that would create a cycle": no chain of broader
\* concepts comes back to where it began, through deleted and revived concepts too,
\* unless one of its links was decided on a list that another write had outdated.
CyclesOnlyByOverlap ==
  \A S \in SUBSET (DOMAIN broader \ stale) : S # {} => \E c \in S : broader[c] \intersect S = {}
================================================================================
