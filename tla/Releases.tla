-------------------------------- MODULE Releases --------------------------------
(***************************************************************************)
(* Releases: bundles of entries that ship in one transaction.  Requests    *)
(* check a release in one statement and change it in a later one; a        *)
(* publishing transaction reads under READ COMMITTED, locks the rows it    *)
(* writes until it ends, and the database aborts one of a ring of waiting  *)
(* transactions.                                                           *)
(***************************************************************************)
EXTENDS Integers, FiniteSets

CONSTANTS Entries, Releases,
          Clients,      \* requests under way at a time
          MaxFailures,  \* bound: transactions that fail
          MaxChanges    \* bound: items added to or removed from releases

ASSUME BoundsAssumption == MaxFailures \in Nat /\ MaxChanges \in Nat
ASSUME FiniteAssumption == IsFiniteSet(Clients)

VARIABLES
  release,    \* the status of each release row
  items,      \* the action of each entry in each release, or "none"
  live,       \* the entries with a published version
  request,    \* what each client is doing
  shipments,  \* history: how often each release was announced as published
  shipped,    \* history: the members it shipped last
  doubted,    \* history: the releases that had changed between a request's look and its act
  failures, changes

vars == <<release, items, live, request, shipments, shipped, doubted, failures, changes>>

Statuses == {"none", "open", "published", "deleted"}
Verbs == {"publish", "unpublish"}
Members == [Entries -> Verbs \union {"none"}]
Empty == [e \in Entries |-> "none"]

\* What a request executes next, the release it is about (none for a single entry) and
\* the status it saw, the members it has yet to change, those it has changed, which
\* stay locked, and the entry in hand.
Steps == {"idle", "addItem", "removeItem", "deleteItems", "deleteRelease", "listItems",
          "readEntry", "saveEntry", "saveRelease", "commit"}
Request == [step : Steps, of : SUBSET Releases, saw : Statuses, todo : Members, done : Members,
            entry : SUBSET Entries]
Idle == [step |-> "idle", of |-> {}, saw |-> "none", todo |-> Empty, done |-> Empty, entry |-> {}]

Init ==
  /\ release = [r \in Releases |-> "none"]
  /\ items = [r \in Releases |-> Empty]
  /\ live = {}
  /\ request = [c \in Clients |-> Idle]
  /\ shipments = [r \in Releases |-> 0]
  /\ shipped = [r \in Releases |-> Empty]
  /\ doubted = {}
  /\ failures = 0 /\ changes = 0

In(m) == {e \in Entries : m[e] # "none"}
At(c, step) == request[c].step = step
Becomes(c, q) == request' = [request EXCEPT ![c] = q]

\* The request acts on a status that no longer holds, or ships other members than the
\* release has.
Doubt(c) == doubted' = doubted \union
  {r \in request[c].of : release[r] # request[c].saw \/ (At(c, "commit") /\ items[r] # request[c].done)}

Look(r, step) == [Idle EXCEPT !.step = step, !.of = {r}, !.saw = release[r]]

-------------------------------------------------------------------------------
CreateRelease(r) ==
  /\ release[r] = "none"
  /\ release' = [release EXCEPT ![r] = "open"]
  /\ UNCHANGED <<items, live, request, shipments, shipped, doubted, failures, changes>>

\* addEntryToRelease, removeEntryFromRelease, deleteRelease: look at the status.
BeginChange(c, r, e, step) ==
  /\ At(c, "idle") /\ release[r] = "open"
  /\ changes < MaxChanges
  /\ changes' = changes + 1
  /\ Becomes(c, [Look(r, step) EXCEPT !.entry = {e}])
  /\ UNCHANGED <<release, items, live, shipments, shipped, doubted, failures>>

BeginDelete(c, r) ==
  /\ At(c, "idle") /\ release[r] = "open"
  /\ Becomes(c, Look(r, "deleteItems"))
  /\ UNCHANGED <<release, items, live, shipments, shipped, doubted, failures, changes>>

SetItem(c, action) ==
  /\ items' = [r \in Releases |-> IF r \in request[c].of
                 THEN [e \in Entries |-> IF e \in request[c].entry THEN action ELSE items[r][e]]
                 ELSE items[r]]
  /\ Doubt(c)
  /\ Becomes(c, Idle)
  /\ UNCHANGED <<release, live, shipments, shipped, failures, changes>>

AddItem(c) == At(c, "addItem") /\ \E action \in Verbs : SetItem(c, action)
RemoveItem(c) == At(c, "removeItem") /\ SetItem(c, "none")

DeleteItems(c) ==
  /\ At(c, "deleteItems")
  /\ items' = [r \in Releases |-> IF r \in request[c].of THEN Empty ELSE items[r]]
  /\ Doubt(c)
  /\ Becomes(c, [request[c] EXCEPT !.step = "deleteRelease"])
  /\ UNCHANGED <<release, live, shipments, shipped, failures, changes>>

\* The transactions that hold the row of an entry or of a release.
EntryHolders(E) == {c \in Clients : In(request[c].done) \intersect E # {}}
ReleaseHolders(R) ==
  {c \in Clients : At(c, "commit") /\ \E r \in R \intersect request[c].of : release[r] # "deleted"}

DeleteRelease(c) ==
  /\ At(c, "deleteRelease")
  /\ ReleaseHolders(request[c].of) = {}
  /\ release' = [r \in Releases |-> IF r \in request[c].of THEN "deleted" ELSE release[r]]
  /\ Doubt(c)
  /\ Becomes(c, Idle)
  /\ UNCHANGED <<items, live, shipments, shipped, failures, changes>>

-------------------------------------------------------------------------------
(***************************************************************************)
(* publishRelease, and publishEntry and unpublishEntry, whose transactions *)
(* are about one entry and no release.                                     *)
(***************************************************************************)
\* Variant: the status is not checked.
Shippable_Any == {r \in Releases : release[r] # "none"}

Shippable == {r \in Releases : release[r] = "open"}

BeginRelease(c, r) ==
  /\ At(c, "idle") /\ r \in Shippable
  /\ Becomes(c, Look(r, "listItems"))
  /\ UNCHANGED <<release, items, live, shipments, shipped, doubted, failures, changes>>

BeginEntry(c, e, action) ==
  /\ At(c, "idle")
  /\ Becomes(c, [Idle EXCEPT !.step = "readEntry", !.todo[e] = action])
  /\ UNCHANGED <<release, items, live, shipments, shipped, doubted, failures, changes>>

\* An empty release is refused.
ListItems(c) ==
  /\ At(c, "listItems")
  /\ \E r \in request[c].of :
       Becomes(c, IF items[r] = Empty THEN Idle
                  ELSE [request[c] EXCEPT !.step = "readEntry", !.todo = items[r]])
  /\ UNCHANGED <<release, items, live, shipments, shipped, doubted, failures, changes>>

\* Rolls back: nothing was written but under the locks, which are let go.
RollBack(c) == Becomes(c, Idle)

\* Read the next member; unpublishing one that is not published fails the release.
ReadEntry(c) ==
  /\ At(c, "readEntry")
  /\ \E e \in In(request[c].todo) :
       IF request[c].todo[e] = "unpublish" /\ e \notin live
       THEN RollBack(c)
       ELSE Becomes(c, [request[c] EXCEPT !.step = "saveEntry", !.entry = {e}])
  /\ UNCHANGED <<release, items, live, shipments, shipped, doubted, failures, changes>>

\* Write it, once no other transaction holds the row.
Written(c) ==
  LET q == request[c]
      todo == [e \in Entries |-> IF e \in q.entry THEN "none" ELSE q.todo[e]]
      done == [e \in Entries |-> IF e \in q.entry THEN q.todo[e] ELSE q.done[e]]
  IN
  /\ At(c, "saveEntry")
  /\ EntryHolders(q.entry) \subseteq {c}
  /\ Becomes(c, [q EXCEPT !.todo = todo, !.done = done, !.entry = {},
                          !.step = IF In(todo) # {} THEN "readEntry"
                                   ELSE IF q.of # {} THEN "saveRelease" ELSE "commit"])
  /\ UNCHANGED <<release, items, shipments, shipped, doubted, failures, changes>>

LiveAfter(m) == {e \in Entries : m[e] = "publish" \/ (m[e] = "none" /\ e \in live)}

\* Variant: each member is published in a transaction of its own.
SaveEntry_Autocommit(c) ==
  /\ Written(c)
  /\ live' = LiveAfter([e \in Entries |-> IF e \in request[c].entry THEN request[c].todo[e]
                                                                     ELSE "none"])

SaveEntry(c) == Written(c) /\ UNCHANGED live

SaveRelease(c) ==
  /\ At(c, "saveRelease")
  /\ ReleaseHolders(request[c].of) = {}
  /\ Becomes(c, [request[c] EXCEPT !.step = "commit"])
  /\ UNCHANGED <<release, items, live, shipments, shipped, doubted, failures, changes>>

\* A release that was deleted meanwhile has no row to update.
Commit(c) ==
  LET q == request[c] IN
  /\ At(c, "commit")
  /\ live' = LiveAfter(q.done)
  /\ release' = [r \in Releases |->
                   IF r \in q.of /\ release[r] # "deleted" THEN "published" ELSE release[r]]
  /\ shipments' = [r \in Releases |-> IF r \in q.of THEN shipments[r] + 1 ELSE shipments[r]]
  /\ shipped' = [r \in Releases |-> IF r \in q.of THEN q.done ELSE shipped[r]]
  /\ Doubt(c)
  /\ Becomes(c, Idle)
  /\ UNCHANGED <<items, failures, changes>>

\* The transactions that hold what the request is about to write.
Waits(c) ==
  CASE At(c, "saveEntry") -> EntryHolders(request[c].entry) \ {c}
    [] At(c, "saveRelease") \/ At(c, "deleteRelease") -> ReleaseHolders(request[c].of)
    [] OTHER -> {}

\* Variant: the database does not look for rings.
Deadlocked_Never(c) == FALSE

Deadlocked(c) ==
  \E S \in SUBSET Clients : c \in S /\ \A d \in S : Waits(d) \intersect S # {}

\* The database aborts a transaction of a ring.
AbortVictim(c) ==
  /\ Deadlocked(c)
  /\ RollBack(c)
  /\ UNCHANGED <<release, items, live, shipments, shipped, doubted, failures, changes>>

\* A member cannot be published (a dangling link), a statement fails, the process dies.
Fail(c) ==
  /\ ~At(c, "idle")
  /\ failures < MaxFailures
  /\ failures' = failures + 1
  /\ RollBack(c)
  /\ UNCHANGED <<release, items, live, shipments, shipped, doubted, changes>>

Go(c) == \/ AddItem(c) \/ RemoveItem(c) \/ DeleteItems(c) \/ DeleteRelease(c)
         \/ ListItems(c) \/ ReadEntry(c) \/ SaveEntry(c) \/ SaveRelease(c) \/ Commit(c)
         \/ AbortVictim(c)

Next ==
  \/ \E r \in Releases : CreateRelease(r)
  \/ \E c \in Clients :
       \/ \E r \in Releases : BeginRelease(c, r) \/ BeginDelete(c, r)
       \/ \E r \in Releases, e \in Entries, step \in {"addItem", "removeItem"} :
            BeginChange(c, r, e, step)
       \/ \E e \in Entries, action \in Verbs : BeginEntry(c, e, action)
       \/ Go(c) \/ Fail(c)

Spec == Init /\ [][Next]_vars

\* A request that is not hit by a failure goes on; the database serves the waiters of
\* a row in turn and looks for rings.
FairSpec == Spec /\ \A c \in Clients : SF_vars(Go(c))

-------------------------------------------------------------------------------
TypeOK ==
  /\ release \in [Releases -> Statuses]
  /\ items \in [Releases -> Members]
  /\ live \subseteq Entries
  /\ request \in [Clients -> Request]
  /\ shipments \in [Releases -> Nat]
  /\ shipped \in [Releases -> Members]
  /\ doubted \subseteq Releases
  /\ failures \in 0..MaxFailures /\ changes \in 0..MaxChanges

\* "the bundle is all-or-nothing": what is served changes only in a step that brings
\* every member of one transaction to its new state, and announces the release.
AllOrNothing ==
  [][\A e \in Entries : (e \in live) # (e \in live') =>
       \E c \in Clients :
         /\ request[c].done[e] # "none" /\ request[c].todo = Empty
         /\ \A m \in In(request[c].done) : (m \in live') = (request[c].done[m] = "publish")
         /\ \A r \in request[c].of : shipments'[r] > shipments[r]]_vars

\* A release ships once, with exactly the members it has from then on, and is not
\* deleted afterwards, unless it changed between a request's look at it and its act.
UndoubtedShipsOnce ==
  \A r \in Releases \ doubted :
    IF release[r] = "published" THEN shipments[r] = 1 /\ items[r] = shipped[r] /\ items[r] # Empty
                                ELSE shipments[r] = 0

\* Transactions that lock the same members in different orders do not hold each other
\* up for ever: every request ends.
RequestsEnd == \A c \in Clients : ~At(c, "idle") ~> At(c, "idle")

\* "Only an open release may ship."
OnlyOpenReleasesShip ==
  [][\A r \in Releases : shipments'[r] > shipments[r] => release[r] = "open"]_vars

===============================================================================
