----------------------------- MODULE Releases_proofs -----------------------------
(***************************************************************************)
(* What releases guarantee for any entries, releases and requests: what is *)
(* served changes by whole transactions, and a release that nobody changed *)
(* between a request's look and its act ships once, as it then stays.      *)
(***************************************************************************)
EXTENDS Releases, TLAPS

(***************************************************************************)
(* The inductive invariant.                                                *)
(***************************************************************************)
\* A request about a release found it open, has members to go through until it has
\* changed them all, and commits only after it changed one.
Prepared(q) ==
  /\ q.of # {} => q.saw = "open"
  /\ q.step = "readEntry" => In(q.todo) # {}
  /\ q.step = "saveEntry" => q.entry # {} /\ q.entry \subseteq In(q.todo)
  /\ q.step \in {"saveRelease", "commit"} => In(q.todo) = {} /\ In(q.done) # {}

AllPrepared == \A c \in Clients : Prepared(request[c])

Inv == TypeOK /\ AllPrepared /\ UndoubtedShipsOnce

-------------------------------------------------------------------------------
(***************************************************************************)
(* Requests.                                                               *)
(***************************************************************************)
LEMMA IdlePrepared == Idle \in Request /\ Prepared(Idle)
  BY DEF Idle, Request, Steps, Statuses, Members, Verbs, Empty, Prepared

LEMMA EmptyMembers == Empty \in Members /\ \A m \in Members : In(m) = {} <=> m = Empty
<1>1. Empty \in Members
  BY DEF Empty, Members, Verbs
<1>2. ASSUME NEW m \in Members, In(m) = {} PROVE m = Empty
  BY <1>2 DEF Members, In, Empty
<1>3. In(Empty) = {}
  BY DEF In, Empty
<1> QED BY <1>1, <1>2, <1>3

\* A request about a release that is open now.
LEMMA LookPrepared ==
  ASSUME TypeOK, NEW r \in Releases, release[r] = "open", NEW E \in SUBSET Entries,
         NEW step \in {"addItem", "removeItem", "deleteItems", "listItems"}
  PROVE  /\ Look(r, step) \in Request /\ Prepared(Look(r, step))
         /\ [Look(r, step) EXCEPT !.entry = E] \in Request
         /\ Prepared([Look(r, step) EXCEPT !.entry = E])
<1>1. step \in Steps /\ "open" \in Statuses
  BY DEF Steps, Statuses
<1>2. Look(r, step) \in Request /\ Look(r, step).step = step /\ Look(r, step).saw = "open"
  BY <1>1, IdlePrepared DEF Look, Request
<1> DEFINE q == [Look(r, step) EXCEPT !.entry = E]
<1>3. q \in Request /\ q.step = step /\ q.saw = "open"
  BY <1>2 DEF Request
<1> HIDE DEF q
<1>4. Prepared(Look(r, step)) /\ Prepared(q)
  BY <1>2, <1>3 DEF Prepared
<1> QED BY <1>2, <1>3, <1>4 DEF q

LEMMA ListPrepared ==
  ASSUME NEW q \in Request, Prepared(q), q.step = "listItems", NEW m \in Members, m # Empty
  PROVE  /\ [q EXCEPT !.step = "readEntry", !.todo = m] \in Request
         /\ Prepared([q EXCEPT !.step = "readEntry", !.todo = m])
<1> DEFINE p == [q EXCEPT !.step = "readEntry", !.todo = m]
<1>1. p \in Request /\ p.step = "readEntry" /\ p.of = q.of /\ p.saw = q.saw /\ p.todo = m
  BY DEF Request, Steps
<1> HIDE DEF p
<1>2. Prepared(p)
  BY <1>1, EmptyMembers DEF Prepared
<1> QED BY <1>1, <1>2 DEF p

LEMMA ReadPrepared ==
  ASSUME NEW q \in Request, Prepared(q), NEW e \in In(q.todo)
  PROVE  /\ [q EXCEPT !.step = "saveEntry", !.entry = {e}] \in Request
         /\ Prepared([q EXCEPT !.step = "saveEntry", !.entry = {e}])
<1> DEFINE p == [q EXCEPT !.step = "saveEntry", !.entry = {e}]
<1>1. /\ p \in Request /\ p.step = "saveEntry" /\ p.of = q.of /\ p.saw = q.saw /\ p.todo = q.todo
      /\ p.entry = {e}
  BY DEF Request, Steps, In
<1> HIDE DEF p
<1>2. Prepared(p)
  BY <1>1 DEF Prepared
<1> QED BY <1>1, <1>2 DEF p

\* The members that a request has yet to change, and those it has, once it wrote one.
Todo(q) == [e \in Entries |-> IF e \in q.entry THEN "none" ELSE q.todo[e]]
Done(q) == [e \in Entries |-> IF e \in q.entry THEN q.todo[e] ELSE q.done[e]]
Wrote(q) ==
  [q EXCEPT !.todo = Todo(q), !.done = Done(q), !.entry = {},
            !.step = IF In(Todo(q)) # {} THEN "readEntry" ELSE IF q.of # {} THEN "saveRelease" ELSE "commit"]

LEMMA WrotePrepared ==
  ASSUME NEW q \in Request, Prepared(q), q.step = "saveEntry"
  PROVE  Wrote(q) \in Request /\ Prepared(Wrote(q))
<1>1. Todo(q) \in Members /\ Done(q) \in Members
  BY DEF Todo, Done, Request, Members
<1>2. In(Done(q)) # {}
  <2>1. PICK e : e \in q.entry /\ e \in In(q.todo)
    BY DEF Prepared
  <2>2. e \in In(Done(q))
    BY <2>1 DEF In, Done
  <2> QED BY <2>2
<1> DEFINE step == IF In(Todo(q)) # {} THEN "readEntry" ELSE IF q.of # {} THEN "saveRelease" ELSE "commit"
<1>3. step \in Steps /\ step # "saveEntry" /\ (step = "readEntry" <=> In(Todo(q)) # {})
  BY DEF Steps
<1> HIDE DEF step
<1>4. Wrote(q) = [q EXCEPT !.todo = Todo(q), !.done = Done(q), !.entry = {}, !.step = step]
  BY DEF Wrote, step
<1>5. /\ Wrote(q) \in Request /\ Wrote(q).step = step /\ Wrote(q).todo = Todo(q) /\ Wrote(q).done = Done(q)
      /\ Wrote(q).of = q.of /\ Wrote(q).saw = q.saw
  BY <1>1, <1>3, <1>4 DEF Request
<1> QED BY <1>2, <1>3, <1>5 DEF Prepared

LEMMA StepPrepared ==
  ASSUME NEW q \in Request, Prepared(q)
  PROVE  /\ [q EXCEPT !.step = "deleteRelease"] \in Request /\ Prepared([q EXCEPT !.step = "deleteRelease"])
         /\ [q EXCEPT !.step = "commit"] \in Request
         /\ q.step = "saveRelease" => Prepared([q EXCEPT !.step = "commit"])
  BY DEF Request, Steps, Prepared

LEMMA EntryPrepared ==
  ASSUME NEW e \in Entries, NEW action \in Verbs
  PROVE  /\ [Idle EXCEPT !.step = "readEntry", !.todo[e] = action] \in Request
         /\ Prepared([Idle EXCEPT !.step = "readEntry", !.todo[e] = action])
<1> DEFINE m == [Empty EXCEPT ![e] = action]
           p == [Idle EXCEPT !.step = "readEntry", !.todo[e] = action]
<1>1. m \in Members /\ m[e] # "none"
  BY DEF Empty, Members, Verbs
<1>2. p = [Idle EXCEPT !.step = "readEntry", !.todo = m]
  BY DEF Idle
<1>3. In(m) # {}
  BY <1>1 DEF In
<1> HIDE DEF m, p
<1>4. p \in Request /\ p.step = "readEntry" /\ p.todo = m /\ p.of = {}
  <2>1. Idle.of = {} /\ "readEntry" \in Steps
    BY DEF Idle, Steps
  <2> QED BY <1>1, <1>2, <2>1, IdlePrepared DEF Request
<1>5. Prepared(p)
  BY <1>3, <1>4 DEF Prepared
<1> QED BY <1>4, <1>5 DEF p

\* Each step puts one request at a next point, which is well prepared.
LEMMA NextRequest ==
  ASSUME TypeOK, AllPrepared, Next
  PROVE  \/ request' = request
         \/ \E c \in Clients, q \in Request : Prepared(q) /\ request' = [request EXCEPT ![c] = q]
<1> USE DEF Becomes, RollBack
<1> DEFINE Goes(c) == \E q \in Request : Prepared(q) /\ request' = [request EXCEPT ![c] = q]
<1>0. \A c \in Clients : request[c] \in Request /\ Prepared(request[c])
  BY DEF TypeOK, AllPrepared
<1>1. ASSUME NEW c \in Clients, NEW r \in Releases, BeginRelease(c, r) \/ BeginDelete(c, r) PROVE Goes(c)
  BY <1>1, LookPrepared DEF BeginRelease, BeginDelete, Shippable
<1>2. ASSUME NEW c \in Clients, NEW r \in Releases, NEW e \in Entries, NEW step \in {"addItem", "removeItem"},
             BeginChange(c, r, e, step)
      PROVE  Goes(c)
  BY <1>2, LookPrepared DEF BeginChange
<1>3. ASSUME NEW c \in Clients, NEW e \in Entries, NEW action \in Verbs, BeginEntry(c, e, action) PROVE Goes(c)
  BY <1>3, EntryPrepared DEF BeginEntry
<1>4. ASSUME NEW c \in Clients, AddItem(c) \/ RemoveItem(c) \/ DeleteRelease(c) \/ Commit(c) \/ AbortVictim(c) \/ Fail(c)
      PROVE  Goes(c)
  BY <1>4, IdlePrepared DEF AddItem, RemoveItem, SetItem, DeleteRelease, Commit, AbortVictim, Fail
<1>5. ASSUME NEW c \in Clients, DeleteItems(c) \/ SaveRelease(c) PROVE Goes(c)
  BY <1>0, <1>5, StepPrepared DEF DeleteItems, SaveRelease, At
<1>6. ASSUME NEW c \in Clients, ListItems(c) PROVE Goes(c)
  <2>1. PICK r \in request[c].of :
          request' = [request EXCEPT ![c] = IF items[r] = Empty THEN Idle
                        ELSE [request[c] EXCEPT !.step = "readEntry", !.todo = items[r]]]
    BY <1>6 DEF ListItems
  <2>2. items[r] \in Members /\ request[c].step = "listItems"
    BY <1>0, <1>6 DEF TypeOK, Request, ListItems, At
  <2> QED BY <1>0, <2>1, <2>2, IdlePrepared, ListPrepared
<1>7. ASSUME NEW c \in Clients, ReadEntry(c) PROVE Goes(c)
  BY <1>0, <1>7, IdlePrepared, ReadPrepared DEF ReadEntry
<1>8. ASSUME NEW c \in Clients, SaveEntry(c) PROVE Goes(c)
  <2>1. request[c].step = "saveEntry" /\ request' = [request EXCEPT ![c] = Wrote(request[c])]
    BY <1>8 DEF SaveEntry, Written, At, Wrote, Todo, Done
  <2> QED BY <1>0, <2>1, WrotePrepared
<1>9. ASSUME NEW r \in Releases, CreateRelease(r) PROVE request' = request
  BY <1>9 DEF CreateRelease
<1> QED
  BY <1>1, <1>2, <1>3, <1>4, <1>5, <1>6, <1>7, <1>8, <1>9 DEF Next, Go

LEMMA RequestStep ==
  ASSUME TypeOK, AllPrepared, [Next]_vars
  PROVE  request' \in [Clients -> Request] /\ AllPrepared'
<1>1. CASE request' = request
  BY <1>1 DEF TypeOK, AllPrepared
<1>2. ASSUME NEW c \in Clients, NEW q \in Request, Prepared(q), request' = [request EXCEPT ![c] = q]
      PROVE  request' \in [Clients -> Request] /\ AllPrepared'
  BY <1>2 DEF TypeOK, AllPrepared
<1> QED BY <1>1, <1>2, NextRequest DEF vars

LEMMA TypeStep == TypeOK /\ AllPrepared /\ [Next]_vars => TypeOK'
<1> SUFFICES ASSUME TypeOK, AllPrepared, [Next]_vars PROVE TypeOK'
  OBVIOUS
<1>0. request' \in [Clients -> Request]
  BY RequestStep
<1> USE DEF TypeOK
<1>1. ASSUME NEW r \in Releases, CreateRelease(r) PROVE TypeOK'
  BY <1>1 DEF CreateRelease, Statuses
<1>2. ASSUME NEW c \in Clients, NEW r \in Releases, NEW e \in Entries, NEW step, BeginChange(c, r, e, step)
      PROVE  TypeOK'
  <2>1. changes + 1 \in 0..MaxChanges
    BY <1>2, BoundsAssumption DEF BeginChange
  <2> QED BY <1>0, <1>2, <2>1 DEF BeginChange
<1>3. ASSUME NEW c \in Clients, DeleteItems(c) \/ AddItem(c) \/ RemoveItem(c) PROVE TypeOK'
  <2>1. doubted' \subseteq Releases
    BY <1>3 DEF DeleteItems, AddItem, RemoveItem, SetItem, Doubt, Request
  <2>2. items' \in [Releases -> Members]
    <3>1. \A action \in Verbs \union {"none"}, r \in Releases :
            [e \in Entries |-> IF e \in request[c].entry THEN action ELSE items[r][e]] \in Members
      BY DEF Members
    <3>2. CASE DeleteItems(c)
      BY <3>2, EmptyMembers DEF DeleteItems
    <3>3. CASE AddItem(c) \/ RemoveItem(c)
      <4>1. PICK action \in Verbs \union {"none"} : SetItem(c, action)
        BY <3>3 DEF AddItem, RemoveItem
      <4> QED BY <3>1, <4>1 DEF SetItem
    <3> QED BY <1>3, <3>2, <3>3
  <2> QED BY <1>0, <1>3, <2>1, <2>2 DEF DeleteItems, AddItem, RemoveItem, SetItem
<1>4. ASSUME NEW c \in Clients, DeleteRelease(c) PROVE TypeOK'
  BY <1>0, <1>4 DEF DeleteRelease, Doubt, Request, Statuses
<1>5. ASSUME NEW c \in Clients, Commit(c) PROVE TypeOK'
  <2>1. request[c] \in Request /\ request[c].done \in Members
    BY DEF Request
  <2> QED BY <1>0, <1>5, <2>1 DEF Commit, Doubt, LiveAfter, Request, Statuses
<1>6. ASSUME NEW c \in Clients, Fail(c) PROVE TypeOK'
  <2>1. failures + 1 \in 0..MaxFailures
    BY <1>6, BoundsAssumption DEF Fail
  <2> QED BY <1>0, <1>6, <2>1 DEF Fail
<1>7. ASSUME UNCHANGED <<release, items, live, shipments, shipped, doubted, failures, changes>> PROVE TypeOK'
  BY <1>0, <1>7
<1> QED
  BY <1>1, <1>2, <1>3, <1>4, <1>5, <1>6, <1>7 DEF Next, Go, vars, BeginRelease, BeginDelete, BeginEntry,
     ListItems, ReadEntry, SaveEntry, Written, SaveRelease, AbortVictim

-------------------------------------------------------------------------------
(***************************************************************************)
(* Shipping.                                                               *)
(***************************************************************************)
LEMMA ShipsOnceStep == Inv /\ [Next]_vars => UndoubtedShipsOnce'
<1> SUFFICES ASSUME Inv, [Next]_vars, NEW r \in Releases \ doubted'
             PROVE  IF release'[r] = "published"
                    THEN shipments'[r] = 1 /\ items'[r] = shipped'[r] /\ items'[r] # Empty
                    ELSE shipments'[r] = 0
  BY DEF UndoubtedShipsOnce
<1> USE DEF Inv
<1> DEFINE Goal == IF release'[r] = "published"
                   THEN shipments'[r] = 1 /\ items'[r] = shipped'[r] /\ items'[r] # Empty
                   ELSE shipments'[r] = 0
<1>1. r \in Releases /\ r \notin doubted
  BY DEF Next, Go, vars, CreateRelease, BeginRelease, BeginChange, BeginDelete, BeginEntry, AddItem,
     RemoveItem, SetItem, DeleteItems, DeleteRelease, ListItems, ReadEntry, SaveEntry, Written,
     SaveRelease, Commit, AbortVictim, Fail, Doubt
<1>2. IF release[r] = "published" THEN shipments[r] = 1 /\ items[r] = shipped[r] /\ items[r] # Empty
                                  ELSE shipments[r] = 0
  BY <1>1 DEF UndoubtedShipsOnce
\* A request that acts on the release without doubt finds it open, as it did before.
<1>3. ASSUME NEW c \in Clients, Doubt(c), r \in request[c].of
      PROVE  release[r] = "open" /\ (request[c].step = "commit" => items[r] = request[c].done)
  BY <1>1, <1>3 DEF Doubt, At, AllPrepared, Prepared
<1>4. ASSUME NEW s \in Releases, CreateRelease(s) PROVE Goal
  BY <1>1, <1>2, <1>4 DEF CreateRelease, TypeOK
<1>5. ASSUME NEW c \in Clients, AddItem(c) \/ RemoveItem(c) \/ DeleteItems(c) PROVE Goal
  <2>1. /\ Doubt(c) /\ UNCHANGED <<release, shipments, shipped>>
        /\ r \notin request[c].of => items'[r] = items[r]
    BY <1>1, <1>5 DEF AddItem, RemoveItem, SetItem, DeleteItems
  <2> QED BY <1>2, <1>3, <2>1
<1>6. ASSUME NEW c \in Clients, DeleteRelease(c) PROVE Goal
  <2>1. /\ Doubt(c) /\ UNCHANGED <<items, shipments, shipped>>
        /\ release'[r] = IF r \in request[c].of THEN "deleted" ELSE release[r]
    BY <1>1, <1>6 DEF DeleteRelease
  <2> QED BY <1>2, <1>3, <2>1
<1>7. ASSUME NEW c \in Clients, Commit(c) PROVE Goal
  <2>1. Doubt(c) /\ request[c].step = "commit" /\ items' = items
    BY <1>7 DEF Commit, At
  <2>2. IF r \in request[c].of
        THEN /\ release'[r] = IF release[r] # "deleted" THEN "published" ELSE release[r]
             /\ shipments'[r] = shipments[r] + 1 /\ shipped'[r] = request[c].done
        ELSE release'[r] = release[r] /\ shipments'[r] = shipments[r] /\ shipped'[r] = shipped[r]
    BY <1>1, <1>7 DEF Commit
  <2>3. CASE r \in request[c].of
    <3>1. release[r] = "open" /\ items[r] = request[c].done
      BY <1>3, <2>1, <2>3
    <3>2. request[c].done # Empty
      BY <2>1, EmptyMembers DEF AllPrepared, Prepared, TypeOK, Request
    <3> QED BY <1>2, <2>1, <2>2, <2>3, <3>1, <3>2
  <2> QED BY <1>2, <2>1, <2>2, <2>3
<1>8. ASSUME UNCHANGED <<release, items, shipments, shipped>> PROVE Goal
  BY <1>2, <1>8
<1> QED
  BY <1>4, <1>5, <1>6, <1>7, <1>8 DEF Next, Go, vars, BeginRelease, BeginChange, BeginDelete, BeginEntry,
     ListItems, ReadEntry, SaveEntry, Written, SaveRelease, AbortVictim, Fail

LEMMA InvInit == Init => Inv
<1> SUFFICES ASSUME Init PROVE Inv
  OBVIOUS
<1>1. TypeOK
  BY IdlePrepared, EmptyMembers, BoundsAssumption DEF Init, TypeOK, Statuses
<1>2. AllPrepared
  BY IdlePrepared DEF Init, AllPrepared
<1>3. UndoubtedShipsOnce
  BY DEF Init, UndoubtedShipsOnce
<1> QED BY <1>1, <1>2, <1>3 DEF Inv

LEMMA InvStep == Inv /\ [Next]_vars => Inv'
  BY TypeStep, RequestStep, ShipsOnceStep DEF Inv

LEMMA InvAlways == Spec => []Inv
  BY InvInit, InvStep, PTL DEF Spec

\* A release that no request found changed when it acted is announced as published once,
\* with the members it keeps from then on, and stays.
THEOREM ShipsOnceUnlessDoubted == Spec => []UndoubtedShipsOnce
  BY InvAlways, PTL DEF Inv

\* What one step does to what is served.
Whole ==
  \A e \in Entries : (e \in live) # (e \in live') =>
    \E c \in Clients :
      /\ request[c].done[e] # "none" /\ request[c].todo = Empty
      /\ \A m \in In(request[c].done) : (m \in live') = (request[c].done[m] = "publish")
      /\ \A r \in request[c].of : shipments'[r] > shipments[r]

LEMMA CommitWhole ==
  ASSUME Inv, NEW c \in Clients, Commit(c), NEW e \in Entries, (e \in live) # (e \in live')
  PROVE  /\ request[c].done[e] # "none" /\ request[c].todo = Empty
         /\ \A m \in In(request[c].done) : (m \in live') = (request[c].done[m] = "publish")
         /\ \A r \in request[c].of : shipments'[r] > shipments[r]
<1> USE DEF Inv
<1>1. request[c] \in Request /\ request[c].step = "commit"
  BY DEF TypeOK, Commit, At
<1>2. request[c].todo = Empty
  BY <1>1, EmptyMembers DEF AllPrepared, Prepared, Request
<1>3. \A m \in Entries : m \in live' <=> request[c].done[m] = "publish" \/ (request[c].done[m] = "none" /\ m \in live)
  BY DEF Commit, LiveAfter
<1>4. \A m \in In(request[c].done) : m \in Entries /\ request[c].done[m] # "none"
  BY DEF In
<1>5. \A r \in request[c].of : r \in Releases /\ shipments[r] \in Nat /\ shipments'[r] = shipments[r] + 1
  BY <1>1 DEF TypeOK, Request, Commit
<1>6. \A r \in request[c].of : shipments'[r] > shipments[r]
  BY <1>5
<1> QED BY <1>2, <1>3, <1>4, <1>6

\* "The bundle is all-or-nothing", whatever else is under way: what is served changes by
\* all the members of one transaction, together with the announcement of its release.
THEOREM AlwaysAllOrNothing == Spec => AllOrNothing
<1>1. Inv /\ [Next]_vars => [Whole]_vars
  <2> SUFFICES ASSUME Inv, Next PROVE Whole
    BY DEF vars
  <2>1. ASSUME NEW c \in Clients, Commit(c) PROVE Whole
    BY <2>1, CommitWhole DEF Whole
  <2>2. ASSUME live' = live PROVE Whole
    BY <2>2 DEF Whole
  <2> QED
    BY <2>1, <2>2 DEF Next, Go, CreateRelease, BeginRelease, BeginChange, BeginDelete, BeginEntry, AddItem,
       RemoveItem, SetItem, DeleteItems, DeleteRelease, ListItems, ReadEntry, SaveEntry, SaveRelease,
       AbortVictim, Fail
<1> QED BY <1>1, InvAlways, PTL DEF Spec, AllOrNothing, Whole
===============================================================================
