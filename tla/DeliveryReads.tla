----------------------------- MODULE DeliveryReads -----------------------------
(***************************************************************************)
(* The part of the Delivery API that does not depend on the cache behind   *)
(* it: publishes commit and leave an event, readers render what they did   *)
(* not find, one query per level of links.                                 *)
(***************************************************************************)
EXTENDS DeliveryRender

CONSTANTS Readers,
          Requests,     \* bound: the keys that readers ask for
          MaxCommits    \* bound: publishes and unpublishes

ASSUME RequestsAssumption == Requests \subseteq Keys /\ MaxCommits \in Nat

VARIABLES
  served,    \* entry_published: the version served of each entry
  commits,   \* publishes and unpublishes so far
  queue,     \* relayed events not yet acknowledged
  reader     \* what each reader is doing

readVars == <<served, commits, queue, reader>>

\* A reader that renders keeps, as history, the events whose dispatch overlapped: `late`.
Idle == [step |-> "idle"]

InitReads ==
  /\ served = [e \in Entries |-> 0]
  /\ commits = 0
  /\ queue = {}
  /\ reader = [r \in Readers |-> Idle]

\* The snapshots, their reference rows and the event commit together; the relay has
\* put the event on the queue by the time a consumer can take it.
Commit(kind, S, publishes) ==
  /\ commits < MaxCommits
  /\ commits' = commits + 1
  /\ \A e \in S : publishes \/ served[e] > 0
  /\ served' = [e \in Entries |-> IF e \notin S THEN served[e]
                                  ELSE IF publishes THEN commits' ELSE 0]
  /\ queue' = queue \union {[n |-> commits', kind |-> kind, entries |-> S]}
  /\ UNCHANGED reader

CommitSome ==
  \/ \E e \in Entries, publishes \in BOOLEAN : Commit("single", {e}, publishes)
  \/ \E S \in SUBSET Entries \ {{}}, publishes \in BOOLEAN : Commit("bulk", S, publishes)

\* After a miss: the roots.  A single entry that is not published is not found.
ReadRoots(r, k) ==
  LET roots == Roots(k, served) IN
  /\ reader[r].step = "idle"
  /\ roots # {} \/ k.kind = "list"
  /\ reader' = [reader EXCEPT ![r] =
       [step |-> "read", key |-> k, value |-> [e \in roots |-> served[e]],
        frontier |-> roots, level |-> 0, late |-> {}]]
  /\ UNCHANGED <<served, commits, queue>>

\* prefetchLinked: one batched read per level, of the entries not read yet.
ReadLevel(r) ==
  LET value == reader[r].value
      fetched == (LinksOf(reader[r].frontier) \ DOMAIN value) \intersect Published(served)
  IN
  /\ reader[r].step = "read"
  /\ reader' = IF reader[r].level < Include /\ reader[r].frontier # {}
       THEN [reader EXCEPT ![r] =
               [step |-> "read", key |-> @.key, frontier |-> fetched, level |-> @.level + 1,
                value |-> [e \in DOMAIN value \union fetched |->
                             IF e \in fetched THEN served[e] ELSE value[e]],
                late |-> @.late]]
       ELSE [reader EXCEPT ![r] = [step |-> "rendered", key |-> @.key, value |-> value,
                                   tags |-> RenderTags(@.key, DOMAIN value), late |-> @.late]]
  /\ UNCHANGED <<served, commits, queue>>

GiveUp(r) ==
  /\ reader[r].step \in {"read", "rendered"}
  /\ reader' = [reader EXCEPT ![r] = Idle]
  /\ UNCHANGED <<served, commits, queue>>

\* History: `events` are being dispatched while the readers at `steps` render.
Overlap(events, steps) ==
  reader' = [r \in Readers |-> IF reader[r].step \in steps
                                 THEN [reader[r] EXCEPT !.late = @ \union events]
                                 ELSE reader[r]]

-------------------------------------------------------------------------------
Event == [n : 1..MaxCommits, kind : {"single", "bulk"}, entries : SUBSET Entries]
\* What a render shows: versions of some entries.
Shown == UNION {[S -> 1..MaxCommits] : S \in SUBSET Entries}

ReadsTypeOK ==
  /\ served \in [Entries -> 0..MaxCommits]
  /\ commits \in 0..MaxCommits
  /\ queue \subseteq {event \in Event : event.n <= commits}

Reading == [step : {"read"}, key : Requests, value : Shown, frontier : SUBSET Entries,
            level : 0..Include, late : SUBSET Event]
Rendered == [step : {"rendered"}, key : Requests, value : Shown, tags : SUBSET Tags, late : SUBSET Event]

\* The entries a cached render shows, and those that one made now would show.  The cause of
\* a difference may be one that both show alike: an entry that was published while its
\* level was being read and found on the next, too late for its own links.
Concerned(k, shown) == DOMAIN shown \union DOMAIN Render(k, served)

Touches(events, S) == \E event \in events : event.entries \intersect S # {}

===============================================================================
