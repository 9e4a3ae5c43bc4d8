---------------------------- MODULE DeliveryRender ----------------------------
(***************************************************************************)
(* What the Delivery API renders from the published snapshots, which cache *)
(* tags a render carries and which tags a change invalidates: delivery.ts  *)
(* and events/dispatch.ts, without the cache they meet in.  A snapshot is  *)
(* its version, 0 for an entry that is not published.                      *)
(***************************************************************************)
EXTENDS Naturals, FiniteSets

CONSTANTS Entries,
          Links,        \* the entries each entry's fields link to
          TypeOf,       \* the content type of each entry
          Include,      \* the reference resolution depth of every request
          MaxClosure    \* MAX_INVALIDATION_DEPTH

ASSUME RenderAssumption ==
  /\ Links \in [Entries -> SUBSET Entries]
  /\ Include \in Nat /\ MaxClosure \in Nat /\ Include <= MaxClosure

Types == {TypeOf[e] : e \in Entries}

\* Cache keys: of one entry's render, and of a type's list.
EntryKey(e) == [kind |-> "entry", of |-> e]
ListKey(t) == [kind |-> "list", of |-> t]
Keys == {EntryKey(e) : e \in Entries} \union {ListKey(t) : t \in Types}

CacheTag(e) == <<"entry", e>>
ContentTypeTag(t) == <<"ct", t>>
EpochTag == <<"epoch">>
Tags == {CacheTag(e) : e \in Entries} \union {ContentTypeTag(t) : t \in Types} \union {EpochTag}

Published(served) == {e \in Entries : served[e] > 0}

\* The roots of a render, as one query reads them.
Roots(key, served) ==
  IF key.kind = "entry" THEN {key.of} \intersect Published(served)
                        ELSE {e \in Published(served) : TypeOf[e] = key.of}

LinksOf(S) == UNION {Links[e] : e \in S}

\* Entries within `depth` links of the roots, through published entries only.
Reach(key, served, depth) ==
  LET within[n \in 0..depth] ==
        IF n = 0 THEN Roots(key, served)
                 ELSE within[n - 1] \union (LinksOf(within[n - 1]) \intersect Published(served))
  IN within[depth]

\* The render of a key from consistent snapshots: the versions it shows.
Render(key, served) == [e \in Reach(key, served, Include) |-> served[e]]

\* The tags of a render that shows the entries in `shown`.  Links that were not
\* resolved tag a list by entry; the reverse closure finds them for an entry.
RenderTags(key, shown) ==
  {EpochTag} \union
  IF key.kind = "entry"
    THEN {CacheTag(e) : e \in shown}
    ELSE {ContentTypeTag(t) : t \in {key.of} \union {TypeOf[e] : e \in shown}}
         \union {CacheTag(e) : e \in LinksOf(shown) \ shown}

\* findReverseClosure over the reference rows, which published entries have.
Embedders(e, served) ==
  LET linking(S) == {f \in Published(served) : Links[f] \intersect S # {}}
      within[n \in 0..MaxClosure] ==
        IF n = 0 THEN {} ELSE within[n - 1] \union linking(within[n - 1] \union {e})
  IN within[MaxClosure] \ {e}

\* The tags a dispatched event invalidates: of a single entry's event, those of the
\* entry, its embedders and its type; of a bulk event, the epoch.
EventTags(event, served) ==
  IF event.kind = "bulk" THEN {EpochTag}
  ELSE UNION {{CacheTag(f) : f \in {e} \union Embedders(e, served)}
                \union {ContentTypeTag(TypeOf[e])} : e \in event.entries}

===============================================================================
