----------------------------- MODULE OfflineSync -----------------------------
(***************************************************************************)
(* The offline store of the React Native SDK: sync() pages through what    *)
(* was published since its cursor and keeps it on the device, reset()      *)
(* drops it.  Every await is a step, so calls interleave with each other   *)
(* and with publishes; the app may be killed between any two.              *)
(***************************************************************************)
EXTENDS Integers, FiniteSets, SequencesExt

CONSTANTS
  Entries,    \* published entries of the content type; their ids are ordered
  Calls,      \* calls of sync() and reset()
  PageSize,   \* pageSize
  MaxPage,    \* MAX_PAGE_LIMIT of the delivery API
  MaxTime,    \* bound: publish instants
  MaxActs     \* bound: transactions, resets, kills and failures

OfflineAssumption ==
  Entries \subseteq Nat /\ PageSize \in 1..MaxPage /\ {MaxPage, MaxTime, MaxActs} \subseteq Nat

VARIABLES
  published,   \* published_entries: the instant of each entry, or 0
  committing,  \* transactions that took an instant and have not committed: [entries, at]
  now,         \* the last instant taken
  device,      \* storage: entries (by the instant they were published), index, cursor
  call,        \* what each call is doing
  excused,     \* history: the entries that an overlap kept from the device
  acts

vars == <<published, committing, now, device, call, excused, acts>>

Idle == [step |-> "idle"]
Empty == [entries |-> [e \in Entries |-> 0], index |-> {}, cursor |-> 0]

Init ==
  /\ published \in [Entries -> 0..1]
  /\ committing = {}
  /\ now = 1
  /\ device = Empty
  /\ call = [c \in Calls |-> Idle]
  /\ excused = {}
  /\ acts = 0

Largest(S) == CHOOSE x \in S \union {0} : \A y \in S : y <= x

-------------------------------------------------------------------------------
(***************************************************************************)
(* listPublished of one content type.                                      *)
(***************************************************************************)
Row(e) == [id |-> e, at |-> published[e]]
Before(a, b) == a.at < b.at \/ (a.at = b.at /\ a.id < b.id)

\* The rows after `since` in the default order, (publishedAt, entryId).
Rows(since) == SetToSortSeq({Row(e) : e \in {x \in Entries : published[x] > since}}, Before)

\* limit and offset of a request, the limit clamped by the API.
Clamped(limit) == IF limit > MaxPage THEN MaxPage ELSE limit
ReadPage(since, skip) ==
  LET rows == Rows(since)
      last == skip + Clamped(PageSize)
  IN SubSeq(rows, skip + 1, IF last > Len(rows) THEN Len(rows) ELSE last)

-------------------------------------------------------------------------------
(***************************************************************************)
(* The server.  A transaction takes its instant, shared by a batch, and    *)
(* commits later.                                                          *)
(***************************************************************************)
Syncing == {c \in Calls : call[c].step \in {"fetch", "read", "entries", "cursor"}}
Fetched(c) == IF c \in Syncing THEN ToSet(call[c].got) ELSE {}
Reached(c) == Largest({r.at : r \in Fetched(c)})

\* The entries that a sync in flight will pass without having fetched them: rows that now lie
\* before its offset, and after the last page those up to where its cursor goes.
Passed(c) ==
  IF c \notin Syncing THEN {}
  ELSE LET rows == Rows(call[c].since)
           gone == IF call[c].step = "fetch"
                   THEN {rows[i] : i \in {j \in DOMAIN rows : j <= call[c].skip}}
                   ELSE {r \in ToSet(rows) : r.at <= Reached(c)}
       IN {r.id : r \in gone \ Fetched(c)}

\* The entries that committed behind a cursor that was stored or read, or behind a later row of
\* their own that was fetched.
Late == {e \in Entries :
           /\ published'[e] # 0 /\ published'[e] # published[e]
           /\ \/ \E at \in {device.cursor} \union {call[c].since : c \in Syncing} : published'[e] <= at
              \/ \E r \in UNION {Fetched(c) : c \in Calls} : r.id = e /\ r.at > published'[e]
              \/ device.entries[e] > published'[e]}

Excuse == excused' = excused \union Late \union UNION {Passed(c)' : c \in Calls}

Begin(S) ==
  /\ S # {} /\ acts < MaxActs
  /\ now' \in {now, now + 1} /\ now' <= MaxTime
  /\ committing' = committing \union {[entries |-> S, at |-> now']}
  /\ acts' = acts + 1
  /\ UNCHANGED <<published, device, call, excused>>

Commit(t) ==
  /\ published' = [e \in Entries |-> IF e \in t.entries THEN t.at ELSE published[e]]
  /\ committing' = committing \ {t}
  /\ UNCHANGED <<now, device, call, acts>>
  /\ Excuse

Unpublish(e) ==
  /\ published[e] # 0 /\ acts < MaxActs
  /\ published' = [published EXCEPT ![e] = 0]
  /\ acts' = acts + 1
  /\ UNCHANGED <<committing, now, device, call>>
  /\ Excuse

-------------------------------------------------------------------------------
(***************************************************************************)
(* sync().  `beside` (history): another call was in flight meanwhile.      *)
(***************************************************************************)
Running == {c \in Calls : call[c].step # "idle"}
Goes(c, step) == call' = [call EXCEPT ![c].step = step]

Start(c, new) ==
  /\ call[c] = Idle
  /\ call' = [d \in Calls |-> IF d = c THEN new @@ [beside |-> Running # {}]
                              ELSE IF d \in Running THEN [call[d] EXCEPT !.beside = TRUE] ELSE Idle]
  /\ UNCHANGED <<published, committing, now, device, excused>>

StartSync(c) ==
  /\ Start(c, [step |-> "fetch", since |-> device.cursor, skip |-> 0, got |-> <<>>])
  /\ UNCHANGED acts

FetchPage(c) ==
  LET answer == ReadPage(call[c].since, call[c].skip)
      more == Len(answer) >= PageSize
  IN /\ call[c].step = "fetch"
     /\ call' = [call EXCEPT ![c] =
          [@ EXCEPT !.got = @ \o answer,
                    !.skip = IF more THEN @ + PageSize ELSE 0,
                    !.step = IF more THEN "fetch" ELSE "read"]]
     /\ UNCHANGED <<published, committing, now, device, excused, acts>>

ReadIndex(c) ==
  /\ call[c].step = "read"
  /\ call' = [call EXCEPT ![c] = [@ EXCEPT !.step = "entries"]
                                 @@ [index |-> device.index, left |-> call[c].got]]
  /\ UNCHANGED <<published, committing, now, device, excused, acts>>

\* Variant: the cursor is stored with every entry.
WriteEntry_Advancing(c) ==
  /\ call[c].step = "entries" /\ call[c].left # <<>>
  /\ LET r == Head(call[c].left) IN
     /\ device' = [device EXCEPT !.entries[r.id] = r.at, !.cursor = Largest({@, r.at})]
     /\ call' = [call EXCEPT ![c] = [@ EXCEPT !.left = Tail(@), !.index = @ \union {r.id}]]
  /\ UNCHANGED <<published, committing, now, excused, acts>>

WriteEntry(c) ==
  /\ call[c].step = "entries" /\ call[c].left # <<>>
  /\ LET r == Head(call[c].left) IN
     /\ device' = [device EXCEPT !.entries[r.id] = r.at]
     /\ call' = [call EXCEPT ![c] = [@ EXCEPT !.left = Tail(@), !.index = @ \union {r.id}]]
     /\ excused' = IF call[c].beside /\ r.at < device.entries[r.id] THEN excused \union {r.id} ELSE excused
  /\ UNCHANGED <<published, committing, now, acts>>

WriteIndex(c) ==
  /\ call[c].step = "entries" /\ call[c].left = <<>>
  /\ device' = [device EXCEPT !.index = call[c].index]
  /\ Goes(c, "cursor")
  /\ excused' = IF call[c].beside THEN excused \union (device.index \ call[c].index) ELSE excused
  /\ UNCHANGED <<published, committing, now, acts>>

WriteCursor(c) ==
  /\ call[c].step = "cursor" /\ c \in Syncing
  /\ LET cursor == Largest({call[c].since, Reached(c)}) IN
     device' = IF cursor = 0 THEN device ELSE [device EXCEPT !.cursor = cursor]
  /\ call' = [call EXCEPT ![c] = Idle]
  /\ UNCHANGED <<published, committing, now, excused, acts>>

-------------------------------------------------------------------------------
(***************************************************************************)
(* reset(), and what ends calls half-way: the app is killed, or a request  *)
(* or the storage fails.                                                   *)
(***************************************************************************)
StartReset(c) ==
  /\ acts < MaxActs /\ acts' = acts + 1
  /\ Start(c, [step |-> "clear", left |-> device.index])

RemoveEntry(c) ==
  /\ call[c].step = "clear"
  /\ \E e \in call[c].left :
       /\ device' = [device EXCEPT !.entries[e] = 0]
       /\ call' = [call EXCEPT ![c].left = @ \ {e}]
       /\ excused' = excused \union {e}
  /\ UNCHANGED <<published, committing, now, acts>>

RemoveIndex(c) ==
  /\ call[c].step = "clear" /\ call[c].left = {}
  /\ device' = [device EXCEPT !.index = {}]
  /\ Goes(c, "forget")
  /\ excused' = excused \union device.index
  /\ UNCHANGED <<published, committing, now, acts>>

RemoveCursor(c) ==
  /\ call[c].step = "forget"
  /\ device' = [device EXCEPT !.cursor = 0]
  /\ call' = [call EXCEPT ![c] = Idle]
  /\ excused' = IF Running = {c} THEN {} ELSE excused
  /\ UNCHANGED <<published, committing, now, acts>>

Stop ==
  /\ Running # {} /\ acts < MaxActs
  /\ \E S \in {{c} : c \in Running} \union {Running} :
       call' = [c \in Calls |-> IF c \in S THEN Idle ELSE call[c]]
  /\ acts' = acts + 1
  /\ UNCHANGED <<published, committing, now, device, excused>>

Next ==
  \/ \E S \in SUBSET Entries : Begin(S)
  \/ \E t \in committing : Commit(t)
  \/ \E e \in Entries : Unpublish(e)
  \/ \E c \in Calls :
       \/ StartSync(c) \/ FetchPage(c) \/ ReadIndex(c)
       \/ WriteEntry(c) \/ WriteIndex(c) \/ WriteCursor(c)
       \/ StartReset(c) \/ RemoveEntry(c) \/ RemoveIndex(c) \/ RemoveCursor(c)
  \/ Stop

Spec == Init /\ [][Next]_vars

-------------------------------------------------------------------------------
(***************************************************************************)
(* What the cursor passed is on the device, in the version that is served, *)
(* unless the pages of a sync moved under it, its transaction committed    *)
(* behind the cursor, another call ran beside the sync, or a reset did not *)
(* come to its end.  A sync that fails or is killed loses nothing.         *)
(***************************************************************************)
MissedForCause ==
  \A e \in Entries :
    published[e] \in 1..device.cursor /\ e \notin excused
      => e \in device.index /\ device.entries[e] = published[e]
==============================================================================
