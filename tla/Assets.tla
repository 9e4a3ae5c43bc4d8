--------------------------------- MODULE Assets ---------------------------------
(***************************************************************************)
(* Assets: a draft row, and the snapshot that delivery serves.  Publishing *)
(* reads the row and writes row, snapshot and event in one transaction,    *)
(* whose first write locks the row; a metadata edit reads the row and      *)
(* writes all of it back in a later statement.                             *)
(***************************************************************************)
EXTENDS Naturals

CONSTANTS Assets, Clients,
          MaxEdits     \* bound: metadata edits

VARIABLES
  asset,     \* the row of each asset: its status and, of alt text and tags, the edit
             \* that set them
  served,    \* the metadata in each snapshot, as a set of at most one
  edits,     \* the edits begun so far
  told,      \* the last event of each asset
  request,   \* what each client is doing
  undone     \* history: the assets an edit of which wrote back a status that had changed

vars == <<asset, served, edits, told, request, undone>>

Idle == [step |-> "idle"]
emptyAssetMetadata == [altText |-> 0, tags |-> 0]

Init ==
  /\ asset = [a \in Assets |-> [status |-> "none", metadata |-> emptyAssetMetadata]]
  /\ served = [a \in Assets |-> {}]
  /\ edits = 0
  /\ told = [a \in Assets |-> "none"]
  /\ request = [c \in Clients |-> Idle]
  /\ undone = {}

At(c, step) == request[c].step = step
Goto(c, q) == request' = [request EXCEPT ![c] = q]

-------------------------------------------------------------------------------
createAsset(a) ==
  /\ asset[a].status = "none"
  /\ asset' = [asset EXCEPT ![a].status = "draft"]
  /\ UNCHANGED <<served, edits, told, request, undone>>

\* publishAsset, unpublishAsset and setAssetMetadata begin with assets.get; what is not
\* published is not unpublished.
Begin(c, a, step) ==
  /\ At(c, "idle") /\ asset[a].status # "none"
  /\ step = "unpublished" => asset[a].status = "published"
  /\ edits < MaxEdits
  /\ edits' = IF step \in {"altText", "tags"} THEN edits + 1 ELSE edits
  /\ Goto(c, [step |-> step, asset |-> a, row |-> asset[a], edit |-> edits'])
  /\ UNCHANGED <<asset, served, told, undone>>

\* One transaction: the row as it was read, the snapshot made from it, and the event.
PublishAsset(c) ==
  LET a == request[c].asset
      row == [request[c].row EXCEPT !.status = "published"] IN
  /\ At(c, "published")
  /\ asset' = [asset EXCEPT ![a] = row]
  /\ served' = [served EXCEPT ![a] = {row.metadata}]
  /\ told' = [told EXCEPT ![a] = "published"]
  /\ undone' = undone \ {a}
  /\ Goto(c, Idle)
  /\ UNCHANGED edits

UnpublishAsset(c) ==
  LET a == request[c].asset IN
  /\ At(c, "unpublished")
  /\ asset' = [asset EXCEPT ![a] = [request[c].row EXCEPT !.status = "draft"]]
  /\ served' = [served EXCEPT ![a] = {}]
  /\ told' = [told EXCEPT ![a] = "unpublished"]
  /\ undone' = undone \ {a}
  /\ Goto(c, Idle)
  /\ UNCHANGED edits

\* Variant: an edited asset is a draft again.
SaveMetadata_Redraft(c) ==
  LET a == request[c].asset IN
  /\ request[c].step \in {"altText", "tags"}
  /\ asset' = [asset EXCEPT ![a] = [request[c].row EXCEPT
       !.metadata[request[c].step] = request[c].edit, !.status = "draft"]]
  /\ undone' = IF request[c].row.status # asset[a].status THEN undone \union {a} ELSE undone
  /\ Goto(c, Idle)
  /\ UNCHANGED <<served, edits, told>>

\* applyAssetMetadata: what the patch leaves out stays as it was read, the status too.
SaveMetadata(c) ==
  LET a == request[c].asset IN
  /\ request[c].step \in {"altText", "tags"}
  /\ asset' = [asset EXCEPT ![a] = [request[c].row EXCEPT
       !.metadata[request[c].step] = request[c].edit]]
  /\ undone' = IF request[c].row.status # asset[a].status THEN undone \union {a} ELSE undone
  /\ Goto(c, Idle)
  /\ UNCHANGED <<served, edits, told>>

Next ==
  \/ \E a \in Assets : createAsset(a)
  \/ \E c \in Clients :
       \/ \E a \in Assets, step \in {"published", "unpublished", "altText", "tags"} : Begin(c, a, step)
       \/ PublishAsset(c) \/ UnpublishAsset(c) \/ SaveMetadata(c)

Spec == Init /\ [][Next]_vars

-------------------------------------------------------------------------------
\* publishAsset: "the invalidation event must be enqueued iff the publish commits".  The
\* last event of an asset tells whether it is delivered, and so does the status in the
\* media library, unless a metadata edit wrote back a status that had changed since it
\* was read.
DeliveredAsTold ==
  \A a \in Assets :
    /\ (told[a] = "published") = (served[a] # {})
    /\ a \notin undone => (asset[a].status = "published") = (served[a] # {})
===============================================================================
