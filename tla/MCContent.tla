------------------------------- MODULE MCContent -------------------------------
(***************************************************************************)
(* Small instances of what the management side keeps: entries              *)
(* (EntryPublishing), the indexes that follow them (EventFanOut), assets,  *)
(* concepts, roles and keys, environments and what is merged between them  *)
(* (Branching), the limit of failed sign-ins (AuthRateLimit), the page     *)
(* that edits entries (EntryEditor), a field of rich text in it            *)
(* (RichText), and the panel of comments, tasks and stages next to it      *)
(* (Collaboration).  A behaviour runs one of them, `part`; all but         *)
(* EntryPublishing use the variables of EventFanOut.                       *)
(***************************************************************************)
EXTENDS EntryPublishing, EventFanOut, TLC

CONSTANTS article, author, c1, c2, x, y, z,
          Parts          \* the components to run

VARIABLES part, h1, h2, h3, h4, h5, h6, h7, h8, h9

ArticleAndAuthor == article :> {author} @@ author :> {}

editing == <<h1, h2, h3, h4, h5, h6>>
more == <<h7, h8, h9>>
all == <<part, vars, fanOutVars, editing, more>>

Media == INSTANCE Assets WITH
  Assets <- {x, y}, Clients <- {c1, c2}, MaxEdits <- 2,
  asset <- vectors, edits <- acts, told <- lexical, request <- consumer, undone <- h7

Terms == INSTANCE Taxonomy WITH
  Concepts <- {x, y, z}, Clients <- {c1, c2},
  broader <- served, fresh <- ids, request <- consumer, stale <- h7

Grants == INSTANCE Access WITH
  Roles <- {x, y}, Keys <- {1, 2}, Clients <- {c1, c2},
  roles <- served, key <- vectors, request <- consumer, unborn <- ids, loose <- h7

Spaces == INSTANCE Environments WITH
  Names <- {x, y, z}, Clients <- {c1, c2},
  environments <- served, aliases <- lexical, request <- consumer, shadowed <- h7

BothShapes == 1 :> {1} @@ 2 :> {1, 2}
Branches == INSTANCE Branching WITH
  Branches <- {"main", "staging"}, Entries <- {1, 2}, Clients <- {c1, c2}, Shapes <- {1, 2},
  Allowed <- BothShapes, Limits <- {1, 2}, MaxActs <- 2,
  limit <- ids, type <- served, list <- vectors, request <- consumer, panel <- h8

SignIn == INSTANCE AuthRateLimit WITH
  Requests <- {c1, c2}, Limiters <- {"redis", "object", "process"}, MaxAttempts <- 2, Window <- 2,
  MaxTime <- 3, MaxFaults <- 1,
  limiter <- served, now <- ids, kept <- vectors, alarm <- lexical, request <- consumer, seen <- h8,
  faults <- acts

\* Four versions of all entries: two from the start, and two saves or restores.
Editor == INSTANCE EntryEditor WITH
  Fields <- {"title"}, MaxTyped <- 1, MaxActs <- 1, MaxVersions <- 4,
  rows <- served, here <- ids, form <- vectors, dirty <- h7, patch <- h8, aggregate <- consumer,
  confirm <- lexical, asked <- deliveries, runs <- begun, restoring <- h9, drafting <- cut, typed <- backend,
  excused <- h1, visits <- h2, creations <- h3, doubted <- h4, strayed <- h5, surprises <- h6

\* Documents of a block or two, as the editor saves them and as clients of the API may write them.
StoredNode(type, text, marks, to, content) ==
  [type |-> type, text |-> text, marks |-> marks, to |-> to, content |-> content]
StoredText(letter, marks) == StoredNode("text", <<letter>>, marks, <<>>, <<>>)
StoredBlock(type, content) == StoredNode(type, <<>>, {}, <<>>, content)
StoredRef(type, to, content) == StoredNode(type, <<>>, {}, to, content)
Said == StoredText("a", {})
Inlines ==
  {Said, StoredText("b", {"bold", "code"}), StoredText("c", {"color"}), StoredNode("text", <<>>, {}, <<>>, <<>>),
   StoredBlock("hard-break", <<>>), StoredBlock("footnote", <<Said>>),
   StoredRef("embedded-entry-inline", <<"t", "Entry">>, <<>>)}
StoredLinks ==
  {StoredRef("entry-hyperlink", <<"t", "Entry">>, content) :
     content \in {<<inline>> : inline \in Inlines} \union {<<StoredRef("hyperlink", <<"u">>, <<Said>>)>>}}
  \union {StoredRef("hyperlink", <<to>>, <<Said>>) : to \in {"", "u"}}
  \union {StoredRef("asset-hyperlink", <<"t", "Asset">>,
             <<StoredRef("entry-hyperlink", <<"s", "Entry">>, <<StoredText("b", {})>>), Said>>)}
Blocks ==
  {StoredBlock("paragraph", <<Said>>), StoredBlock("table", <<Said>>), Said, StoredBlock("hr", <<>>),
   StoredBlock("list-item", <<Said>>), StoredRef("embedded-entry-block", <<"t", "Entry">>, <<>>)}
RichTexts ==
  {<<>>} \union {<<block>> : block \in Blocks}
  \union {<<StoredBlock("paragraph", content)>> :
             content \in {<<inline>> : inline \in Inlines} \union {<<link, Said>> : link \in StoredLinks}
                        \union {<<link, StoredRef("asset-hyperlink", <<"s", "Asset">>, <<Said>>)>> : link \in StoredLinks}}
  \union {<<StoredBlock(type, <<block, Said>>)>> : type \in {"blockquote", "unordered-list"}, block \in Blocks}
  \union {<<StoredBlock("code-block", <<Said, Said>>)>>,
          <<StoredRef("embedded-entry-block", <<"", "Entry">>, <<>>), Said>>,
          <<StoredRef("embedded-asset-block", <<"t", "Entry">>, <<>>), Said>>}
Field == INSTANCE RichText WITH
  Documents <- RichTexts, Replacements <- {<<>>, <<StoredBlock("paragraph", <<Said>>)>>}, Typed <- {"n"}, MaxActs <- 2,
  value <- served, shown <- vectors, emitted <- consumer, focused <- h7, base <- h8, typed <- ids,
  dropped <- lexical, missed <- cut

TwoWorkflows == x :> <<1, 2>> @@ y :> <<1, 3>>
Panel == INSTANCE Collaboration WITH
  Slots <- {c1, c2}, StepsOf <- TwoWorkflows, Gated <- {<<x, 2>>}, MaxTyped <- 2, MaxRows <- 3, MaxActs <- 3,
  comments <- served, tasks <- ids, workflows <- vectors, stage <- lexical, panel <- consumer, request <- h8,
  typed <- h7, excused <- cut, doubted <- begun, torn <- deliveries

ASSUME Editor!EditorAssumption /\ Branches!BranchingAssumption /\ SignIn!AuthRateLimitAssumption

-------------------------------------------------------------------------------
\* Outside EventFanOut no event is to come and nothing is owed.
eventless == <<queue, doubt, owed>>
Eventless == queue = {} /\ doubt = EntryIds /\ owed = {}

notFanOut == <<backend, deliveries, cache, begun, cut>>
Unused == backend = 0 /\ deliveries = 0 /\ cache = 0 /\ begun = 0 /\ cut = 0 /\ h9 = 0

ContentInit ==
  /\ part \in Parts
  /\ Init
  /\ \/ part = "editor"
     \/ part # "editor" /\ h1 = 0 /\ h2 = 0 /\ h3 = 0 /\ h4 = 0 /\ h5 = 0 /\ h6 = 0
  /\ \/ part = "fanout" /\ FanOutInit /\ h7 = 0 /\ h8 = 0 /\ h9 = 0
     \/ /\ part # "fanout" /\ Eventless
        /\ \/ part = "editor" /\ Editor!Init
           \/ part = "collaboration" /\ Panel!Init /\ backend = 0 /\ cache = 0 /\ h9 = 0
           \/ part = "richtext" /\ Field!Init /\ backend = 0 /\ deliveries = 0 /\ cache = 0 /\ begun = 0 /\ h9 = 0
           \/ part = "branches" /\ Unused /\ Branches!Init /\ lexical = 0 /\ h7 = 0
           \/ part = "signin" /\ Unused /\ SignIn!Init /\ h7 = 0
           \/ part \notin {"editor", "richtext", "collaboration", "branches", "signin"} /\ Unused /\ h8 = 0 /\
              \/ part = "entries" /\ served = 0 /\ ids = 0 /\ consumer = 0 /\ vectors = 0 /\ lexical = 0
                   /\ acts = 0 /\ h7 = 0
              \/ part = "assets" /\ Media!Init /\ ids = 0
              \/ part = "taxonomy" /\ Terms!Init /\ vectors = 0 /\ lexical = 0 /\ acts = 0
              \/ part = "access" /\ Grants!Init /\ lexical = 0 /\ acts = 0
              \/ part = "environments" /\ Spaces!Init /\ ids = 0 /\ vectors = 0 /\ acts = 0

\* Who is linked to is created and published, and only the article is saved again.
OnlyTheArticle == \A c \in Clients : request'[c].step = "insertVersion" => request'[c].items = {article}

ContentNext ==
  /\ UNCHANGED part
  /\ \/ part = "entries" /\ Next /\ OnlyTheArticle /\ UNCHANGED <<fanOutVars, editing, more>>
     \/ part = "fanout" /\ FanOutNext /\ UNCHANGED <<vars, editing, more>>
     \/ part = "editor" /\ Editor!Next /\ UNCHANGED <<vars, eventless>>
     \/ /\ UNCHANGED <<vars, eventless, editing, h9>>
        /\ \/ part = "collaboration" /\ Panel!Next /\ UNCHANGED <<backend, cache>>
           \/ part = "richtext" /\ Field!Next /\ UNCHANGED <<backend, deliveries, cache, begun>>
           \/ part = "branches" /\ Branches!Next /\ UNCHANGED <<notFanOut, lexical, h7>>
           \/ part = "signin" /\ SignIn!Next /\ UNCHANGED <<notFanOut, h7>>
           \/ /\ UNCHANGED <<notFanOut, h8>>
              /\ \/ part = "assets" /\ Media!Next /\ UNCHANGED ids
                 \/ part = "taxonomy" /\ Terms!Next /\ UNCHANGED <<vectors, lexical, acts>>
                 \/ part = "access" /\ Grants!Next /\ UNCHANGED <<lexical, acts>>
                 \/ part = "environments" /\ Spaces!Next /\ UNCHANGED <<ids, vectors, acts>>

ContentSpec == ContentInit /\ [][ContentNext]_all

Symmetry == Permutations({c1, c2})

\* An asset is delivered as its events and its status tell (Assets).
DeliveredAsTold == part = "assets" => Media!DeliveredAsTold
\* What a request checks before it writes is true of what it wrote, unless requests overlap: concepts
\* form no cycle (Taxonomy), a key that is not revoked has its role (Access), an environment is
\* reached under its name (Environments), tasks and stages are as asked (Collaboration).
ChecksHold ==
  /\ part = "taxonomy" => Terms!CyclesOnlyByOverlap
  /\ part = "access" => Grants!HoldersKeepTheirRole
  /\ part = "environments" => Spaces!ResolvesToItself
  /\ part = "collaboration" => Panel!CollaborationKept
\* A merge of all that differs leaves no difference (Branching).
MergeSettles == part = "branches" => Branches!MergeSettles
\* Refused are those who failed lately, and nobody may fail much more often (AuthRateLimit).
AuthLimitKept == part = "signin" => SignIn!AuthLimitKept
\* The editor keeps what is typed, and makes one entry of it (EntryEditor); a field of rich text
\* keeps what the document said and refers to (RichText), and so does the panel next to it what is
\* typed there (Collaboration).
EditorKeepsWork ==
  /\ part = "editor" => Editor!EditorKeepsWork
  /\ part = "richtext" => Field!FieldKept
  /\ part = "collaboration" => Panel!TextKept
\* What is published is what the dialog showed (EntryEditor).
PublishedAsShown == part = "editor" => Editor!PublishedAsShown
===============================================================================
