-------------------------------- MODULE RichText --------------------------------
(***************************************************************************)
(* Rich text: stored documents, the document of the editor (ProseMirror    *)
(* JSON), the mapping between the two, and the field of a form that keeps  *)
(* them in step while its user types and others replace the value.         *)
(*                                                                         *)
(* A text is a sequence of letters.  A target is <<id>> of a hyperlink,    *)
(* <<id, linkType>> of a reference, and <<>> where there is none; the id   *)
(* "" is the empty string.  Positions, headings' levels and the language   *)
(* of a code block ride along unchanged and are left out.                  *)
(***************************************************************************)
EXTENDS SequencesExt

CONSTANTS Documents,   \* the stored documents a field can hold at first
          Replacements,\* the documents that a generation or a restore can put in their place
          Typed,       \* the letters that the user types, each where there is none of it
          MaxActs      \* bound: edits and replacements

VARIABLES
  value,     \* what the form holds and saves; Nothing if the field is empty
  shown,     \* the content of the editor
  emitted,   \* lastEmitted
  focused,
  acts,
  base,      \* history: the document that the user's edits started from
  typed,     \* history: the letters typed since
  dropped,   \* history: the targets that the user has put others in place of since
  missed     \* history: the value was replaced while the editor had the focus

vars == <<value, shown, emitted, focused, acts, base, typed, dropped, missed>>

-------------------------------------------------------------------------------
(***************************************************************************)
(* Stored documents.                                                       *)
(***************************************************************************)
Node(type, text, marks, to, content) ==
  [type |-> type, text |-> text, marks |-> marks, to |-> to, content |-> content]
Nothing == <<>>

ReferenceTypes ==
  {"embedded-entry-block", "embedded-asset-block", "embedded-entry-inline", "entry-hyperlink", "asset-hyperlink"}
LinkTypes == {"hyperlink", "entry-hyperlink", "asset-hyperlink"}
InlineTypes == LinkTypes \union {"text", "hard-break", "embedded-entry-inline"}
LinkTypeOf(type) == IF type \in {"embedded-asset-block", "asset-hyperlink"} THEN "Asset" ELSE "Entry"

RECURSIVE NodesIn(_)
\* The nodes of a document in the order in which its reader meets them.
NodesIn(nodes) == FlattenSeq([i \in DOMAIN nodes |-> <<nodes[i]>> \o NodesIn(nodes[i].content)])

extractRichTextTargets(doc) ==
  {n.to : n \in {m \in ToSet(NodesIn(doc)) : m.type \in ReferenceTypes /\ Len(m.to) = 2}}
validateRichText(doc) == \A n \in ToSet(NodesIn(doc)) : n.type \in ReferenceTypes => Len(n.to) = 2
\* richTextToPlainText, but for the space between blocks.
Letters(doc) == FlattenSeq([i \in DOMAIN NodesIn(doc) |-> NodesIn(doc)[i].text])

-------------------------------------------------------------------------------
(***************************************************************************)
(* From stored documents to the editor's.  A run of text carries its link; *)
(* a node the editor does not know is carried whole in `raw`.              *)
(***************************************************************************)
PmNode(type, content) ==
  [type |-> type, text |-> <<>>, marks |-> {}, link |-> <<>>, to |-> "", content |-> content, raw |-> <<>>]
PmText(text, marks) == [PmNode("text", <<>>) EXCEPT !.text = text, !.marks = marks]
Carrier(type, node) == [PmNode(type, <<>>) EXCEPT !.raw = <<node>>]
EmptyDoc == <<PmNode("paragraph", <<>>)>>

KnownMarks == {"bold", "italic", "underline", "code", "strikethrough"}
\* The code mark excludes all others.
marksToPm(marks) == IF "code" \in marks THEN {"code"} ELSE marks \intersect KnownMarks

PmContainers == {"blockquote", "unordered-list", "ordered-list", "list-item"}

\* A mark of a link that the run has already stays; a run of code loses its mark to the link.
Linked(pm, link) ==
  IF pm.type \notin {"text", "hardBreak"} \/ pm.link # <<>> THEN pm
  ELSE [pm EXCEPT !.marks = @ \ {"code"}, !.link = link]

RECURSIVE inlineToPm(_)
linkChildrenToPm(node) ==
  FlattenSeq([i \in DOMAIN node.content |->
    LET children == inlineToPm(node.content[i]) IN
    [j \in DOMAIN children |-> Linked(children[j], <<node.type, node.to[1]>>)]])
inlineToPm(node) ==
  CASE node.type = "text" ->
         IF node.text = <<>> THEN <<>> ELSE <<PmText(node.text, marksToPm(node.marks))>>
    [] node.type = "hard-break" -> <<PmNode("hardBreak", <<>>)>>
    [] node.type \in LinkTypes /\ node.to[1] # "" -> linkChildrenToPm(node)
    [] node.type = "embedded-entry-inline" /\ node.to[1] # "" ->
         <<[PmNode("embeddedEntryInline", <<>>) EXCEPT !.to = node.to[1]]>>
    [] OTHER -> <<Carrier("unknownInline", node)>>
inlineChildrenToPm(nodes) == FlattenSeq([i \in DOMAIN nodes |-> inlineToPm(nodes[i])])

\* In a list everything is a list item, and a list item is in a list.
Placed(pm, inList) ==
  IF inList /\ pm.type # "list-item" THEN PmNode("list-item", <<pm>>)
  ELSE IF ~inList /\ pm.type = "list-item" THEN PmNode("unordered-list", <<pm>>)
  ELSE pm

RECURSIVE blockChildrenToPm(_, _)
blockToPm(node) ==
  CASE node.type \in {"paragraph", "heading"} -> PmNode(node.type, inlineChildrenToPm(node.content))
    [] node.type = "code-block" ->
         LET text == FlattenSeq([i \in DOMAIN node.content |-> node.content[i].text]) IN
         PmNode("code-block", IF text = <<>> THEN <<>> ELSE <<PmText(text, {})>>)
    [] node.type = "hr" -> PmNode("hr", <<>>)
    [] node.type \in PmContainers ->
         PmNode(node.type, blockChildrenToPm(node.content, node.type \in {"unordered-list", "ordered-list"}))
    [] node.type \in {"embedded-entry-block", "embedded-asset-block"} ->
         [PmNode(node.type, <<>>) EXCEPT !.to = node.to[1]]
    [] OTHER -> Carrier("unknownBlock", node)

\* Inline nodes among blocks are wrapped in a paragraph, run by run.
blockChildrenToPm(nodes, inList) ==
  LET Flushed(s) ==
        IF s.run = <<>> THEN s
        ELSE [out |-> Append(s.out, Placed(PmNode("paragraph", s.run), inList)), run |-> <<>>]
      Take(s, node) ==
        IF node.type \in InlineTypes THEN [s EXCEPT !.run = @ \o inlineToPm(node)]
        ELSE [Flushed(s) EXCEPT !.out = Append(@, Placed(blockToPm(node), inList))]
  IN Flushed(FoldLeft(Take, [out |-> <<>>, run |-> <<>>], nodes)).out

toTiptap(doc) ==
  LET content == blockChildrenToPm(doc, FALSE) IN IF content = <<>> THEN EmptyDoc ELSE content

-------------------------------------------------------------------------------
(***************************************************************************)
(* And back.  Consecutive nodes of one link become one node again.         *)
(***************************************************************************)
pmToInline(pm) ==
  CASE pm.type = "text" -> <<Node("text", pm.text, pm.marks, <<>>, <<>>)>>
    [] pm.type = "hardBreak" -> <<Node("hard-break", <<>>, {}, <<>>, <<>>)>>
    [] pm.type = "embeddedEntryInline" ->
         IF pm.to = "" THEN <<>> ELSE <<Node("embedded-entry-inline", <<>>, {}, <<pm.to, "Entry">>, <<>>)>>
    [] OTHER -> pm.raw

LinkNode(link, run) ==
  Node(link[1], <<>>, {}, IF link[1] = "hyperlink" THEN <<link[2]>> ELSE <<link[2], LinkTypeOf(link[1])>>, run)

linkMarkOf(pm) == IF pm.link # <<>> /\ pm.link[2] # "" THEN pm.link ELSE <<>>

pmInlineChildren(nodes) ==
  LET Flushed(s) ==
        [out |-> IF s.run = <<>> THEN s.out ELSE Append(s.out, LinkNode(s.link, s.run)), run |-> <<>>, link |-> <<>>]
      Take(s, pm) ==
        LET link == linkMarkOf(pm)
            t == IF link # <<>> /\ link = s.link THEN s ELSE Flushed(s) IN
        IF link # <<>> THEN [t EXCEPT !.link = link, !.run = @ \o pmToInline(pm)]
        ELSE [t EXCEPT !.out = @ \o pmToInline(pm)]
  IN Flushed(FoldLeft(Take, [out |-> <<>>, run |-> <<>>, link |-> <<>>], nodes)).out

RECURSIVE pmToBlock(_)
pmToBlocks(nodes) == FlattenSeq([i \in DOMAIN nodes |-> pmToBlock(nodes[i])])
pmToBlock(pm) ==
  CASE pm.type \in {"paragraph", "heading"} -> <<Node(pm.type, <<>>, {}, <<>>, pmInlineChildren(pm.content))>>
    [] pm.type = "code-block" ->
         LET text == FlattenSeq([i \in DOMAIN pm.content |-> pm.content[i].text]) IN
         <<Node("code-block", <<>>, {}, <<>>, <<Node("text", text, {}, <<>>, <<>>)>>)>>
    [] pm.type = "hr" -> <<Node("hr", <<>>, {}, <<>>, <<>>)>>
    [] pm.type \in PmContainers -> <<Node(pm.type, <<>>, {}, <<>>, pmToBlocks(pm.content))>>
    [] pm.type \in {"embedded-entry-block", "embedded-asset-block"} ->
         IF pm.to = "" THEN <<>> ELSE <<Node(pm.type, <<>>, {}, <<pm.to, LinkTypeOf(pm.type)>>, <<>>)>>
    [] OTHER -> pm.raw

toDocument(pm) ==
  LET content == pmToBlocks(pm) IN
  IF \A i \in DOMAIN content : content[i].type = "paragraph" /\ content[i].content = <<>>
  THEN Nothing ELSE content

-------------------------------------------------------------------------------
(***************************************************************************)
(* The field.  ProseMirror joins neighbouring runs that look alike.        *)
(***************************************************************************)
RECURSIVE fromJSON(_)
fromJSON(nodes) ==
  LET Alike(a, b) == a.type = "text" /\ b.type = "text" /\ a.marks = b.marks /\ a.link = b.link
      Take(s, pm) ==
        IF s # <<>> /\ Alike(Last(s), pm) THEN Front(s) \o <<[Last(s) EXCEPT !.text = @ \o pm.text]>>
        ELSE Append(s, [pm EXCEPT !.content = fromJSON(pm.content)])
  IN FoldLeft(Take, <<>>, nodes)

\* Each render of a document and each save of one that nobody touched.
Opened(doc) == fromJSON(toTiptap(doc))
Normal(doc) == toDocument(Opened(doc))

Init ==
  /\ value \in Documents /\ base = value
  /\ shown = Opened(value) /\ emitted = value
  /\ focused = FALSE /\ acts = 0
  /\ typed = {} /\ dropped = {} /\ missed = FALSE

MayAct == acts < MaxActs /\ acts' = acts + 1

Focus(f) == focused' = f /\ UNCHANGED <<value, shown, emitted, acts, base, typed, dropped, missed>>

\* onUpdate: what the user made of the content is told to the form.
Edit(pm) ==
  /\ MayAct
  /\ shown' = fromJSON(pm)
  /\ emitted' = toDocument(shown') /\ value' = emitted'
  /\ UNCHANGED <<base, missed>>

TextBlocks == {i \in DOMAIN shown : shown[i].type \in {"paragraph", "heading"}}

\* At the end of a block a letter continues the run it follows.
Type(i, l) ==
  LET content == shown[i].content
      run == IF content # <<>> /\ Last(content).type = "text" THEN Last(content) ELSE PmText(<<>>, {}) IN
  /\ focused /\ UNCHANGED focused
  /\ i \in TextBlocks /\ l \notin typed \union ToSet(Letters(value))
  /\ Edit([shown EXCEPT ![i].content = Append(content, [run EXCEPT !.text = <<l>>])])
  /\ typed' = typed \union {l} /\ UNCHANGED dropped

\* The toolbar gives the focus back to the editor, the picker of an embed does not.  A link over
\* all of a block: every inline node takes the mark, but runs of code.
SetLink(i, link) ==
  /\ i \in TextBlocks /\ focused' = TRUE
  /\ Edit([shown EXCEPT ![i].content = [j \in DOMAIN @ |->
       IF "code" \in @[j].marks THEN @[j] ELSE [@[j] EXCEPT !.link = link]]])
  /\ dropped' = dropped \union {<<pm.link[2], LinkTypeOf(pm.link[1])>> : pm \in {p \in ToSet(shown[i].content) : p.link # <<>>}}
  /\ UNCHANGED typed

\* Embeds come without a target, which is picked afterwards.
InsertEmbed(type) ==
  /\ Edit(Append(shown, PmNode(type, <<>>)))
  /\ focused' = TRUE
  /\ UNCHANGED <<typed, dropped>>
PickTarget(i, id) ==
  /\ shown[i].type \in {"embedded-entry-block", "embedded-asset-block"}
  /\ Edit([shown EXCEPT ![i].to = id])
  /\ dropped' = dropped \union {<<shown[i].to, LinkTypeOf(shown[i].type)>>}
  /\ UNCHANGED <<focused, typed>>

\* A generation or a restore replaces the value.  The editor follows unless it has the
\* focus: "external updates always originate from a click outside the editor".
Replace(doc) ==
  LET seen == ~focused /\ doc # emitted IN
  /\ MayAct
  /\ value' = doc /\ base' = doc /\ typed' = {} /\ dropped' = {}
  /\ shown' = IF seen THEN Opened(doc) ELSE shown
  /\ emitted' = IF seen THEN doc ELSE emitted
  /\ missed' = (focused /\ doc # emitted)
  /\ UNCHANGED focused

\* The field is mounted again: another locale and back, or the entry is opened again.
Remount ==
  /\ focused' = FALSE
  /\ shown' = Opened(value) /\ emitted' = value
  /\ base' = value /\ typed' = {} /\ dropped' = {} /\ missed' = FALSE
  /\ UNCHANGED <<value, acts>>

Next ==
  \/ \E f \in BOOLEAN \ {focused} : Focus(f)
  \/ \E i \in DOMAIN shown, l \in Typed : Type(i, l)
  \/ \E i \in DOMAIN shown, kind \in LinkTypes : SetLink(i, <<kind, "new">>)
  \/ \E type \in {"embedded-entry-block", "embedded-asset-block"} : InsertEmbed(type)
  \/ \E i \in DOMAIN shown, id \in {"new", ""} : PickTarget(i, id)
  \/ \E doc \in Replacements : Replace(doc)
  \/ Remount

Spec == Init /\ [][Next]_vars

-------------------------------------------------------------------------------
\* What the editor can show of a document: links have text or a break of their own, references
\* are of the type their node says, and code has text only.
Editable(doc) ==
  \A n \in ToSet(NodesIn(doc)) :
    /\ n.type \in ReferenceTypes => n.to[1] # "" /\ n.to[2] = LinkTypeOf(n.type)
    /\ n.type \in LinkTypes =>
         \E child \in ToSet(n.content) : child.type = "hard-break" \/ (child.type = "text" /\ child.text # <<>>)
    /\ n.type = "code-block" => \A child \in ToSet(n.content) : child.type = "text"

\* "Foreign/API-authored documents are never corrupted": however a document is edited, what it
\* said and what it refers to is still there, with what was typed, and it is a document.
DocumentsSurvive ==
  LET left == Letters(value) IN
  ~missed =>
    /\ validateRichText(value)
    /\ typed \subseteq ToSet(left)
    /\ Editable(base) =>
         /\ SelectSeq(left, LAMBDA l : l \notin typed) = Letters(base)
         /\ extractRichTextTargets(base) \ dropped \subseteq extractRichTextTargets(value)

\* What is saved is what the editor shows, and shows the same when it is opened again, but for
\* links over embeds: opening leaves an embed without its link.
LinkedEmbed(pm) == pm.link # <<>> /\ pm.type \notin {"text", "hardBreak"}
ShownIsSaved ==
  (~missed /\ \A i \in DOMAIN shown : \A pm \in ToSet(shown[i].content) : ~LinkedEmbed(pm))
    => Normal(value) = toDocument(shown)

RECURSIVE ListsOfItems(_, _)
\* "Normalized to stay schema-legal", as far as the mapper's comment spells it out: lists hold items and
\* nothing else, items are in lists only, and text is in blocks.  Which blocks an item may hold, and in
\* which order, is left to the schema.
ListsOfItems(nodes, inList) ==
  \A pm \in ToSet(nodes) :
    /\ pm.type \notin {"text", "hardBreak", "embeddedEntryInline", "unknownInline"}
    /\ (pm.type = "list-item") = inList
    /\ pm.type \in PmContainers => ListsOfItems(pm.content, pm.type \in {"unordered-list", "ordered-list"})

\* The field keeps what it is given, in a document that its editor can hold.
FieldKept == DocumentsSurvive /\ ShownIsSaved /\ ListsOfItems(shown, FALSE)
=================================================================================
