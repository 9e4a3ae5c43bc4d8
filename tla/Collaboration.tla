------------------------------ MODULE Collaboration ------------------------------
(***************************************************************************)
(* Comments, tasks and the workflow stage of one entry, and the panel of   *)
(* the editor that shows them (CollaborationPanel.tsx).  The use-cases     *)
(* read a row in one statement and write it in a later one, outside any    *)
(* transaction; others do the same over the API.  The three tabs of the    *)
(* panel share no rows and no forms: a behaviour follows one of them.      *)
(***************************************************************************)
EXTENDS Integers, Sequences

CONSTANTS
  Slots,       \* requests that may be in flight at once
  StepsOf,     \* the steps of each workflow that may be defined, in order
  Gated,       \* the steps that need a permission the panel's user has not
  MaxTyped,    \* bound: pieces of text typed in the panel
  MaxRows,     \* bound: comments, and tasks
  MaxActs      \* bound: requests

VARIABLES
  comments,    \* the comments ever made
  tasks,       \* the tasks ever made, each with what was asked of it last
  workflows,   \* each workflow: "none" before it is defined, "defined", "deleted"
  stage,       \* the entry's workflow and step
  panel,       \* what the panel shows and what its forms hold
  request,     \* what is in flight in each slot
  acts, typed,
  excused,     \* history: what was typed and then dropped by a failure or by leaving
  doubted,     \* history: what was written by a request whose answer was lost
  torn         \* history: tasks written by a request that had read an older row

vars == <<comments, tasks, workflows, stage, panel, request, acts, typed, excused, doubted, torn>>
server == <<comments, tasks, workflows, stage, torn>>

Idle == [step |-> "idle"]
NoStage == <<>>
None == 0        \* the parent of a comment that has none, left out of the request
Null == -1       \* the same, sent as null
Pairs == UNION {{<<w, StepsOf[w][i]>> : i \in DOMAIN StepsOf[w]} : w \in DOMAIN StepsOf}
First(w) == <<w, StepsOf[w][1]>>
Ids == 1 .. MaxRows
Text == 1 .. MaxTyped

Live(rows) == {i \in DOMAIN rows : rows[i].live}
Roots(ids) == {i \in ids : comments[i].parent = None}
\* The list shows replies under their root.
Listed(ids) == Roots(ids) \union {i \in ids : comments[i].parent \in Roots(ids)}
Defined == {w \in DOMAIN workflows : workflows[w] = "defined"}
Statuses == [i \in Live(tasks) |-> tasks[i].status]

Init ==
  /\ comments = <<>> /\ tasks = <<>> /\ stage = NoStage
  /\ workflows = [w \in DOMAIN StepsOf |-> "none"]
  /\ \E tab \in {"comments", "tasks", "workflow"} :
       panel = [tab |-> tab, list |-> {}, draft |-> {}, reply |-> [i \in Ids |-> {}], tasks |-> Statuses,
                form |-> {}, workflows |-> {}, stage |-> NoStage, pick |-> NoStage]
  /\ request = [s \in Slots |-> Idle]
  /\ acts = 0 /\ typed = 0
  /\ excused = {} /\ doubted = {} /\ torn = {}

-------------------------------------------------------------------------------
InFlight(s) == request[s].step # "idle"
Ask(s) == request[s].ask
End(s) == request' = [request EXCEPT ![s] = Idle]

\* The panel.  Each tab has its own useLocalRun; "api" is anybody else.
Busy(tab) == \E s \in Slots : InFlight(s) /\ Ask(s).by = tab

Send(s, q) ==
  /\ ~InFlight(s) /\ acts < MaxActs
  /\ acts' = acts + 1
  /\ request' = [request EXCEPT ![s] = [step |-> "check", ask |-> q, row |-> {}]]

Type(field) ==
  /\ typed < MaxTyped
  /\ \/ field = "draft" /\ panel.tab = "comments"
     \/ field = "form" /\ panel.tab = "tasks"
  /\ typed' = typed + 1
  /\ panel' = [panel EXCEPT ![field] = @ \union {typed'}]
  /\ UNCHANGED <<server, request, acts, excused, doubted>>

\* A ReplyBox stands under every root that is listed.
TypeReply(i) ==
  /\ typed < MaxTyped
  /\ panel.tab = "comments" /\ i \in Roots(panel.list)
  /\ typed' = typed + 1
  /\ panel' = [panel EXCEPT !.reply[i] = @ \union {typed'}]
  /\ UNCHANGED <<server, request, acts, excused, doubted>>

\* Both clear the form as they send.
ClickComment(s) ==
  /\ panel.tab = "comments" /\ ~Busy("comments") /\ panel.draft # {}
  /\ Send(s, [kind |-> "addComment", by |-> "comments", parent |-> Null, body |-> panel.draft])
  /\ panel' = [panel EXCEPT !.draft = {}]
  /\ UNCHANGED <<server, typed, excused, doubted>>

ClickReply(s, i) ==
  /\ panel.tab = "comments" /\ ~Busy("comments") /\ panel.reply[i] # {}
  /\ Send(s, [kind |-> "addComment", by |-> "comments", parent |-> i, body |-> panel.reply[i]])
  /\ panel' = [panel EXCEPT !.reply[i] = {}]
  /\ UNCHANGED <<server, typed, excused, doubted>>

ClickDelete(s, i) ==
  /\ \/ panel.tab = "comments" /\ i \in Listed(panel.list) /\ ~Busy("comments")
          /\ Send(s, [kind |-> "deleteComment", by |-> "comments", id |-> i])
     \/ panel.tab = "tasks" /\ i \in DOMAIN panel.tasks /\ ~Busy("tasks")
          /\ Send(s, [kind |-> "deleteTask", by |-> "tasks", id |-> i])
  /\ UNCHANGED <<server, panel, typed, excused, doubted>>

\* The form is cleared when the task is there.
ClickCreate(s) ==
  /\ panel.tab = "tasks" /\ ~Busy("tasks") /\ panel.form # {}
  /\ Send(s, [kind |-> "createTask", by |-> "tasks", body |-> panel.form])
  /\ UNCHANGED <<server, panel, typed, excused, doubted>>

\* The one control that is not disabled while the tab is busy.
Toggle(s, i) ==
  /\ panel.tab = "tasks" /\ i \in DOMAIN panel.tasks
  /\ Send(s, [kind |-> "updateTask", by |-> "tasks", id |-> i, field |-> "status",
              to |-> IF panel.tasks[i] = "open" THEN "resolved" ELSE "open"])
  /\ UNCHANGED <<server, panel, typed, excused, doubted>>

\* The pickers: choosing a workflow chooses its first step.
PickWorkflow(w) ==
  /\ panel.tab = "workflow" /\ w \in panel.workflows
  /\ panel' = [panel EXCEPT !.pick = First(w)]
  /\ UNCHANGED <<server, request, acts, typed, excused, doubted>>

PickStep(step) ==
  /\ panel.tab = "workflow" /\ panel.pick # NoStage /\ panel.pick[1] \in panel.workflows
  /\ <<panel.pick[1], step>> \in Pairs
  /\ panel' = [panel EXCEPT !.pick[2] = step]
  /\ UNCHANGED <<server, request, acts, typed, excused, doubted>>

Move(s) ==
  /\ panel.tab = "workflow" /\ ~Busy("workflow") /\ panel.pick # NoStage /\ panel.workflows # {}
  /\ Send(s, [kind |-> "transition", by |-> "workflow", to |-> panel.pick, may |-> FALSE])
  /\ UNCHANGED <<server, panel, typed, excused, doubted>>

\* Leaving a tab unmounts it: its forms are gone, and what it has in flight answers nobody.
Keeps(p) == p.draft \union p.form \union UNION {p.reply[i] : i \in Ids}

Leave ==
  /\ panel' = [panel EXCEPT !.draft = {}, !.reply = [i \in Ids |-> {}], !.form = {}, !.pick = NoStage]
  /\ excused' = excused \union Keeps(panel)
  /\ request' = [s \in Slots |-> IF InFlight(s) THEN [request[s] EXCEPT !.ask.by = "api"] ELSE request[s]]
  /\ UNCHANGED <<server, acts, typed, doubted>>

-------------------------------------------------------------------------------
Changes == {<<"status", "open">>, <<"status", "resolved">>, <<"assignee", "somebody">>}

\* The same requests by others: other panels, MCP tools, audits.
Others(s) ==
  /\ \/ panel.tab = "comments" /\
          \/ \E parent \in {None} \union DOMAIN comments :
               Send(s, [kind |-> "addComment", by |-> "api", parent |-> parent, body |-> {}])
          \/ \E i \in DOMAIN comments : Send(s, [kind |-> "deleteComment", by |-> "api", id |-> i])
     \/ panel.tab = "tasks" /\
          \/ Send(s, [kind |-> "createTask", by |-> "api", body |-> {}])
          \/ \E i \in DOMAIN tasks :
               \/ Send(s, [kind |-> "deleteTask", by |-> "api", id |-> i])
               \/ \E change \in Changes :
                    Send(s, [kind |-> "updateTask", by |-> "api", id |-> i, field |-> change[1], to |-> change[2]])
     \/ panel.tab = "workflow" /\
          \E w \in DOMAIN workflows :
            \/ Send(s, [kind |-> "deleteWorkflow", by |-> "api", id |-> w])
            \/ \E step \in {pair[2] : pair \in Pairs}, may \in BOOLEAN :
                 Send(s, [kind |-> "transition", by |-> "api", to |-> <<w, step>>, may |-> may])
  /\ UNCHANGED <<server, panel, typed, excused, doubted>>

\* defineWorkflow: a new id each time, so that the steps of a workflow never change.
defineWorkflow(w) ==
  /\ panel.tab = "workflow" /\ workflows[w] = "none"
  /\ workflows' = [workflows EXCEPT ![w] = "defined"]
  /\ UNCHANGED <<comments, tasks, stage, torn, panel, request, acts, typed, excused, doubted>>

\* commentBody takes a parent that is left out or an id, not null: no comment that the panel makes at the
\* top of a thread is accepted.
WellFormed(q) == q.kind = "addComment" => q.parent # Null

\* What each use-case looks at first.
Finds(q) ==
  CASE q.kind = "addComment" -> q.parent \in {None} \union Live(comments)
    [] q.kind = "deleteComment" -> q.id \in Live(comments)
    [] q.kind = "createTask" -> TRUE
    [] q.kind = "deleteTask" -> q.id \in Live(tasks)
    [] q.kind = "updateTask" -> q.id \in Live(tasks) /\ (q.field = "status" => tasks[q.id].status # q.to)
    [] q.kind = "deleteWorkflow" -> q.id \in Defined
    [] q.kind = "transition" -> q.to[1] \in Defined /\ q.to \in Pairs /\ (q.to \in Gated => q.may)

Texts(q) == IF q.kind \in {"addComment", "createTask"} THEN q.body ELSE {}

Check(s) ==
  LET q == Ask(s) IN
  /\ request[s].step = "check" /\ WellFormed(q) /\ Finds(q)
  /\ request' = [request EXCEPT ![s].step = "write", ![s].row = IF q.kind = "updateTask" THEN {tasks[q.id]} ELSE {}]
  /\ UNCHANGED <<server, panel, acts, typed, excused, doubted>>

\* 422, 404, 409 or 403: the panel shows a toast; the form of a comment is empty by now.
Cleared(q) == IF q.kind = "addComment" THEN q.body ELSE {}

Refuse(s) ==
  /\ request[s].step = "check" /\ ~(WellFormed(Ask(s)) /\ Finds(Ask(s)))
  /\ excused' = excused \union Cleared(Ask(s))
  /\ End(s)
  /\ UNCHANGED <<server, panel, acts, typed, doubted>>

\* A request that does not get to its write: the form of a task is still there.
Fail(s) ==
  /\ request[s].step \in {"check", "write"}
  /\ excused' = excused \union Cleared(Ask(s))
  /\ End(s)
  /\ UNCHANGED <<server, panel, acts, typed, doubted>>

-------------------------------------------------------------------------------
\* The writes, one statement each.
Answer(s) ==
  request' = [request EXCEPT ![s] = IF @.ask.by = "api" THEN Idle ELSE [@ EXCEPT !.step = "answer"]]

At(s, kind) == request[s].step = "write" /\ Ask(s).kind = kind

InsertComment(s) ==
  /\ At(s, "addComment") /\ Len(comments) < MaxRows
  /\ comments' = Append(comments, [live |-> TRUE, parent |-> Ask(s).parent, body |-> Ask(s).body,
                                   by |-> Ask(s).by])
  /\ UNCHANGED <<tasks, workflows, stage, torn>>

\* What answers a comment stays.
DropComment(s) ==
  /\ At(s, "deleteComment")
  /\ comments' = [comments EXCEPT ![Ask(s).id].live = FALSE]
  /\ UNCHANGED <<tasks, workflows, stage, torn>>

InsertTask(s) ==
  /\ At(s, "createTask") /\ Len(tasks) < MaxRows
  /\ tasks' = Append(tasks, [live |-> TRUE, body |-> Ask(s).body, status |-> "open", assignee |-> "nobody",
                             asked |-> [live |-> TRUE, status |-> "open", assignee |-> "nobody"]])
  /\ UNCHANGED <<comments, workflows, stage, torn>>

Columns(row) == [status |-> row.status, assignee |-> row.assignee]

\* save writes every column, as read but for the one that is changed, and no row where there is none.
SaveTask(s) ==
  LET q == Ask(s)
      row == tasks[q.id]
      read == CHOOSE old \in request[s].row : TRUE
      saved == [Columns(read) EXCEPT ![q.field] = q.to] IN
  /\ At(s, "updateTask")
  /\ tasks' = IF row.live THEN [tasks EXCEPT ![q.id] = [@ EXCEPT !.status = saved.status, !.assignee = saved.assignee,
                                                                !.asked[q.field] = q.to]]
                          ELSE tasks
  /\ torn' = IF row.live /\ Columns(read) # Columns(row) THEN torn \union {q.id} ELSE torn
  /\ UNCHANGED <<comments, workflows, stage>>

DropTask(s) ==
  /\ At(s, "deleteTask")
  /\ tasks' = [tasks EXCEPT ![Ask(s).id].live = FALSE, ![Ask(s).id].asked.live = FALSE]
  /\ UNCHANGED <<comments, workflows, stage, torn>>

\* Entries that are in a workflow stay in it when it is deleted.
DropWorkflow(s) ==
  /\ At(s, "deleteWorkflow")
  /\ workflows' = [workflows EXCEPT ![Ask(s).id] = "deleted"]
  /\ UNCHANGED <<comments, tasks, stage, torn>>

SaveState(s) ==
  /\ At(s, "transition")
  /\ stage' = Ask(s).to
  /\ UNCHANGED <<comments, tasks, workflows, torn>>

Write(s) ==
  /\ \/ InsertComment(s) \/ DropComment(s) \/ InsertTask(s) \/ SaveTask(s) \/ DropTask(s)
     \/ DropWorkflow(s) \/ SaveState(s)
  /\ Answer(s)
  /\ UNCHANGED <<panel, acts, typed, excused, doubted>>

-------------------------------------------------------------------------------
\* What the panel shows of the rows, and the pickers, which are set again whenever what they
\* depend on has changed.
Listing(list) == [panel EXCEPT !.list = list, !.reply = [i \in Ids |-> IF i \in Roots(list) THEN @[i] ELSE {}]]

Seeds(listed, now) ==
  IF now # NoStage THEN {now} ELSE IF listed = {} THEN {panel.pick} ELSE {First(w) : w \in listed}

Picked(listed, now) ==
  LET same == listed = panel.workflows /\ now = panel.stage /\ panel.pick # NoStage IN
  {[panel EXCEPT !.workflows = listed, !.stage = now, !.pick = pick] :
     pick \in IF same THEN {panel.pick} ELSE Seeds(listed, now)}

\* A query of the tab is made again: when the tab is opened, the window gets the focus, or a
\* request of the tab has succeeded.
Shown(tab) ==
  CASE tab = "comments" -> {Listing(Live(comments))}
    [] tab = "tasks" -> {[panel EXCEPT !.tasks = Statuses]}
    [] tab = "workflow" -> Picked(Defined, panel.stage) \union Picked(panel.workflows, stage)

Refetch ==
  /\ panel' \in Shown(panel.tab) /\ panel' # panel
  /\ excused' = excused \union (Keeps(panel) \ Keeps(panel'))
  /\ UNCHANGED <<server, request, acts, typed, doubted>>

\* A task that was made clears the form, whatever it holds by now.
Settle(s) ==
  LET q == Ask(s) IN
  /\ request[s].step = "answer"
  /\ panel' = IF q.kind = "createTask" /\ q.by = "tasks" THEN [panel EXCEPT !.form = {}] ELSE panel
  /\ excused' = excused \union (Keeps(panel) \ (Keeps(panel') \union Texts(q)))
  /\ End(s)
  /\ UNCHANGED <<server, acts, typed, doubted>>

Lose(s) ==
  /\ request[s].step = "answer"
  /\ doubted' = doubted \union Texts(Ask(s))
  /\ End(s)
  /\ UNCHANGED <<server, panel, acts, typed, excused>>

Next ==
  \/ \E field \in {"draft", "form"} : Type(field)
  \/ \E i \in Ids : TypeReply(i)
  \/ \E w \in DOMAIN workflows : PickWorkflow(w) \/ defineWorkflow(w)
  \/ \E pair \in Pairs : PickStep(pair[2])
  \/ Leave \/ Refetch
  \/ \E s \in Slots :
       \/ ClickComment(s) \/ ClickCreate(s) \/ Move(s) \/ Others(s)
       \/ \E i \in Ids : ClickReply(s, i) \/ ClickDelete(s, i) \/ Toggle(s, i)
       \/ Check(s) \/ Refuse(s) \/ Fail(s) \/ Write(s) \/ Settle(s) \/ Lose(s)

Spec == Init /\ [][Next]_vars

-------------------------------------------------------------------------------
TypeOK ==
  /\ panel.list \subseteq Ids /\ DOMAIN panel.tasks \subseteq Ids /\ panel.workflows \subseteq DOMAIN StepsOf
  /\ acts \in 0..MaxActs /\ typed \in 0..MaxTyped
  /\ excused \union doubted \subseteq Text /\ torn \subseteq Ids

Bodies(rows) == UNION {rows[i].body : i \in DOMAIN rows}
Sent == UNION {Texts(Ask(s)) : s \in {t \in Slots : InFlight(t)}}

\* What is typed in the panel stays in its form until it is in a row or on the way to one, but for a
\* failure after the form was cleared, and for leaving; and it makes one row, unless an answer was lost.
TextKept ==
  LET rows(n) == {<<"comment", i>> : i \in {j \in DOMAIN comments : n \in comments[j].body}}
                 \union {<<"task", i>> : i \in {j \in DOMAIN tasks : n \in tasks[j].body}} IN
  \A n \in 1..typed :
    /\ n \in Keeps(panel) \union Sent \union Bodies(comments) \union Bodies(tasks) \union excused
    /\ \A row1, row2 \in rows(n) : row1 = row2 \/ n \in doubted

\* A task is as it was asked to be last, one column by one request and the other by another, unless
\* two requests overlapped; and once deleted it is gone.
TasksAsAsked ==
  \A i \in DOMAIN tasks :
    /\ tasks[i].live = tasks[i].asked.live
    /\ \A column \in {"status", "assignee"} : i \in torn \/ tasks[i][column] = tasks[i].asked[column]

\* What was said in the panel is listed by it until it, or what it answers, is deleted.
SaidIsListed ==
  \A i \in Live(comments) : comments[i].by = "comments" =>
    i \in Listed(Live(comments)) \/ comments[i].parent \notin Live(comments)

\* The entry's stage, and what the pickers show, is a step of the workflow that it is shown with.
StepsMatch == {stage, panel.pick} \subseteq Pairs \union {NoStage}

CollaborationKept == TasksAsAsked /\ SaidIsListed /\ StepsMatch
================================================================================
