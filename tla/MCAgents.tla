-------------------------------- MODULE MCAgents --------------------------------
(***************************************************************************)
(* Small instances of what agents and models do: reviews of proposals      *)
(* (AgentReviews), passes over published entries (AgentPasses), the budget *)
(* of generations (AiBudget) and what editors ask for themselves           *)
(* (ContentAssist).  They share no state of the program, so a behaviour    *)
(* runs one of them, `part`.  Reviews and passes stay as they began while  *)
(* another part runs; the other two are instantiated on one set of         *)
(* variables.                                                              *)
(***************************************************************************)
EXTENDS AgentReviews, AgentPasses, TLC

CONSTANTS proposal, edit,  \* changes to an entry
          d1, d2,          \* decision calls
          p1, p2,          \* two passes over it, or two requests of editors
          q1, q2, q3,      \* calls of a generation
          Parts            \* the components to run

VARIABLES part, mode, content, tokens, calls, log, acts, h1, h2, h3, h4

others == <<mode, content, tokens, calls, log, acts, h1, h2, h3, h4>>

Deployment(runtime, enrich, moderate, autoApply) ==
  [runtime |-> runtime, enrich |-> enrich, moderate |-> moderate, autoApply |-> autoApply]

SomeDeployments == {Deployment("durable", TRUE, TRUE, FALSE), Deployment("durable", FALSE, TRUE, TRUE),
                    Deployment("inline", FALSE, TRUE, FALSE)}

Budget == INSTANCE AiBudget WITH
  Calls <- {q1, q2, q3}, Guards <- {"redis", "object", "process"}, MaxRequests <- 1,
  MaxTokens <- 2, Window <- 2, Usages <- 0..2, MaxTime <- 4,
  guard <- mode, now <- acts, windows <- content, alarm <- tokens,
  tried <- h1, admitted <- h2, spent <- h3, forgotten <- h4

Asked(kind, place, apply, chosen, names) ==
  [kind |-> kind, at |-> place, apply |-> apply, chosen |-> chosen, names |-> names]

Assist == INSTANCE ContentAssist WITH
  Calls <- {p1, p2}, Fields <- {"title", "body"}, Locales <- {"en", "de"}, OldTags <- {1}, MaxActs <- 1,
  Jobs <- {Asked("translate", "title", TRUE, {}, <<>>), Asked("autofill", "body", TRUE, {}, <<>>),
           Asked("summarize", "title", FALSE, {}, <<>>), Asked("action", "body", TRUE, {}, <<>>),
           Asked("suggest", "tags", TRUE, {1}, <<2>>), Asked("approve", "tags", TRUE, {1}, <<2>>),
           Asked("approve", "tags", TRUE, {}, <<2, 2>>), Asked("autotag", "labels", TRUE, {}, <<2>>),
           Asked("alttext", "en", TRUE, {}, <<>>), Asked("alttext", "de", TRUE, {}, <<>>),
           Asked("draft", "none", FALSE, {}, <<>>)},
  contents <- content, version <- mode, vocabulary <- tokens, call <- calls, ledger <- log, made <- h1,
  excused <- h2

ASSUME Budget!AiBudgetAssumption /\ Assist!AssistAssumption
ASSUME Parts \subseteq {"reviews", "passes", "budget", "assist"}

\* A deployment and drafts for the parts that do not look at them.
Whatever ==
  /\ config = CHOOSE d \in Deployments : TRUE
  /\ draft = [e \in Entries |-> [version |-> 1, bad |-> FALSE, gap |-> FALSE]]

AgentsInit ==
  /\ part \in Parts
  /\ Init /\ PassesInit /\ (part # "passes" => Whatever)
  /\ \/ /\ part \in {"reviews", "passes"}
        /\ mode = 0 /\ content = 0 /\ tokens = 0 /\ calls = 0 /\ log = 0 /\ acts = 0
        /\ h1 = 0 /\ h2 = 0 /\ h3 = 0 /\ h4 = 0
     \/ part = "budget" /\ Budget!Init /\ log = 0
     \/ part = "assist" /\ Assist!Init /\ h3 = 0 /\ h4 = 0

AgentsNext ==
  \/ part = "reviews" /\ Next /\ UNCHANGED <<part, passesVars, others>>
  \/ part = "passes" /\ PassesNext /\ UNCHANGED <<part, vars, others>>
  \/ part = "budget" /\ Budget!Next /\ UNCHANGED <<part, vars, passesVars, log>>
  \/ part = "assist" /\ Assist!Next /\ UNCHANGED <<part, vars, passesVars, h3, h4>>

AgentsSpec ==
  /\ AgentsInit /\ [][AgentsNext]_<<part, vars, passesVars, others>>
  /\ \A d \in Deciders : WF_vars(part = "reviews" /\ DeciderGoes(d))
  /\ \A r \in Reviews : WF_vars(part = "reviews" /\ WatcherGoes(r))

\* The runs of passes are interchangeable, and so are the requests of editors.  The
\* liveness property is about the reviews, in whose states they stay as they began.
Symmetry == Permutations({p1, p2})

-------------------------------------------------------------------------------
\* Generations are admitted within the budget, and refused for cause (AiBudget).
BudgetKept == part = "budget" => Budget!BudgetKept

\* What people and calls do for an entry survives the calls of others (ContentAssist).
AssistKeepsWork == part = "assist" => Assist!AssistKeepsWork
=================================================================================
