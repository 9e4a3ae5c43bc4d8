------------------------------ MODULE AgentReviews ------------------------------
(***************************************************************************)
(* Agent reviews: a proposal waits for a human decision, which either the   *)
(* decider's own call or a durable watcher applies to the entry.  Both go   *)
(* through a marker on the review; a watcher's activities are retried from  *)
(* their start; any statement may fail and any process may die.             *)
(***************************************************************************)
EXTENDS Integers, Sequences, FiniteSets

CONSTANTS Reviews,      \* proposals for one entry; each has at most one watcher
          Edits,        \* saves of the same entry by its editors
          Deciders,     \* decision calls under way at a time
          MaxAttempts,  \* attempts of a watcher's activity
          MaxFailures   \* bound: failed statements, lost replies and deaths

\* What the constants are assumed to be.
ASSUME ReviewsAssumption ==
  /\ MaxAttempts \in Nat \ {0} /\ MaxFailures \in Nat
  /\ Reviews \intersect (Deciders \union Edits) = {}

VARIABLES
  review,     \* each review's row: its status, whether a watcher is armed, the apply marker
  version,    \* the entry's current version
  rows,       \* the proposals and edits each saved version of the entry contains
  call,       \* what each decider, and each review's watcher, is doing
  tries,      \* the attempts of the activity each watcher is in
  signal,     \* the decision delivered to each watcher
  ledger,     \* the outcomes recorded for each review
  applies,    \* history: how often each proposal was saved
  lost,       \* history: how many of those saves were reported as failures
  overlapped, \* history: the proposals and edits saved while a proposal was being merged
  doubted,    \* history: the reviews a call for which failed or died
  orphaned,   \* history: those whose marker a death or a failed cleanup left, or whose
              \* watcher gave up
  failures

Changes == Reviews \union Edits
entry == <<version, rows, applies, lost, overlapped>>
history == <<doubted, orphaned, failures>>
vars == <<review, entry, call, tries, signal, ledger, history>>

Decisions == {"approved", "rejected"}
Row == [status : Decisions \union {"none", "pending"}, awaiting : BOOLEAN, applied : BOOLEAN]
NoRow == [status |-> "none", awaiting |-> FALSE, applied |-> FALSE]

\* A decider and a watcher share the steps of the apply; "fields" to "save" lie in its
\* try block.
Trying == {"fields", "entry", "insert", "save"}
Applying == Trying \union {"mark", "record", "clear"}
DeciderSteps == Applying \union {"idle", "decide", "reread", "signal", "reject"}
WatcherSteps == Applying \union {"absent", "arm", "wait", "settle", "look", "done", "failed"}
Resting == {"idle", "absent", "done", "failed"}

\* What a caller executes next, its review, the verdict it carries, the row it read,
\* the fields it read and the version it read afterwards.
Callers == Deciders \union Reviews
Call == [step : DeciderSteps \union WatcherSteps, of : SUBSET Reviews,
         verdict : Decisions \union {"timeout"}, saw : Row, base : SUBSET Changes, seen : Nat]
Idle == [step |-> "idle", of |-> {}, verdict |-> "timeout", saw |-> NoRow, base |-> {}, seen |-> 0]
Absent(r) == [Idle EXCEPT !.step = "absent", !.of = {r}]

Init ==
  /\ review = [r \in Reviews |-> NoRow]
  /\ version = 1 /\ rows = <<{}>>
  /\ call = [p \in Callers |-> IF p \in Reviews THEN Absent(p) ELSE Idle]
  /\ tries = [r \in Reviews |-> 0]
  /\ signal = [r \in Reviews |-> "none"]
  /\ ledger = [r \in Reviews |-> [completed |-> 0, rejected |-> 0]]
  /\ applies = [r \in Reviews |-> 0] /\ lost = [r \in Reviews |-> 0]
  /\ overlapped = {} /\ doubted = {} /\ orphaned = {}
  /\ failures = 0

At(p, step) == call[p].step = step
Of(p) == CHOOSE r \in Reviews : r \in call[p].of
Goes(p, step) == call' = [call EXCEPT ![p].step = step]

\* The call is over: a decider returns, a watcher's workflow completes.
Over(p) == IF p \in Reviews THEN [Absent(p) EXCEPT !.step = "done"] ELSE Idle
Returns(p) == call' = [call EXCEPT ![p] = Over(p)]

\* An error leaves the call: a decider's request fails; a watcher's activity starts
\* again, and its workflow fails with the last attempt.
Activity(r) == IF At(r, "arm") THEN "arm" ELSE "settle"
GivesUp(p) == p \in Reviews /\ tries[p] + 1 >= MaxAttempts
Raises(p) ==
  /\ call' = [call EXCEPT ![p] =
       IF p \in Deciders THEN Idle
       ELSE [Absent(p) EXCEPT !.step = IF GivesUp(p) THEN "failed" ELSE Activity(p),
                              !.verdict = call[p].verdict]]
  /\ tries' = IF p \in Reviews THEN [tries EXCEPT ![p] = @ + 1] ELSE tries

Throws(p) ==
  IF call[p].step \in Trying THEN Goes(p, "clear") /\ UNCHANGED tries ELSE Raises(p)

-------------------------------------------------------------------------------
(***************************************************************************)
(* The agent's run proposes, and starts a watcher if it can.               *)
(***************************************************************************)
CreateReview(r) ==
  /\ review[r].status = "none"
  /\ review' = [review EXCEPT ![r].status = "pending"]
  /\ UNCHANGED <<entry, call, tries, signal, ledger, history>>

StartWatcher(r) ==
  /\ review[r].status # "none" /\ At(r, "absent")
  /\ Goes(r, "arm")
  /\ UNCHANGED <<review, entry, tries, signal, ledger, history>>

(***************************************************************************)
(* decideAgentReview.                                                      *)
(***************************************************************************)
Begin(d, r, verdict) ==
  /\ At(d, "idle") /\ review[r].status # "none"
  /\ call' = [call EXCEPT ![d] = [Idle EXCEPT !.step = "decide", !.of = {r},
                                              !.verdict = verdict, !.saw = review[r]]]
  /\ UNCHANGED <<review, entry, tries, signal, ledger, history>>

Redrivable(row) == row.status = "approved" /\ ~row.applied /\ ~row.awaiting

\* The row is decided once; losing that, an approval of an approved and unapplied
\* review drives the apply again.
Decide(d) ==
  LET r == Of(d) IN
  /\ At(d, "decide")
  /\ IF review[r].status = "pending"
     THEN /\ review' = [review EXCEPT ![r].status = call[d].verdict]
          /\ Goes(d, "reread")
     ELSE /\ IF call[d].verdict = "approved" /\ Redrivable(call[d].saw)
             THEN Goes(d, "mark") ELSE Returns(d)
          /\ UNCHANGED review
  /\ UNCHANGED <<entry, tries, signal, ledger, history>>

\* The path taken when no watcher takes the decision.
Directly(d) == IF call[d].verdict = "approved" THEN "mark" ELSE "reject"

Reread(d) ==
  /\ At(d, "reread")
  /\ Goes(d, IF review[Of(d)].awaiting THEN "signal" ELSE Directly(d))
  /\ UNCHANGED <<review, entry, tries, signal, ledger, history>>

\* Variant: the watcher's decider does not record a rejection.
Delivered_Done(d) == Returns(d)

Delivered(d) == IF call[d].verdict = "approved" THEN Returns(d) ELSE Goes(d, "reject")

\* A watcher that runs takes the decision; that may be reported as a failure.
Signal(d) ==
  LET r == Of(d) IN
  /\ At(d, "signal")
  /\ \/ /\ call[r].step \notin Resting
        /\ signal' = [signal EXCEPT ![r] = call[d].verdict]
        /\ Delivered(d) \/ Goes(d, Directly(d))
     \/ Goes(d, Directly(d)) /\ UNCHANGED signal
  /\ UNCHANGED <<review, entry, tries, ledger, history>>

RecordRejection(d) ==
  /\ At(d, "reject")
  /\ ledger' = [ledger EXCEPT ![Of(d)].rejected = @ + 1]
  /\ Returns(d)
  /\ UNCHANGED <<review, entry, tries, signal, history>>

-------------------------------------------------------------------------------
(***************************************************************************)
(* applyReviewOnce.                                                        *)
(***************************************************************************)
\* Variant: the marker is set whoever set it before.
MarkApplied_Unconditional(p) ==
  /\ At(p, "mark")
  /\ review' = [review EXCEPT ![Of(p)].applied = TRUE]
  /\ Goes(p, "fields")
  /\ UNCHANGED <<entry, tries, signal, ledger, history>>

MarkApplied(p) ==
  /\ At(p, "mark")
  /\ review' = [review EXCEPT ![Of(p)].applied = TRUE]
  /\ IF review[Of(p)].applied THEN Returns(p) ELSE Goes(p, "fields")
  /\ UNCHANGED <<entry, tries, signal, ledger, history>>

InTry == {q \in Callers : call[q].step \in Trying}

\* applyProposedFields reads the fields it merges into; updateEntry reads the entry again.
ReadFields(p) ==
  /\ At(p, "fields")
  /\ call' = [call EXCEPT ![p].step = "entry", ![p].base = rows[version]]
  /\ overlapped' = IF InTry = {p} THEN overlapped
                   ELSE overlapped \union UNION {call[q].of : q \in InTry}
  /\ UNCHANGED <<review, version, rows, applies, lost, tries, signal, ledger, history>>

ReadEntry(p) ==
  /\ At(p, "entry")
  /\ call' = [call EXCEPT ![p].step = "insert", ![p].seen = version]
  /\ UNCHANGED <<review, entry, tries, signal, ledger, history>>

\* Variant: only the proposed fields are saved.
Merged_ProposedOnly(p) == call[p].of

Merged(p) == call[p].base \union call[p].of

Inserted(p) ==
  /\ At(p, "insert") /\ call[p].seen = Len(rows)
  /\ rows' = Append(rows, Merged(p))
  /\ UNCHANGED <<review, version, applies, lost, overlapped, signal, ledger>>

InsertVersion(p) == Inserted(p) /\ Goes(p, "save") /\ UNCHANGED <<tries, history>>

\* The version exists already.
Collide(p) ==
  /\ At(p, "insert") /\ call[p].seen # Len(rows)
  /\ Throws(p)
  /\ doubted' = doubted \union call[p].of
  /\ UNCHANGED <<review, entry, signal, ledger, orphaned, failures>>

Saved(p, reported) ==
  /\ At(p, "save")
  /\ version' = call[p].seen + 1
  /\ applies' = [applies EXCEPT ![Of(p)] = @ + 1]
  /\ lost' = IF reported THEN lost ELSE [lost EXCEPT ![Of(p)] = @ + 1]
  /\ UNCHANGED <<review, rows, overlapped, signal, ledger>>

SaveEntry(p) == Saved(p, TRUE) /\ Goes(p, "record") /\ UNCHANGED <<tries, history>>

RecordApply(p) ==
  /\ At(p, "record")
  /\ ledger' = [ledger EXCEPT ![Of(p)].completed = @ + 1]
  /\ Returns(p)
  /\ UNCHANGED <<review, entry, tries, signal, history>>

\* Variant: a failed apply leaves its marker.
ClearApplied_Never(p) ==
  At(p, "clear") /\ Raises(p) /\ UNCHANGED <<review, entry, signal, ledger, history>>

ClearApplied(p) ==
  /\ At(p, "clear")
  /\ review' = [review EXCEPT ![Of(p)].applied = FALSE]
  /\ Raises(p)
  /\ orphaned' = IF GivesUp(p) THEN orphaned \union {p} ELSE orphaned
  /\ UNCHANGED <<entry, signal, ledger, doubted, failures>>

\* updateEntry by an editor who has just loaded the entry.
Edit(e) ==
  /\ \A i \in DOMAIN rows : e \notin rows[i]
  /\ version = Len(rows)
  /\ rows' = Append(rows, rows[version] \union {e})
  /\ version' = version + 1
  /\ overlapped' = IF InTry = {} THEN overlapped
                   ELSE overlapped \union {e} \union UNION {call[q].of : q \in InTry}
  /\ UNCHANGED <<review, applies, lost, call, tries, signal, ledger, history>>

-------------------------------------------------------------------------------
(***************************************************************************)
(* reviewWorkflow and settleReviewOutcome: r is its watcher.               *)
(***************************************************************************)
Settles(r, outcome) ==
  /\ call' = [call EXCEPT ![r].step = "settle", ![r].verdict = outcome]
  /\ tries' = [tries EXCEPT ![r] = 0]

Arm(r) ==
  /\ At(r, "arm")
  /\ IF review[r].status = "pending" /\ ~review[r].awaiting
     THEN /\ review' = [review EXCEPT ![r].awaiting = TRUE]
          /\ Goes(r, "wait") /\ UNCHANGED tries
     ELSE /\ Settles(r, IF review[r].status = "pending" THEN "timeout" ELSE review[r].status)
          /\ UNCHANGED review
  /\ UNCHANGED <<entry, signal, ledger, history>>

\* The decision arrives, or the wait times out without one.
Wait(r) ==
  /\ At(r, "wait")
  /\ Settles(r, IF signal[r] = "none" THEN "timeout" ELSE signal[r])
  /\ UNCHANGED <<review, entry, signal, ledger, history>>

ClearAwaiting(r) ==
  /\ At(r, "settle")
  /\ review' = [review EXCEPT ![r].awaiting = FALSE]
  /\ Goes(r, "look")
  /\ UNCHANGED <<entry, tries, signal, ledger, history>>

\* Variant: a timeout is taken at face value.
Effective_AtFaceValue(r) == call[r].verdict

Effective(r) == IF call[r].verdict = "timeout" THEN review[r].status ELSE call[r].verdict

Look(r) ==
  /\ At(r, "look")
  /\ IF Effective(r) = "approved" THEN Goes(r, "mark") ELSE Returns(r)
  /\ UNCHANGED <<review, entry, tries, signal, ledger, history>>

-------------------------------------------------------------------------------
Trouble(p) ==
  /\ failures < MaxFailures
  /\ failures' = failures + 1
  /\ doubted' = doubted \union call[p].of

\* A statement fails: nothing is written, the error is handled.  The cleanup's own
\* error is swallowed, and so is a failed delivery (Signal).
Fail(p) ==
  /\ call[p].step \notin Resting \union {"wait", "signal"}
  /\ Trouble(p)
  /\ Throws(p)
  /\ orphaned' = IF At(p, "clear") \/ (call[p].step \notin Trying /\ GivesUp(p))
                 THEN orphaned \union call[p].of ELSE orphaned
  /\ UNCHANGED <<review, entry, signal, ledger>>

\* A version or the entry is written, but the caller is told it failed.
LoseReply(p) ==
  /\ Trouble(p)
  /\ Inserted(p) \/ Saved(p, FALSE)
  /\ Throws(p)
  /\ UNCHANGED orphaned

\* The process dies: a request is gone, an activity is started again.
Die(p) ==
  /\ call[p].step \notin Resting \union {"wait"}
  /\ Trouble(p)
  /\ Raises(p)
  /\ orphaned' = IF call[p].step \in Trying \union {"clear"} \/ GivesUp(p)
                 THEN orphaned \union call[p].of ELSE orphaned
  /\ UNCHANGED <<review, entry, signal, ledger>>

Apply(p) == \/ MarkApplied(p) \/ ReadFields(p) \/ ReadEntry(p) \/ InsertVersion(p) \/ Collide(p)
            \/ SaveEntry(p) \/ RecordApply(p) \/ ClearApplied(p)
DeciderGoes(d) == Decide(d) \/ Reread(d) \/ Signal(d) \/ RecordRejection(d) \/ Apply(d)
WatcherGoes(r) == Arm(r) \/ Wait(r) \/ ClearAwaiting(r) \/ Look(r) \/ Apply(r)

Next ==
  \/ \E r \in Reviews : CreateReview(r) \/ StartWatcher(r) \/ WatcherGoes(r)
  \/ \E d \in Deciders : DeciderGoes(d) \/ \E r \in Reviews, v \in Decisions : Begin(d, r, v)
  \/ \E e \in Edits : Edit(e)
  \/ \E p \in Callers : Fail(p) \/ LoseReply(p) \/ Die(p)

Spec == Init /\ [][Next]_vars

\* Calls and activities go on, and a wait ends; nobody has to decide, to repeat an
\* approval or to start a watcher.
FairSpec ==
  /\ Spec
  /\ \A d \in Deciders : WF_vars(DeciderGoes(d))
  /\ \A r \in Reviews : WF_vars(WatcherGoes(r))

-------------------------------------------------------------------------------
TypeOK ==
  /\ review \in [Reviews -> Row]
  /\ rows \in Seq(SUBSET Changes) /\ version \in 1..Len(rows)
  /\ call \in [Callers -> Call]
  /\ \A d \in Deciders : call[d].step \in DeciderSteps
  /\ \A r \in Reviews : call[r].step \in WatcherSteps /\ call[r].of = {r}
  /\ tries \in [Reviews -> 0..MaxAttempts]
  /\ signal \in [Reviews -> Decisions \union {"none"}]
  /\ ledger \in [Reviews -> [completed : Nat, rejected : Nat]]
  /\ applies \in [Reviews -> Nat] /\ lost \in [Reviews -> Nat]
  /\ overlapped \subseteq Changes /\ doubted \subseteq Reviews /\ orphaned \subseteq doubted
  /\ failures \in 0..MaxFailures

\* "the proposal is applied exactly once": only an approved proposal is applied, and
\* again only for a save that was reported as a failure.
AppliedOnce ==
  \A r \in Reviews :
    applies[r] <= IF review[r].status = "approved" THEN 1 + lost[r] ELSE 0

Quiet(r) == \A p \in Callers : r \in call[p].of => call[p].step \in Resting

\* "repeating an identical approval ... retries the apply": an approved review no call
\* works on has been applied or can be driven again, unless a process died in between,
\* a cleanup failed or its watcher gave up.
ApprovalNotStuck ==
  \A r \in Reviews :
    review[r].status = "approved" /\ Quiet(r) /\ r \notin orphaned
      => applies[r] > 0 \/ Redrivable(review[r])

\* The ledger has no outcome that did not happen, and every outcome of a review no
\* call for which failed.
LedgerTellsOutcome ==
  \A r \in Reviews :
    /\ ledger[r].completed <= applies[r]
    /\ ledger[r].rejected <= IF review[r].status = "rejected" THEN 1 ELSE 0
    /\ Quiet(r) /\ r \notin doubted =>
         /\ ledger[r].completed = applies[r]
         /\ review[r].status = "rejected" => ledger[r].rejected = 1

\* An applied proposal, or an editor's save, is missing from the entry's current version
\* only if it was saved while a proposal was merged into fields read before.
LostOnlyToOverlap ==
  \A c \in Changes \ overlapped :
    IF c \in Edits THEN \A i \in 1..version : c \in rows[i] => c \in rows[version]
                   ELSE applies[c] > 0 => c \in rows[version]

\* A decision is not lost between a decider that hands it over and a watcher that
\* stands down: an approval is applied unless a call for it failed.
ApprovalLands ==
  \A r \in Reviews : review[r].status = "approved" ~> applies[r] > 0 \/ r \in doubted

===============================================================================
