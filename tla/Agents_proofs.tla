----------------------------- MODULE Agents_proofs -----------------------------
(***************************************************************************)
(* What reviews of proposals guarantee for any proposals, editors and      *)
(* deciders, any attempts of the watchers and any failures: a proposal is  *)
(* saved once, the ledger tells it, an approval can be driven on, and a    *)
(* merge loses nothing but what was saved under it.                        *)
(***************************************************************************)
EXTENDS AgentReviews, AgentPasses, TLAPS

(***************************************************************************)
(* The inductive invariant.                                                *)
(***************************************************************************)
\* What a caller is about to do for a review: see a decision through that is its own, apply
\* the proposal with the marker set, or record what it applied.
Role(p, r) ==
  IF r \notin call[p].of THEN "none"
  ELSE IF call[p].step \in Trying \union {"clear"} THEN "applies"
  ELSE IF call[p].step = "record" THEN "records"
  ELSE IF call[p].step \in {"reread", "signal", "reject"} THEN "decides" ELSE "none"
Someone(r, role) == \E p \in Callers : Role(p, r) = role
AtMostOne(r, role) == \A p, q \in Callers : Role(p, r) = role /\ Role(q, r) = role => p = q

\* A call that is not idle is for one review.
OneReview ==
  /\ \A d \in Deciders : IF call[d].step = "idle" THEN call[d].of = {}
                         ELSE \E r \in Reviews : call[d].of = {r}
  /\ \A r \in Reviews : call[r].of = {r}

\* A review some call works on has been proposed.
Proposed == \A p \in Callers, r \in Reviews :
  r \in call[p].of /\ call[p].step \notin Resting => review[r].status # "none"

\* A watcher that has failed has used up its attempts; a cleanup follows a failure.
Spent == \A r \in Reviews : tries[r] < MaxAttempts \/ call[r].step = "failed"
Cleans == \A p \in Callers : At(p, "clear") => call[p].of \subseteq doubted

\* What callers, watchers and signals say was decided is what the review's row says.
VerdictsTrue ==
  /\ \A d \in Deciders, r \in Reviews :
       /\ Role(d, r) = "decides" => review[r].status = call[d].verdict
       /\ r \in call[d].of => /\ call[d].verdict \in Decisions
                              /\ call[d].saw.status = "approved" => review[r].status = "approved"
       /\ r \in call[d].of /\ call[d].step = "reject" => call[d].verdict = "rejected"
  /\ \A r \in Reviews :
       /\ signal[r] # "none" => review[r].status = signal[r]
       /\ call[r].verdict # "timeout" => review[r].status = call[r].verdict
  /\ \A p \in Callers, r \in Reviews :
       r \in call[p].of /\ call[p].step \in Applying => review[r].status = "approved"

\* The marker admits one caller at a time.  While it is clear, or its caller applies, nothing
\* of the proposal has been saved but saves that were reported as failures.
MarkerHeld(r) ==
  /\ AtMostOne(r, "applies")
  /\ Someone(r, "applies") => review[r].applied
  /\ ~review[r].applied \/ Someone(r, "applies") =>
       applies[r] = lost[r] /\ ledger[r].completed = 0 /\ ~Someone(r, "records")

\* A proposal is saved once but for the saves reported as failures, and only if approved;
\* what was saved is recorded once.
SavesCounted(r) ==
  /\ applies[r] \in {lost[r], lost[r] + 1}
  /\ review[r].status # "approved" => applies[r] = 0
  /\ lost[r] + ledger[r].completed <= applies[r]
  /\ AtMostOne(r, "records")
  /\ Someone(r, "records") => applies[r] = lost[r] + 1 /\ ledger[r].completed = 0
  /\ r \notin doubted => /\ lost[r] = 0
                         /\ applies[r] = ledger[r].completed \/ Someone(r, "records")

\* One call decides a review, and records a rejection once.
RejectedOnce(r) ==
  /\ AtMostOne(r, "decides")
  /\ Someone(r, "decides") => ledger[r].rejected = 0
  /\ ledger[r].rejected <= IF review[r].status = "rejected" THEN 1 ELSE 0
  /\ review[r].status \in {"none", "pending"} => ~Someone(r, "decides")
  /\ r \notin doubted /\ review[r].status = "rejected" =>
       ledger[r].rejected = 1 \/ Someone(r, "decides")

\* A marker or an armed watcher without an owner is known.
MarkerOwned(r) ==
  r \notin orphaned /\ review[r].applied => applies[r] > 0 \/ Someone(r, "applies")
WatchersOwned == \A r \in Reviews :
  r \notin orphaned /\ review[r].awaiting => call[r].step \in {"wait", "settle"}

\* A caller that has read the fields it merges into, and the changes that the saved
\* versions have contained.
Merges(p) == call[p].step \in {"entry", "insert", "save"}
Kept(c) == IF c \in Edits THEN \E i \in 1..version : c \in rows[i] ELSE applies[c] > 0

\* A merge contains what was saved but for the changes that overlapped one, and goes into
\* the version after the entry's current one.
MergesComplete ==
  /\ \A p \in Callers, c \in Changes \ overlapped : Merges(p) /\ Kept(c) => c \in Merged(p)
  /\ \A p \in Callers, c \in Edits : Merges(p) /\ c \in call[p].base => Kept(c)
  /\ \A p, q \in Callers : Merges(p) /\ Merges(q) /\ p # q => call[p].of \subseteq overlapped

MergesNext ==
  /\ \A p \in Callers : At(p, "insert") => call[p].seen <= version
  /\ \A p \in Callers : At(p, "save") =>
       /\ call[p].seen = version /\ Len(rows) = version + 1 /\ rows[version + 1] = Merged(p)
       /\ \A q \in Callers : At(q, "save") => q = p

Inv ==
  /\ TypeOK /\ OneReview /\ Proposed /\ Spent /\ Cleans /\ VerdictsTrue
  /\ \A r \in Reviews : MarkerHeld(r) /\ SavesCounted(r) /\ RejectedOnce(r) /\ MarkerOwned(r)
  /\ WatchersOwned /\ MergesComplete /\ MergesNext /\ LostOnlyToOverlap

-------------------------------------------------------------------------------
(***************************************************************************)
(* What a step does to its caller.                                         *)
(***************************************************************************)
USE ReviewsAssumption

\* Caller p goes on with step s; or its call is over, for good or for another attempt.
Others(p) == \A q \in Callers \ {p} : call'[q] = call[q]
Went(p, s) ==
  /\ call'[p].step = s /\ call'[p].of = call[p].of /\ call'[p].verdict = call[p].verdict
  /\ call'[p].saw = call[p].saw /\ call'[p].base = call[p].base /\ call'[p].seen = call[p].seen
  /\ Others(p)
Ended(p) ==
  /\ p \in Deciders => call'[p] = Idle
  /\ p \in Reviews => /\ call'[p].step \in {"done", "failed", "arm", "settle"}
                      /\ call'[p].of = {p} /\ call'[p].saw = NoRow
                      /\ call'[p].verdict \in {"timeout", call[p].verdict}
                      /\ call'[p].base = {} /\ call'[p].seen = 0
  /\ Others(p)

Calls == /\ call \in [Callers -> Call] /\ \A d \in Deciders : call[d].step \in DeciderSteps
         /\ \A r \in Reviews : call[r].step \in WatcherSteps /\ call[r].of = {r}
         /\ tries \in [Reviews -> 0..MaxAttempts] /\ OneReview /\ Spent

\* A caller at a step that is not "idle" is for one review.
LEMMA OfIs == ASSUME Calls, NEW p \in Callers, call[p].step # "idle"
              PROVE  Of(p) \in Reviews /\ call[p].of = {Of(p)}
<1>1. \E r \in Reviews : call[p].of = {r} BY DEF Calls, OneReview, Callers
<1> QED BY <1>1 DEF Of

\* Going on with a step a caller may take.
LEMMA GoesOn == ASSUME Calls, NEW p \in Callers, NEW s, call[p].step # "idle", s # "idle",
                       s \in Applying \/ (p \in Deciders /\ s \in DeciderSteps)
                                      \/ (p \in Reviews /\ s \in WatcherSteps),
                       call[p].step # "failed", Goes(p, s), tries' = tries
                PROVE  Went(p, s) /\ Calls'
<1>1. /\ call' \in [Callers -> Call] /\ Went(p, s)
  BY DEF Calls, Goes, Went, Others, Call, Callers, DeciderSteps, WatcherSteps, Applying
<1>2. /\ \A d \in Deciders : call'[d].step \in DeciderSteps
      /\ \A r \in Reviews : call'[r].step \in WatcherSteps /\ call'[r].of = {r}
  BY <1>1 DEF Calls, Went, Others, Callers, DeciderSteps, WatcherSteps, ReviewsAssumption
<1>3. OneReview' BY <1>1 DEF Calls, OneReview, Went, Others, Callers
<1>4. Spent' BY <1>1 DEF Calls, Spent, Went, Others, Callers
<1> QED BY <1>1, <1>2, <1>3, <1>4 DEF Calls

\* A call that ends.
LEMMA IdleCall == Idle \in Call /\ \A r \in Reviews : Absent(r) \in Call
BY DEF Idle, Absent, Call, NoRow, Row, DeciderSteps, WatcherSteps

LEMMA EndedCalls == ASSUME Calls, NEW p \in Callers, NEW c \in Call, call[p].step # "idle",
                           p \in Deciders => c = Idle,
                           p \in Reviews => /\ c.step \in {"done", "failed", "arm", "settle"}
                                            /\ c.of = {p} /\ c.saw = NoRow
                                            /\ c.verdict \in {"timeout", call[p].verdict}
                                            /\ c.base = {} /\ c.seen = 0,
                           call' = [call EXCEPT ![p] = c], tries' \in [Reviews -> 0..MaxAttempts],
                           \A r \in Reviews \ {p} : tries'[r] = tries[r],
                           p \in Reviews => tries'[p] < MaxAttempts \/ c.step = "failed"
                    PROVE  Ended(p) /\ Calls'
<1>1. call' \in [Callers -> Call] /\ call'[p] = c /\ Others(p)
  BY DEF Calls, Others
<1>2. Ended(p) BY <1>1 DEF Ended
<1>3. /\ \A d \in Deciders : call'[d].step \in DeciderSteps
      /\ \A r \in Reviews : call'[r].step \in WatcherSteps /\ call'[r].of = {r}
  BY <1>1 DEF Calls, Others, Callers, DeciderSteps, WatcherSteps, Idle
<1>4. OneReview' BY <1>1, <1>3 DEF Calls, OneReview, Others, Callers, Idle
<1>5. Spent' BY <1>1 DEF Calls, Spent, Others, Callers
<1> QED BY <1>1, <1>2, <1>3, <1>4, <1>5 DEF Calls

LEMMA ReturnsEnds == ASSUME Calls, NEW p \in Callers, call[p].step # "idle",
                            call[p].step # "failed", Returns(p), tries' = tries
                     PROVE  Ended(p) /\ Calls' /\ (p \in Reviews => call'[p].step = "done")
<1> DEFINE c == Over(p)
<1>1. c \in Call BY IdleCall DEF Over, Absent, Idle, Call, WatcherSteps
<1>2. /\ p \in Deciders => c = Idle
      /\ p \in Reviews => /\ c.step = "done" /\ c.of = {p} /\ c.saw = NoRow
                          /\ c.verdict = "timeout" /\ c.base = {} /\ c.seen = 0
  BY DEF Over, Absent, Idle
<1>3. call' = [call EXCEPT ![p] = c] BY DEF Returns
<1>4. call'[p] = c BY <1>3 DEF Calls
<1>5. p \in Reviews => tries'[p] < MaxAttempts BY DEF Calls, Spent
<1>6. tries' \in [Reviews -> 0..MaxAttempts] BY DEF Calls
<1> HIDE DEF c
<1> QED BY <1>1, <1>2, <1>3, <1>4, <1>5, <1>6, EndedCalls

LEMMA RaisesEnds == ASSUME Calls, NEW p \in Callers, call[p].step # "idle",
                           call[p].step # "failed", Raises(p)
                    PROVE  /\ Ended(p) /\ Calls'
                           /\ p \in Reviews =>
                                /\ call'[p].verdict = call[p].verdict
                                /\ call'[p].step = IF GivesUp(p) THEN "failed"
                                                   ELSE IF call[p].step = "arm" THEN "arm" ELSE "settle"
<1> DEFINE s == IF GivesUp(p) THEN "failed" ELSE Activity(p)
           c == IF p \in Deciders THEN Idle
                ELSE [Absent(p) EXCEPT !.step = s, !.verdict = call[p].verdict]
<1>0. s \in {"failed", "arm", "settle"} BY DEF Activity
<1>1. c \in Call
  <2>1. call[p].verdict \in Decisions \union {"timeout"} BY DEF Calls, Call
  <2>2. CASE p \in Deciders BY <2>2, IdleCall
  <2>3. CASE p \notin Deciders
    <3>1. Absent(p) \in Call BY <2>3, IdleCall DEF Callers
    <3>2. s \in DeciderSteps \union WatcherSteps BY <1>0 DEF WatcherSteps
    <3> HIDE DEF s
    <3> QED BY <2>1, <2>3, <3>1, <3>2 DEF Call
  <2> QED BY <2>2, <2>3
<1>2. /\ p \in Deciders => c = Idle
      /\ p \in Reviews => /\ c.step = s /\ c.of = {p} /\ c.saw = NoRow
                          /\ c.verdict = call[p].verdict /\ c.base = {} /\ c.seen = 0
  BY DEF Absent, Idle
<1>3. call' = [call EXCEPT ![p] = c] BY DEF Raises
<1>4. call'[p] = c BY <1>3 DEF Calls
<1>5. s = IF GivesUp(p) THEN "failed" ELSE IF call[p].step = "arm" THEN "arm" ELSE "settle"
  BY DEF Activity, At
<1>6. /\ tries' \in [Reviews -> 0..MaxAttempts] /\ \A r \in Reviews \ {p} : tries'[r] = tries[r]
      /\ p \in Reviews => tries'[p] < MaxAttempts \/ s = "failed"
  BY DEF Raises, Calls, Spent, GivesUp
<1> HIDE DEF c, s
<1>7. Ended(p) /\ Calls' BY <1>0, <1>1, <1>2, <1>3, <1>6, EndedCalls
<1> QED BY <1>2, <1>4, <1>5, <1>7

-------------------------------------------------------------------------------
(***************************************************************************)
(* What the actions do, item by item: p is a caller and r its review.      *)
(***************************************************************************)
RowIs(r, status, awaiting, applied) ==
  /\ review'[r].status = status /\ review'[r].awaiting = awaiting /\ review'[r].applied = applied
  /\ \A q \in Reviews \ {r} : review'[q] = review[q]
KeepsEntry == /\ version' = version /\ rows' = rows /\ applies' = applies /\ lost' = lost
              /\ overlapped' = overlapped
KeepsOutcome == signal' = signal /\ ledger' = ledger
KeepsTrouble == doubted' = doubted /\ orphaned' = orphaned
KeepsAll == review' = review /\ KeepsEntry /\ KeepsOutcome /\ KeepsTrouble
Troubled(r) == doubted' = doubted \union {r} /\ orphaned' \in {orphaned, orphaned \union {r}}

Proposes(r) ==
  /\ review[r].status = "none"
  /\ RowIs(r, "pending", review[r].awaiting, review[r].applied)
  /\ call' = call /\ KeepsEntry /\ KeepsOutcome /\ KeepsTrouble

Begins(d, r) ==
  /\ call[d].step = "idle" /\ review[r].status # "none"
  /\ call'[d].step = "decide" /\ call'[d].of = {r} /\ call'[d].verdict \in Decisions
  /\ call'[d].saw = review[r] /\ Others(d)
  /\ KeepsAll

Decides(d, r) ==
  /\ call[d].step = "decide" /\ review[r].status = "pending"
  /\ RowIs(r, call[d].verdict, review[r].awaiting, review[r].applied)
  /\ Went(d, "reread") /\ KeepsEntry /\ KeepsOutcome /\ KeepsTrouble

\* The call goes on, for one of its reasons to.
Turns(p, r, s) ==
  /\ Went(p, s) /\ KeepsAll
  /\ \/ p = r /\ call[p].step = "absent" /\ s = "arm" /\ review[r].status # "none"
     \/ call[p].step = "decide" /\ s = "mark" /\ call[p].verdict = "approved" /\ Redrivable(call[p].saw)
     \/ call[p].step = "reread" /\ s = "signal"
     \/ call[p].step \in {"reread", "signal"} /\ s = Directly(p)
     \/ p = r /\ call[p].step = "look" /\ s = "mark" /\ Effective(r) = "approved"

Signals(d, r) ==
  /\ call[d].step = "signal" /\ signal' = [signal EXCEPT ![r] = call[d].verdict]
  /\ \/ call[d].verdict = "approved" /\ Ended(d)
     \/ Went(d, Directly(d))
  /\ review' = review /\ KeepsEntry /\ ledger' = ledger /\ KeepsTrouble

\* The call is over: it has nothing to do, or it failed.
Leaves(p, r) ==
  /\ Ended(p) /\ review' = review /\ KeepsEntry /\ KeepsOutcome
  /\ \/ KeepsTrouble /\ call[p].step = "decide"
     \/ KeepsTrouble /\ call[p].step = "mark" /\ review[r].applied
     \/ KeepsTrouble /\ call[p].step = "look" /\ Effective(r) # "approved"
     \/ /\ call[p].step \notin Resting \union {"wait"} /\ Troubled(r)
        /\ call[p].step \in Trying \union {"clear"} => r \in orphaned'
        /\ call[p].step = "settle" => call'[p].step = "settle" \/ r \in orphaned'

Marks(p, r) ==
  /\ call[p].step = "mark" /\ ~review[r].applied
  /\ RowIs(r, review[r].status, review[r].awaiting, TRUE)
  /\ Went(p, "fields") /\ KeepsEntry /\ KeepsOutcome /\ KeepsTrouble

Reads(p, r) ==
  /\ call[p].step = "fields" /\ call'[p].step = "entry" /\ call'[p].of = call[p].of
  /\ call'[p].verdict = call[p].verdict /\ call'[p].saw = call[p].saw
  /\ call'[p].base = rows[version] /\ Others(p)
  /\ \/ InTry = {p} /\ overlapped' = overlapped
     \/ overlapped' = overlapped \union UNION {call[q].of : q \in InTry}
  /\ review' = review /\ version' = version /\ rows' = rows /\ applies' = applies /\ lost' = lost
  /\ KeepsOutcome /\ KeepsTrouble

Rereads(p, r) ==
  /\ call[p].step = "entry" /\ call'[p].step = "insert" /\ call'[p].of = call[p].of
  /\ call'[p].verdict = call[p].verdict /\ call'[p].saw = call[p].saw
  /\ call'[p].base = call[p].base /\ call'[p].seen = version /\ Others(p)
  /\ KeepsAll

\* A caller that writes goes on, or is told that it failed.
GoesOnOrFails(p, r, s) ==
  \/ Went(p, s) /\ doubted' = doubted
  \/ Went(p, "clear") /\ doubted' = doubted \union {r}

Inserts(p, r) ==
  /\ call[p].step = "insert" /\ call[p].seen = Len(rows)
  /\ rows' = Append(rows, Merged(p)) /\ GoesOnOrFails(p, r, "save")
  /\ review' = review /\ version' = version /\ applies' = applies /\ lost' = lost
  /\ overlapped' = overlapped /\ KeepsOutcome /\ orphaned' = orphaned

Saves(p, r) ==
  /\ call[p].step = "save" /\ version' = call[p].seen + 1
  /\ applies' = [applies EXCEPT ![r] = @ + 1]
  /\ \/ Went(p, "record") /\ lost' = lost /\ doubted' = doubted
     \/ /\ Went(p, "clear") /\ lost' = [lost EXCEPT ![r] = @ + 1]
        /\ doubted' = doubted \union {r}
  /\ review' = review /\ rows' = rows /\ overlapped' = overlapped
  /\ KeepsOutcome /\ orphaned' = orphaned

\* The apply fails before it has saved.
Breaks(p, r) ==
  /\ call[p].step \in Trying /\ Went(p, "clear")
  /\ doubted' = doubted \union {r} /\ orphaned' = orphaned
  /\ review' = review /\ KeepsEntry /\ KeepsOutcome

RecordsApply(p, r) ==
  /\ call[p].step = "record" /\ Ended(p)
  /\ ledger' = [ledger EXCEPT ![r].completed = @ + 1]
  /\ review' = review /\ KeepsEntry /\ signal' = signal /\ KeepsTrouble

RecordsRejection(d, r) ==
  /\ call[d].step = "reject" /\ Ended(d)
  /\ ledger' = [ledger EXCEPT ![r].rejected = @ + 1]
  /\ review' = review /\ KeepsEntry /\ signal' = signal /\ KeepsTrouble

Clears(p, r) ==
  /\ call[p].step = "clear" /\ Ended(p)
  /\ RowIs(r, review[r].status, review[r].awaiting, FALSE)
  /\ orphaned' \in {orphaned, orphaned \union {r}} /\ doubted' = doubted
  /\ KeepsEntry /\ KeepsOutcome

Edited(e) ==
  /\ \A i \in DOMAIN rows : e \notin rows[i]
  /\ version = Len(rows) /\ version' = version + 1
  /\ rows' = Append(rows, rows[version] \union {e})
  /\ \/ InTry = {} /\ overlapped' = overlapped
     \/ overlapped' = overlapped \union {e} \union UNION {call[q].of : q \in InTry}
  /\ review' = review /\ applies' = applies /\ lost' = lost /\ call' = call
  /\ KeepsOutcome /\ KeepsTrouble

Arms(r) ==
  /\ call[r].step = "arm" /\ review[r].status = "pending" /\ ~review[r].awaiting
  /\ RowIs(r, "pending", TRUE, review[r].applied)
  /\ Went(r, "wait") /\ KeepsEntry /\ KeepsOutcome /\ KeepsTrouble

Settled(r) ==
  /\ call[r].step \in {"arm", "wait"}
  /\ call'[r].step = "settle" /\ call'[r].of = {r} /\ call'[r].saw = call[r].saw
  /\ call'[r].verdict \in {"timeout"} \union ({signal[r], review[r].status} \intersect Decisions)
  /\ Others(r) /\ KeepsAll

Disarms(r) ==
  /\ call[r].step = "settle" /\ Went(r, "look")
  /\ RowIs(r, review[r].status, FALSE, review[r].applied)
  /\ KeepsEntry /\ KeepsOutcome /\ KeepsTrouble

Stutters == call' = call /\ KeepsAll

\* What one caller does for its review.
Effect(p, r) ==
  \/ Decides(p, r) \/ (\E s \in DeciderSteps \union WatcherSteps : Turns(p, r, s)) \/ Signals(p, r)
  \/ Leaves(p, r) \/ Marks(p, r) \/ Reads(p, r) \/ Rereads(p, r) \/ Inserts(p, r) \/ Saves(p, r)
  \/ Breaks(p, r) \/ RecordsApply(p, r) \/ RecordsRejection(p, r) \/ Clears(p, r)
  \/ p = r /\ (Arms(r) \/ Settled(r) \/ Disarms(r))

Shapes ==
  /\ review \in [Reviews -> Row] /\ Calls
  /\ rows \in Seq(SUBSET Changes) /\ version \in Nat
  /\ signal \in [Reviews -> Decisions \union {"none"}]
  /\ ledger \in [Reviews -> [completed : Nat, rejected : Nat]]
  /\ applies \in [Reviews -> Nat] /\ lost \in [Reviews -> Nat]
  /\ overlapped \subseteq Changes /\ doubted \subseteq Reviews /\ orphaned \subseteq Reviews
  /\ failures \in 0..MaxFailures

Known == TypeOK /\ OneReview /\ Proposed /\ Spent

LEMMA KnownShapes == Known => Shapes /\ version \in 1..Len(rows)
BY DEF Known, TypeOK, Shapes, Calls

\* Shapes after a step that changes calls, or calls and reviews, and no more.
LEMMA KeptShapes == ASSUME Shapes, review' \in [Reviews -> Row], Calls', KeepsEntry, KeepsOutcome,
                           KeepsTrouble \/ (\E r \in Reviews : Troubled(r)),
                           failures' \in 0..MaxFailures
                    PROVE  Shapes'
BY DEF Shapes, KeepsEntry, KeepsOutcome, KeepsTrouble, Troubled

LEMMA RowChanges ==
  ASSUME review \in [Reviews -> Row], NEW r \in Reviews, NEW row \in Row,
         review' = [review EXCEPT ![r] = row]
  PROVE  review' \in [Reviews -> Row] /\ RowIs(r, row.status, row.awaiting, row.applied)
BY DEF RowIs

LEMMA CallChanges ==
  ASSUME Calls, NEW p \in Callers, NEW r \in Reviews, NEW c \in Call, c.of = {r},
         c.step # "idle",
         p \in Deciders => c.step \in DeciderSteps,
         p \in Reviews => c.step \in WatcherSteps \ {"failed"} /\ p = r /\ tries'[p] < MaxAttempts,
         call' = [call EXCEPT ![p] = c], tries' \in [Reviews -> 0..MaxAttempts],
         \A q \in Reviews \ {p} : tries'[q] = tries[q]
  PROVE  Calls' /\ call'[p] = c /\ Others(p)
<1>1. call' \in [Callers -> Call] /\ call'[p] = c /\ Others(p)
  BY DEF Calls, Others
<1>2. /\ \A d \in Deciders : call'[d].step \in DeciderSteps
      /\ \A q \in Reviews : call'[q].step \in WatcherSteps /\ call'[q].of = {q}
  BY <1>1 DEF Calls, Others, Callers
<1>3. OneReview' BY <1>1, <1>2 DEF Calls, OneReview, Others, Callers
<1>4. Spent' BY <1>1 DEF Calls, Spent, Others, Callers
<1> QED BY <1>1, <1>2, <1>3, <1>4 DEF Calls

\* Creating a review, starting a watcher and beginning a decision.
LEMMA CreateReviewDoes == ASSUME Known, NEW r \in Reviews, CreateReview(r)
                          PROVE  Proposes(r) /\ Shapes'
<1>1. Shapes BY KnownShapes
<1> DEFINE row == [review[r] EXCEPT !.status = "pending"]
<1>2. /\ row \in Row /\ row.status = "pending"
      /\ row.awaiting = review[r].awaiting /\ row.applied = review[r].applied
  <2>1. review[r] \in Row BY <1>1 DEF Shapes
  <2>2. /\ review[r].awaiting \in BOOLEAN /\ review[r].applied \in BOOLEAN
        /\ row = [status |-> "pending", awaiting |-> review[r].awaiting, applied |-> review[r].applied]
    BY <2>1 DEF Row
  <2> QED BY <2>2 DEF Row
<1>3. review' = [review EXCEPT ![r] = row] BY DEF CreateReview
<1> HIDE DEF row
<1>4. review' \in [Reviews -> Row] /\ RowIs(r, "pending", review[r].awaiting, review[r].applied)
  BY <1>1, <1>2, <1>3, RowChanges DEF Shapes, RowIs
<1>5. KeepsEntry /\ KeepsOutcome /\ KeepsTrouble /\ call' = call /\ tries' = tries /\ failures' = failures
  BY DEF CreateReview, entry, history, KeepsEntry, KeepsOutcome, KeepsTrouble
<1>6. Calls' BY <1>1, <1>5 DEF Shapes, Calls, OneReview, Spent
<1>7. failures' \in 0..MaxFailures BY <1>1, <1>5 DEF Shapes
<1> QED BY <1>1, <1>4, <1>5, <1>6, <1>7, KeptShapes DEF CreateReview, Proposes

\* Steps that only move the call.
Moves(p, s) == Goes(p, s) /\ tries' = tries /\ failures' = failures /\ KeepsAll

LEMMA MovesShapes ==
  ASSUME Known, NEW p \in Callers, NEW s, call[p].step \notin {"idle", "failed"}, s # "idle",
         s \in Applying \/ (p \in Deciders /\ s \in DeciderSteps)
                        \/ (p \in Reviews /\ s \in WatcherSteps),
         Moves(p, s)
  PROVE  Went(p, s) /\ Shapes'
<1>1. Shapes BY KnownShapes
<1>2. Went(p, s) /\ Calls' BY <1>1, GoesOn DEF Moves, Shapes
<1>3. failures' \in 0..MaxFailures /\ review' \in [Reviews -> Row] BY <1>1 DEF Moves, Shapes, KeepsAll
<1> QED BY <1>1, <1>2, <1>3, KeptShapes DEF Moves, KeepsAll

LEMMA StartWatcherDoes == ASSUME Known, NEW r \in Reviews, StartWatcher(r)
                          PROVE  Turns(r, r, "arm") /\ Shapes'
<1>1. Moves(r, "arm") /\ call[r].step = "absent" /\ review[r].status # "none"
  BY DEF StartWatcher, Moves, entry, history, KeepsAll, KeepsEntry, KeepsOutcome, KeepsTrouble, At
<1>2. Went(r, "arm") /\ Shapes' BY <1>1, MovesShapes DEF Callers, WatcherSteps
<1> QED BY <1>1, <1>2 DEF Turns, Moves

LEMMA BeginDoes == ASSUME Known, NEW d \in Deciders, NEW r \in Reviews, NEW v \in Decisions,
                          Begin(d, r, v)
                   PROVE  Begins(d, r) /\ Shapes'
<1>1. Shapes BY KnownShapes
<1> DEFINE c == [Idle EXCEPT !.step = "decide", !.of = {r}, !.verdict = v, !.saw = review[r]]
<1>2. c \in Call
  <2>1. review[r] \in Row BY <1>1 DEF Shapes
  <2> QED BY <2>1, IdleCall DEF Idle, Call, DeciderSteps
<1>3. c.step = "decide" /\ c.of = {r} /\ c.verdict = v /\ c.saw = review[r] BY DEF Idle
<1>4. /\ call' = [call EXCEPT ![d] = c] /\ call[d].step = "idle" /\ review[r].status # "none"
      /\ KeepsAll /\ tries' = tries /\ failures' = failures
  BY DEF Begin, entry, history, KeepsAll, KeepsEntry, KeepsOutcome, KeepsTrouble, At
<1> HIDE DEF c
<1>5. d \in Callers /\ d \notin Reviews BY DEF Callers
<1>6. tries' \in [Reviews -> 0..MaxAttempts] BY <1>1, <1>4 DEF Shapes, Calls
<1>7. Calls' /\ call'[d] = c /\ Others(d)
  BY <1>1, <1>2, <1>3, <1>4, <1>5, <1>6, CallChanges DEF Shapes, DeciderSteps
<1>8. failures' \in 0..MaxFailures /\ review' \in [Reviews -> Row] BY <1>1, <1>4 DEF Shapes, KeepsAll
<1>9. Shapes' BY <1>1, <1>4, <1>7, <1>8, KeptShapes DEF KeepsAll
<1> QED BY <1>3, <1>4, <1>7, <1>9 DEF Begins

\* The review a caller works on.
LEMMA OfReview == ASSUME Known, NEW p \in Callers, NEW r \in Reviews, call[p].of = {r}
                  PROVE  Of(p) = r /\ call[p].step # "idle" /\ (p \in Reviews => p = r)
<1>1. Calls BY KnownShapes DEF Shapes
<1>2. call[p].step # "idle" BY <1>1 DEF Calls, OneReview, Callers, WatcherSteps, Applying, Trying
<1>3. call[p].of = {Of(p)} BY <1>1, <1>2, OfIs
<1> QED BY <1>1, <1>2, <1>3 DEF Calls

\* Steps that end the call and change nothing else.
Returned(p) == Returns(p) /\ tries' = tries /\ failures' = failures /\ KeepsAll

LEMMA ReturnedShapes ==
  ASSUME Known, NEW p \in Callers, call[p].step \notin {"idle", "failed"}, Returned(p)
  PROVE  Ended(p) /\ Shapes'
<1>1. Shapes BY KnownShapes
<1>2. Ended(p) /\ Calls' BY <1>1, ReturnsEnds DEF Returned, Shapes
<1>3. failures' \in 0..MaxFailures /\ review' \in [Reviews -> Row] BY <1>1 DEF Returned, Shapes, KeepsAll
<1> QED BY <1>1, <1>2, <1>3, KeptShapes DEF Returned, KeepsAll

LEMMA DecideDoes == ASSUME Known, NEW d \in Deciders, NEW r \in Reviews, call[d].of = {r},
                           call[d].verdict \in Decisions, Decide(d)
                    PROVE  Effect(d, r) /\ Shapes'
<1>1. Shapes /\ d \in Callers /\ Of(d) = r BY KnownShapes, OfReview DEF Callers
<1>2. call[d].step = "decide" BY DEF Decide, At
<1>3. CASE review[r].status = "pending"
  <2> DEFINE row == [review[r] EXCEPT !.status = call[d].verdict]
  <2>1. review[r] \in Row BY <1>1 DEF Shapes
  <2>2. /\ row \in Row /\ row.status = call[d].verdict
        /\ row.awaiting = review[r].awaiting /\ row.applied = review[r].applied
    BY <2>1 DEF Row
  <2>3. review' = [review EXCEPT ![r] = row] /\ Goes(d, "reread") BY <1>1, <1>3 DEF Decide
  <2> HIDE DEF row
  <2>4. review' \in [Reviews -> Row]
        /\ RowIs(r, call[d].verdict, review[r].awaiting, review[r].applied)
    BY <1>1, <2>2, <2>3, RowChanges DEF Shapes, RowIs
  <2>5. KeepsEntry /\ KeepsOutcome /\ KeepsTrouble /\ tries' = tries /\ failures' = failures
    BY DEF Decide, entry, history, KeepsEntry, KeepsOutcome, KeepsTrouble
  <2>6. Went(d, "reread") /\ Calls'
    BY <1>1, <1>2, <2>3, <2>5, GoesOn DEF Shapes, DeciderSteps
  <2>7. failures' \in 0..MaxFailures BY <1>1, <2>5 DEF Shapes
  <2>8. Shapes' BY <1>1, <2>4, <2>5, <2>6, <2>7, KeptShapes
  <2> QED BY <1>2, <1>3, <2>4, <2>5, <2>6, <2>8 DEF Decides, Effect
<1>4. CASE review[r].status # "pending"
  <2>1. KeepsAll /\ tries' = tries /\ failures' = failures
    BY <1>1, <1>4 DEF Decide, entry, history, KeepsAll, KeepsEntry, KeepsOutcome, KeepsTrouble
  <2>2. CASE call[d].verdict = "approved" /\ Redrivable(call[d].saw)
    <3>1. Moves(d, "mark") BY <1>1, <1>4, <2>1, <2>2 DEF Decide, Moves
    <3>2. Went(d, "mark") /\ Shapes' BY <1>1, <1>2, <3>1, MovesShapes DEF Applying
    <3>3. Turns(d, r, "mark") BY <1>2, <2>1, <2>2, <3>2 DEF Turns
    <3> QED BY <3>2, <3>3 DEF Effect, DeciderSteps, Applying
  <2>3. CASE ~(call[d].verdict = "approved" /\ Redrivable(call[d].saw))
    <3>1. Returned(d) BY <1>1, <1>4, <2>1, <2>3 DEF Decide, Returned
    <3>2. Ended(d) /\ Shapes' BY <1>1, <1>2, <3>1, ReturnedShapes
    <3> QED BY <1>2, <2>1, <3>2 DEF Leaves, Effect, KeepsAll
  <2> QED BY <2>2, <2>3
<1> QED BY <1>3, <1>4

LEMMA RereadDoes == ASSUME Known, NEW d \in Deciders, NEW r \in Reviews, call[d].of = {r}, Reread(d)
                    PROVE  Effect(d, r) /\ Shapes'
<1>1. Shapes /\ d \in Callers /\ Of(d) = r BY KnownShapes, OfReview DEF Callers
<1>2. call[d].step = "reread" BY DEF Reread, At
<1>3. PICK s \in {"signal", "mark", "reject"} : Goes(d, s) /\ (s = "signal" \/ s = Directly(d))
  BY DEF Reread, Directly
<1>4. Moves(d, s)
  BY <1>3 DEF Reread, entry, history, Moves, KeepsAll, KeepsEntry, KeepsOutcome, KeepsTrouble
<1>5. s \in DeciderSteps /\ s # "idle" BY DEF DeciderSteps, Applying
<1>6. Went(d, s) /\ Shapes' BY <1>1, <1>2, <1>4, <1>5, MovesShapes
<1>7. Turns(d, r, s) BY <1>2, <1>3, <1>4, <1>6 DEF Turns, Moves
<1> QED BY <1>5, <1>6, <1>7 DEF Effect

LEMMA SignalDoes == ASSUME Known, NEW d \in Deciders, NEW r \in Reviews, call[d].of = {r},
                           call[d].verdict \in Decisions, Signal(d)
                    PROVE  Effect(d, r) /\ Shapes'
<1>1. Shapes /\ d \in Callers /\ Of(d) = r BY KnownShapes, OfReview DEF Callers
<1>2. call[d].step = "signal" BY DEF Signal, At
<1>3. /\ KeepsEntry /\ ledger' = ledger /\ KeepsTrouble /\ review' = review /\ tries' = tries
      /\ failures' = failures
  BY DEF Signal, entry, history, KeepsEntry, KeepsTrouble
<1>4. failures' \in 0..MaxFailures /\ review' \in [Reviews -> Row] BY <1>1, <1>3 DEF Shapes
<1>5. CASE signal' = signal /\ Goes(d, Directly(d))
  <2>1. Moves(d, Directly(d)) BY <1>3, <1>5 DEF Moves, KeepsAll, KeepsOutcome
  <2>2. Directly(d) \in DeciderSteps /\ Directly(d) # "idle" BY DEF Directly, DeciderSteps, Applying
  <2>3. Went(d, Directly(d)) /\ Shapes' BY <1>1, <1>2, <2>1, <2>2, MovesShapes
  <2>4. Turns(d, r, Directly(d)) BY <1>2, <2>1, <2>3 DEF Turns, Moves
  <2> QED BY <2>2, <2>3, <2>4 DEF Effect
<1>6. CASE signal' = [signal EXCEPT ![r] = call[d].verdict] /\ (Delivered(d) \/ Goes(d, Directly(d)))
  <2>1. (call[d].verdict = "approved" /\ Returns(d)) \/ Goes(d, Directly(d))
    BY <1>6 DEF Delivered, Directly
  <2>2. CASE call[d].verdict = "approved" /\ Returns(d)
    <3>1. Ended(d) /\ Calls' BY <1>1, <1>2, <1>3, <2>2, ReturnsEnds DEF Shapes
    <3>2. Shapes' BY <1>1, <1>3, <1>4, <1>6, <3>1 DEF Shapes, KeepsEntry, KeepsTrouble
    <3> QED BY <1>2, <1>3, <1>6, <2>2, <3>1, <3>2 DEF Signals, Effect
  <2>3. CASE Goes(d, Directly(d))
    <3>0. Directly(d) \in DeciderSteps /\ Directly(d) # "idle" BY DEF Directly, DeciderSteps, Applying
    <3>1. Went(d, Directly(d)) /\ Calls' BY <1>1, <1>2, <1>3, <2>3, <3>0, GoesOn DEF Shapes
    <3>2. Shapes' BY <1>1, <1>3, <1>4, <1>6, <3>1 DEF Shapes, KeepsEntry, KeepsTrouble
    <3> QED BY <1>2, <1>3, <1>6, <3>1, <3>2 DEF Signals, Effect
  <2> QED BY <2>1, <2>2, <2>3
<1> QED BY <1>1, <1>5, <1>6 DEF Signal

LEMMA RecordRejectionDoes ==
  ASSUME Known, NEW d \in Deciders, NEW r \in Reviews, call[d].of = {r}, RecordRejection(d)
  PROVE  Effect(d, r) /\ Shapes'
<1>1. Shapes /\ d \in Callers /\ Of(d) = r BY KnownShapes, OfReview DEF Callers
<1>2. call[d].step = "reject" BY DEF RecordRejection, At
<1>3. /\ KeepsEntry /\ KeepsTrouble /\ review' = review /\ signal' = signal /\ tries' = tries
      /\ failures' = failures
  BY DEF RecordRejection, entry, history, KeepsEntry, KeepsTrouble
<1>4. ledger' = [ledger EXCEPT ![r].rejected = @ + 1] BY <1>1 DEF RecordRejection
<1>5. Ended(d) /\ Calls' BY <1>1, <1>2, <1>3, ReturnsEnds DEF Shapes, RecordRejection
<1>6. ledger' \in [Reviews -> [completed : Nat, rejected : Nat]]
  <2>1. ledger[r] \in [completed : Nat, rejected : Nat] BY <1>1 DEF Shapes
  <2>2. [ledger[r] EXCEPT !.rejected = @ + 1] \in [completed : Nat, rejected : Nat] BY <2>1
  <2> QED BY <1>1, <1>4, <2>2 DEF Shapes
<1>7. Shapes' BY <1>1, <1>3, <1>5, <1>6 DEF Shapes, KeepsEntry, KeepsTrouble
<1> QED BY <1>2, <1>3, <1>4, <1>5, <1>7 DEF RecordsRejection, Effect

\* Steps of the apply.
LEMMA MarkAppliedDoes ==
  ASSUME Known, NEW p \in Callers, NEW r \in Reviews, call[p].of = {r}, MarkApplied(p)
  PROVE  Effect(p, r) /\ Shapes'
<1>1. Shapes /\ Of(p) = r BY KnownShapes, OfReview
<1>2. call[p].step = "mark" BY DEF MarkApplied, At
<1>3. /\ KeepsEntry /\ KeepsOutcome /\ KeepsTrouble /\ tries' = tries /\ failures' = failures
      /\ review' = [review EXCEPT ![r].applied = TRUE]
  BY <1>1 DEF MarkApplied, entry, history, KeepsEntry, KeepsOutcome, KeepsTrouble
<1>4. CASE review[r].applied
  <2>1. review' = review BY <1>1, <1>3, <1>4 DEF Shapes, Row
  <2>2. Returned(p) BY <1>1, <1>3, <1>4, <2>1 DEF MarkApplied, Returned, KeepsAll
  <2>3. Ended(p) /\ Shapes' BY <1>2, <2>2, ReturnedShapes
  <2> QED BY <1>2, <1>3, <1>4, <2>1, <2>3 DEF Leaves, Effect
<1>5. CASE ~review[r].applied
  <2> DEFINE row == [review[r] EXCEPT !.applied = TRUE]
  <2>1. review[r] \in Row BY <1>1 DEF Shapes
  <2>2. /\ row \in Row /\ row.status = review[r].status
        /\ row.awaiting = review[r].awaiting /\ row.applied = TRUE
    BY <2>1 DEF Row
  <2>3. review' = [review EXCEPT ![r] = row] BY <1>3
  <2> HIDE DEF row
  <2>4. review' \in [Reviews -> Row] /\ RowIs(r, review[r].status, review[r].awaiting, TRUE)
    BY <1>1, <2>2, <2>3, RowChanges DEF Shapes, RowIs
  <2>5. Went(p, "fields") /\ Calls'
    BY <1>1, <1>2, <1>3, <1>5, GoesOn DEF MarkApplied, Shapes, Applying, Trying
  <2>6. failures' \in 0..MaxFailures BY <1>1, <1>3 DEF Shapes
  <2>7. Shapes' BY <1>1, <1>3, <2>4, <2>5, <2>6, KeptShapes
  <2> QED BY <1>2, <1>3, <1>5, <2>4, <2>5, <2>7 DEF Marks, Effect
<1> QED BY <1>4, <1>5

\* The fields of a call that goes on with other data.
LEMMA RefinesCall ==
  ASSUME Known, NEW p \in Callers, NEW r \in Reviews, call[p].of = {r}, call[p].step # "failed",
         NEW c \in Call, c.of = call[p].of, c.step \in {"entry", "insert"} \/ (p \in Reviews /\ c.step = "settle"),
         call' = [call EXCEPT ![p] = c], tries' \in [Reviews -> 0..MaxAttempts],
         \A q \in Reviews : tries'[q] = tries[q] \/ (q = p /\ tries'[q] = 0)
  PROVE  Calls' /\ call'[p] = c /\ Others(p)
<1>1. Calls /\ call[p].step # "idle" /\ (p \in Reviews => p = r) BY KnownShapes, OfReview DEF Shapes
<1>2. /\ p \in Deciders => c.step \in DeciderSteps
      /\ p \in Reviews => c.step \in WatcherSteps \ {"failed"}
      /\ c.step # "idle"
  BY DEF DeciderSteps, WatcherSteps, Applying, Trying
<1>3. p \in Reviews => tries'[p] < MaxAttempts
  BY <1>1 DEF Calls, Spent
<1>4. \A q \in Reviews \ {p} : tries'[q] = tries[q] OBVIOUS
<1> QED BY <1>1, <1>2, <1>3, <1>4, CallChanges

LEMMA ReadFieldsDoes ==
  ASSUME Known, NEW p \in Callers, NEW r \in Reviews, call[p].of = {r}, ReadFields(p)
  PROVE  Effect(p, r) /\ Shapes'
<1>1. Shapes /\ version \in 1..Len(rows) BY KnownShapes
<1>2. call[p].step = "fields" BY DEF ReadFields, At
<1> DEFINE c == [call[p] EXCEPT !.step = "entry", !.base = rows[version]]
<1>3. call[p] \in Call /\ rows[version] \in SUBSET Changes BY <1>1 DEF Shapes, Calls
<1>4. /\ c \in Call /\ c.step = "entry" /\ c.base = rows[version] /\ c.of = call[p].of
      /\ c.verdict = call[p].verdict /\ c.saw = call[p].saw
  BY <1>3 DEF Call, DeciderSteps, Applying, Trying
<1>5. call' = [call EXCEPT ![p] = c] /\ tries' = tries BY <1>3 DEF ReadFields
<1> HIDE DEF c
<1>6. tries' \in [Reviews -> 0..MaxAttempts] BY <1>1, <1>5 DEF Shapes, Calls
<1>7. Calls' /\ call'[p] = c /\ Others(p) BY <1>2, <1>4, <1>5, <1>6, RefinesCall
<1>8. /\ KeepsOutcome /\ KeepsTrouble /\ review' = review /\ version' = version /\ rows' = rows
      /\ applies' = applies /\ lost' = lost /\ failures' = failures
      /\ \/ InTry = {p} /\ overlapped' = overlapped
         \/ overlapped' = overlapped \union UNION {call[q].of : q \in InTry}
  BY DEF ReadFields, history, KeepsOutcome, KeepsTrouble
<1>9. overlapped' \subseteq Changes
  <2>1. UNION {call[q].of : q \in InTry} \subseteq Changes
    BY <1>1 DEF InTry, Changes, Shapes, Calls, Call
  <2> QED BY <1>1, <1>8, <2>1 DEF Shapes
<1>10. Shapes' BY <1>1, <1>7, <1>8, <1>9 DEF Shapes, KeepsOutcome, KeepsTrouble
<1>11. Reads(p, r) BY <1>2, <1>4, <1>7, <1>8 DEF Reads
<1> QED BY <1>10, <1>11 DEF Effect

LEMMA ReadEntryDoes ==
  ASSUME Known, NEW p \in Callers, NEW r \in Reviews, call[p].of = {r}, ReadEntry(p)
  PROVE  Effect(p, r) /\ Shapes'
<1>1. Shapes /\ version \in 1..Len(rows) BY KnownShapes
<1>2. call[p].step = "entry" BY DEF ReadEntry, At
<1> DEFINE c == [call[p] EXCEPT !.step = "insert", !.seen = version]
<1>3. call[p] \in Call /\ version \in Nat BY <1>1 DEF Shapes, Calls
<1>4. /\ c \in Call /\ c.step = "insert" /\ c.seen = version /\ c.of = call[p].of
      /\ c.verdict = call[p].verdict /\ c.saw = call[p].saw /\ c.base = call[p].base
  BY <1>3 DEF Call, DeciderSteps, Applying, Trying
<1>5. call' = [call EXCEPT ![p] = c] /\ tries' = tries BY <1>3 DEF ReadEntry
<1> HIDE DEF c
<1>6. tries' \in [Reviews -> 0..MaxAttempts] BY <1>1, <1>5 DEF Shapes, Calls
<1>7. Calls' /\ call'[p] = c /\ Others(p) BY <1>2, <1>4, <1>5, <1>6, RefinesCall
<1>8. KeepsAll /\ failures' = failures
  BY DEF ReadEntry, entry, history, KeepsAll, KeepsEntry, KeepsOutcome, KeepsTrouble
<1>9. failures' \in 0..MaxFailures /\ review' \in [Reviews -> Row] BY <1>1, <1>8 DEF Shapes, KeepsAll
<1>10. Shapes' BY <1>1, <1>7, <1>8, <1>9, KeptShapes DEF KeepsAll
<1>11. Rereads(p, r) BY <1>2, <1>4, <1>7, <1>8 DEF Rereads
<1> QED BY <1>10, <1>11 DEF Effect

\* Writing goes on with the next step, or ends in the cleanup.
Wrote(p, r, s, reported) ==
  /\ tries' = tries /\ orphaned' = orphaned
  /\ IF reported THEN Goes(p, s) /\ doubted' = doubted /\ failures' = failures
     ELSE /\ Goes(p, "clear") /\ doubted' = doubted \union {r}
          /\ failures < MaxFailures /\ failures' = failures + 1

LEMMA InsertDoes ==
  ASSUME Known, NEW p \in Callers, NEW r \in Reviews, call[p].of = {r},
         NEW reported \in BOOLEAN, Inserted(p), Wrote(p, r, "save", reported)
  PROVE  Effect(p, r) /\ Shapes'
<1>1. Shapes /\ Of(p) = r BY KnownShapes, OfReview
<1>2. call[p].step = "insert" BY DEF Inserted, At
<1>3. GoesOnOrFails(p, r, "save") /\ Calls'
  BY <1>1, <1>2, GoesOn DEF Wrote, GoesOnOrFails, Shapes, Applying, Trying
<1>4. rows' \in Seq(SUBSET Changes)
  <2>1. Merged(p) \in SUBSET Changes BY <1>1 DEF Merged, Shapes, Calls, Call, Changes
  <2> QED BY <1>1, <2>1 DEF Inserted, Shapes
<1>5. Shapes'
  <2>1. UNCHANGED <<review, version, applies, lost, overlapped, signal, ledger>> BY DEF Inserted
  <2>2. failures' \in 0..MaxFailures
    <3>1. failures' = failures \/ (failures < MaxFailures /\ failures' = failures + 1) BY DEF Wrote
    <3>2. failures \in 0..MaxFailures BY <1>1 DEF Shapes
    <3> QED BY <3>1, <3>2, ReviewsAssumption
  <2>3. orphaned' = orphaned /\ doubted' \subseteq Reviews BY <1>1 DEF Wrote, Shapes
  <2> QED BY <1>1, <1>3, <1>4, <2>1, <2>2, <2>3 DEF Shapes
<1>6. Inserts(p, r) BY <1>2, <1>3 DEF Inserts, Inserted, Wrote, KeepsOutcome
<1> QED BY <1>5, <1>6 DEF Effect

LEMMA SaveDoes ==
  ASSUME Known, NEW p \in Callers, NEW r \in Reviews, call[p].of = {r},
         NEW reported \in BOOLEAN, Saved(p, reported), Wrote(p, r, "record", reported)
  PROVE  Effect(p, r) /\ Shapes'
<1>1. Shapes /\ Of(p) = r BY KnownShapes, OfReview
<1>2. call[p].step = "save" BY DEF Saved, At
<1>3. Calls' /\ (reported => Went(p, "record")) /\ (~reported => Went(p, "clear"))
  BY <1>1, <1>2, GoesOn DEF Wrote, Shapes, Applying, Trying
<1>4. version' \in Nat /\ applies' \in [Reviews -> Nat] /\ lost' \in [Reviews -> Nat]
  <2>1. call[p].seen \in Nat BY <1>1 DEF Shapes, Calls, Call
  <2>2. applies' = [applies EXCEPT ![r] = @ + 1] /\ lost' \in {lost, [lost EXCEPT ![r] = @ + 1]}
    BY <1>1 DEF Saved
  <2> QED BY <1>1, <2>1, <2>2, SMTT(30) DEF Shapes, Saved
<1>5. /\ doubted' \in {doubted, doubted \union {r}} /\ orphaned' = orphaned
      /\ failures' \in 0..MaxFailures
  BY <1>1 DEF Wrote, Shapes
<1>6. review' = review /\ rows' = rows /\ overlapped' = overlapped /\ signal' = signal /\ ledger' = ledger
  BY DEF Saved
<1>7. Shapes' BY <1>1, <1>3, <1>4, <1>5, <1>6 DEF Shapes
<1>8. Saves(p, r) BY <1>1, <1>2, <1>3, <1>6 DEF Saves, Saved, Wrote, KeepsOutcome
<1> QED BY <1>7, <1>8 DEF Effect

LEMMA RecordApplyDoes ==
  ASSUME Known, NEW p \in Callers, NEW r \in Reviews, call[p].of = {r}, RecordApply(p)
  PROVE  Effect(p, r) /\ Shapes'
<1>1. Shapes /\ Of(p) = r BY KnownShapes, OfReview
<1>2. call[p].step = "record" BY DEF RecordApply, At
<1>3. /\ KeepsEntry /\ KeepsTrouble /\ review' = review /\ signal' = signal /\ tries' = tries
      /\ failures' = failures
  BY DEF RecordApply, entry, history, KeepsEntry, KeepsTrouble
<1>4. ledger' = [ledger EXCEPT ![r].completed = @ + 1] BY <1>1 DEF RecordApply
<1>5. Ended(p) /\ Calls' BY <1>1, <1>2, <1>3, ReturnsEnds DEF Shapes, RecordApply
<1>6. ledger' \in [Reviews -> [completed : Nat, rejected : Nat]]
  <2>1. ledger[r] \in [completed : Nat, rejected : Nat] BY <1>1 DEF Shapes
  <2>2. [ledger[r] EXCEPT !.completed = @ + 1] \in [completed : Nat, rejected : Nat] BY <2>1
  <2> QED BY <1>1, <1>4, <2>2 DEF Shapes
<1>7. Shapes' BY <1>1, <1>3, <1>5, <1>6 DEF Shapes, KeepsEntry, KeepsTrouble
<1> QED BY <1>2, <1>3, <1>4, <1>5, <1>7 DEF RecordsApply, Effect

LEMMA ClearAppliedDoes ==
  ASSUME Known, NEW p \in Callers, NEW r \in Reviews, call[p].of = {r}, ClearApplied(p)
  PROVE  Effect(p, r) /\ Shapes'
<1>1. Shapes /\ Of(p) = r /\ (p \in Reviews => p = r) BY KnownShapes, OfReview
<1>2. call[p].step = "clear" BY DEF ClearApplied, At
<1>3. KeepsEntry /\ KeepsOutcome /\ doubted' = doubted /\ failures' = failures
  BY DEF ClearApplied, entry, KeepsEntry, KeepsOutcome
<1> DEFINE row == [review[r] EXCEPT !.applied = FALSE]
<1>4. review[r] \in Row BY <1>1 DEF Shapes
<1>5. /\ row \in Row /\ row.status = review[r].status
      /\ row.awaiting = review[r].awaiting /\ row.applied = FALSE
  BY <1>4 DEF Row
<1>6. review' = [review EXCEPT ![r] = row] BY <1>1 DEF ClearApplied
<1> HIDE DEF row
<1>7. review' \in [Reviews -> Row] /\ RowIs(r, review[r].status, review[r].awaiting, FALSE)
  BY <1>1, <1>5, <1>6, RowChanges DEF Shapes, RowIs
<1>8. Ended(p) /\ Calls' BY <1>1, <1>2, RaisesEnds DEF Shapes, ClearApplied
<1>9. orphaned' \in {orphaned, orphaned \union {r}}
  BY <1>1 DEF ClearApplied, GivesUp
<1>10. Shapes' BY <1>1, <1>3, <1>7, <1>8, <1>9 DEF Shapes, KeepsEntry, KeepsOutcome
<1> QED BY <1>2, <1>3, <1>7, <1>8, <1>9, <1>10 DEF Clears, Effect

\* Failures of a call.
LEMMA BreaksShapes ==
  ASSUME Known, NEW p \in Callers, NEW r \in Reviews, call[p].of = {r}, call[p].step \in Trying,
         Goes(p, "clear"), tries' = tries, UNCHANGED <<review, entry, signal, ledger>>,
         doubted' = doubted \union {r}, orphaned' = orphaned, failures' \in 0..MaxFailures
  PROVE  Effect(p, r) /\ Shapes'
<1>1. Shapes BY KnownShapes
<1>2. call[p].step \notin {"idle", "failed"} BY DEF Trying
<1>3. Went(p, "clear") /\ Calls' BY <1>1, <1>2, GoesOn DEF Shapes, Applying
<1>4. KeepsEntry /\ KeepsOutcome /\ review' = review BY DEF entry, KeepsEntry, KeepsOutcome
<1>5. Shapes' BY <1>1, <1>3, <1>4 DEF Shapes, KeepsEntry, KeepsOutcome
<1>6. Breaks(p, r) BY <1>3, <1>4 DEF Breaks
<1> QED BY <1>5, <1>6 DEF Effect

LEMMA CollideDoes == ASSUME Known, NEW p \in Callers, NEW r \in Reviews, call[p].of = {r}, Collide(p)
                     PROVE  Effect(p, r) /\ Shapes'
<1>1. call[p].step \in Trying BY DEF Collide, At, Trying
<1>2. Goes(p, "clear") /\ tries' = tries BY <1>1 DEF Collide, Throws
<1>3. failures' \in 0..MaxFailures BY KnownShapes DEF Collide, Shapes
<1> QED BY <1>1, <1>2, <1>3, BreaksShapes DEF Collide

LEMMA RaisesLeaves ==
  ASSUME Known, NEW p \in Callers, NEW r \in Reviews, call[p].of = {r},
         call[p].step \notin Resting \union {"wait"}, Raises(p), Trouble(p),
         UNCHANGED <<review, entry, signal, ledger>>, orphaned' \in {orphaned, orphaned \union {r}},
         call[p].step \in Trying \union {"clear"} => r \in orphaned',
         GivesUp(p) => r \in orphaned'
  PROVE  Effect(p, r) /\ Shapes'
<1>1. Shapes BY KnownShapes
<1>2. call[p].step \notin {"idle", "failed"} BY DEF Resting
<1>3. /\ Ended(p) /\ Calls'
      /\ p \in Reviews => call'[p].step = IF GivesUp(p) THEN "failed"
                                          ELSE IF call[p].step = "arm" THEN "arm" ELSE "settle"
  BY <1>1, <1>2, RaisesEnds DEF Shapes
<1>4. KeepsEntry /\ KeepsOutcome /\ review' = review BY DEF entry, KeepsEntry, KeepsOutcome
<1>5. Troubled(r) /\ failures' \in 0..MaxFailures BY <1>1 DEF Trouble, Troubled, Shapes
<1>6. Shapes' BY <1>1, <1>3, <1>4, <1>5, KeptShapes DEF Shapes
<1>7. call[p].step = "settle" => call'[p].step = "settle" \/ r \in orphaned'
  <2>1. CASE p \in Reviews BY <1>3, <2>1
  <2>2. CASE p \notin Reviews
    BY <1>1, <2>2 DEF Shapes, Calls, Callers, DeciderSteps, Applying, Trying
  <2> QED BY <2>1, <2>2
<1>8. Leaves(p, r) BY <1>3, <1>4, <1>5, <1>7 DEF Leaves
<1> QED BY <1>6, <1>8 DEF Effect

LEMMA FailDoes == ASSUME Known, NEW p \in Callers, NEW r \in Reviews, call[p].of = {r}, Fail(p)
                  PROVE  Effect(p, r) /\ Shapes'
<1>1. CASE call[p].step \in Trying
  <2>1. Goes(p, "clear") /\ tries' = tries BY <1>1 DEF Fail, Throws
  <2>2. orphaned' = orphaned BY <1>1 DEF Fail, Trying, At
  <2>3. doubted' = doubted \union {r} /\ failures' \in 0..MaxFailures
    BY KnownShapes DEF Fail, Trouble, Shapes
  <2> QED BY <1>1, <2>1, <2>2, <2>3, BreaksShapes DEF Fail
<1>2. CASE call[p].step \notin Trying
  <2>1. Raises(p) BY <1>2 DEF Fail, Throws
  <2>2. /\ orphaned' \in {orphaned, orphaned \union {r}}
        /\ call[p].step = "clear" \/ GivesUp(p) => r \in orphaned'
    BY <1>2 DEF Fail, At
  <2> QED BY <1>2, <2>1, <2>2, RaisesLeaves DEF Fail
<1> QED BY <1>1, <1>2

LEMMA DieDoes == ASSUME Known, NEW p \in Callers, NEW r \in Reviews, call[p].of = {r}, Die(p)
                 PROVE  Effect(p, r) /\ Shapes'
<1>1. /\ orphaned' \in {orphaned, orphaned \union {r}}
      /\ call[p].step \in Trying \union {"clear"} \/ GivesUp(p) => r \in orphaned'
  BY DEF Die
<1> QED BY <1>1, RaisesLeaves DEF Die

LEMMA LoseReplyDoes == ASSUME Known, NEW p \in Callers, NEW r \in Reviews, call[p].of = {r}, LoseReply(p)
                       PROVE  Effect(p, r) /\ Shapes'
<1>1. call[p].step \in {"insert", "save"} BY DEF LoseReply, Inserted, Saved, At
<1>2. call[p].step \in Trying BY <1>1 DEF Trying
<1>3. Goes(p, "clear") /\ tries' = tries BY <1>2 DEF LoseReply, Throws
<1>4. \A s : Wrote(p, r, s, FALSE) BY <1>3 DEF LoseReply, Trouble, Wrote
<1>5. CASE Inserted(p) BY <1>4, <1>5, InsertDoes
<1>6. CASE Saved(p, FALSE) BY <1>4, <1>6, SaveDoes
<1> QED BY <1>5, <1>6 DEF LoseReply

\* The watcher's own steps.
LEMMA ArmDoes == ASSUME Known, NEW r \in Reviews, Arm(r) PROVE Effect(r, r) /\ Shapes'
<1>1. Shapes /\ r \in Callers BY KnownShapes DEF Callers
<1>2. call[r].step = "arm" /\ call[r].of = {r} BY <1>1 DEF Arm, At, Shapes, Calls
<1>3. KeepsEntry /\ KeepsOutcome /\ KeepsTrouble /\ failures' = failures
  BY DEF Arm, entry, history, KeepsEntry, KeepsOutcome, KeepsTrouble
<1>4. failures' \in 0..MaxFailures BY <1>1, <1>3 DEF Shapes
<1>5. CASE review[r].status = "pending" /\ ~review[r].awaiting
  <2> DEFINE row == [review[r] EXCEPT !.awaiting = TRUE]
  <2>1. review[r] \in Row BY <1>1 DEF Shapes
  <2>2. /\ row \in Row /\ row.status = "pending"
        /\ row.awaiting = TRUE /\ row.applied = review[r].applied
    BY <1>5, <2>1 DEF Row
  <2>3. review' = [review EXCEPT ![r] = row] /\ Goes(r, "wait") /\ tries' = tries BY <1>5 DEF Arm
  <2> HIDE DEF row
  <2>4. review' \in [Reviews -> Row] /\ RowIs(r, "pending", TRUE, review[r].applied)
    BY <1>1, <2>2, <2>3, RowChanges DEF Shapes, RowIs
  <2>5. Went(r, "wait") /\ Calls' BY <1>1, <1>2, <2>3, GoesOn DEF Shapes, WatcherSteps
  <2>6. Shapes' BY <1>1, <1>3, <1>4, <2>4, <2>5, KeptShapes
  <2> QED BY <1>2, <1>3, <1>5, <2>4, <2>5, <2>6 DEF Arms, Effect
<1>6. CASE ~(review[r].status = "pending" /\ ~review[r].awaiting)
  <2> DEFINE v == IF review[r].status = "pending" THEN "timeout" ELSE review[r].status
             c == [call[r] EXCEPT !.step = "settle", !.verdict = v]
  <2>1. review[r] \in Row /\ call[r] \in Call BY <1>1 DEF Shapes, Calls
  <2>2. review[r].status # "none" BY <1>1, <1>2 DEF Known, Proposed, Resting
  <2>3. v \in {"timeout"} \union ({signal[r], review[r].status} \intersect Decisions) /\ v \in Decisions \union {"timeout"}
    BY <2>1, <2>2 DEF Row
  <2> HIDE DEF v
  <2>4. /\ c \in Call /\ c.step = "settle" /\ c.of = call[r].of /\ c.saw = call[r].saw /\ c.verdict = v
    BY <2>1, <2>3 DEF Call, WatcherSteps
  <2>5. call' = [call EXCEPT ![r] = c] /\ tries' = [tries EXCEPT ![r] = 0] /\ review' = review
    BY <1>6, <2>1 DEF Arm, Settles, v
  <2> HIDE DEF c
  <2>6. tries' \in [Reviews -> 0..MaxAttempts]
        /\ \A q \in Reviews : tries'[q] = tries[q] \/ (q = r /\ tries'[q] = 0)
    BY <1>1, <2>5 DEF Shapes, Calls
  <2>7. Calls' /\ call'[r] = c /\ Others(r) BY <1>1, <1>2, <2>4, <2>5, <2>6, RefinesCall
  <2>8. Shapes' BY <1>1, <1>3, <1>4, <2>5, <2>7, KeptShapes DEF Shapes
  <2>9. Settled(r) BY <1>2, <1>3, <2>3, <2>4, <2>5, <2>7 DEF Settled, KeepsAll
  <2> QED BY <2>8, <2>9 DEF Effect
<1> QED BY <1>5, <1>6

LEMMA WaitDoes == ASSUME Known, NEW r \in Reviews, Wait(r) PROVE Effect(r, r) /\ Shapes'
<1>1. Shapes /\ r \in Callers BY KnownShapes DEF Callers
<1>2. call[r].step = "wait" /\ call[r].of = {r} BY <1>1 DEF Wait, At, Shapes, Calls
<1>3. KeepsAll /\ failures' = failures
  BY DEF Wait, entry, history, KeepsAll, KeepsEntry, KeepsOutcome, KeepsTrouble
<1>4. failures' \in 0..MaxFailures /\ review' \in [Reviews -> Row] BY <1>1, <1>3 DEF Shapes, KeepsAll
<1> DEFINE v == IF signal[r] = "none" THEN "timeout" ELSE signal[r]
           c == [call[r] EXCEPT !.step = "settle", !.verdict = v]
<1>5. call[r] \in Call /\ signal[r] \in Decisions \union {"none"} BY <1>1 DEF Shapes, Calls
<1>6. v \in {"timeout"} \union ({signal[r], review[r].status} \intersect Decisions)
      /\ v \in Decisions \union {"timeout"}
  BY <1>5
<1> HIDE DEF v
<1>7. c \in Call /\ c.step = "settle" /\ c.of = call[r].of /\ c.saw = call[r].saw /\ c.verdict = v
  BY <1>5, <1>6 DEF Call, WatcherSteps
<1>8. call' = [call EXCEPT ![r] = c] /\ tries' = [tries EXCEPT ![r] = 0]
  BY <1>5 DEF Wait, Settles, v
<1> HIDE DEF c
<1>9. tries' \in [Reviews -> 0..MaxAttempts]
      /\ \A q \in Reviews : tries'[q] = tries[q] \/ (q = r /\ tries'[q] = 0)
  BY <1>1, <1>8 DEF Shapes, Calls
<1>10. Calls' /\ call'[r] = c /\ Others(r) BY <1>1, <1>2, <1>7, <1>8, <1>9, RefinesCall
<1>11. Shapes' BY <1>1, <1>3, <1>4, <1>10, KeptShapes DEF KeepsAll
<1>12. Settled(r) BY <1>2, <1>3, <1>6, <1>7, <1>10 DEF Settled
<1> QED BY <1>11, <1>12 DEF Effect

LEMMA ClearAwaitingDoes == ASSUME Known, NEW r \in Reviews, ClearAwaiting(r)
                           PROVE  Effect(r, r) /\ Shapes'
<1>1. Shapes /\ r \in Callers BY KnownShapes DEF Callers
<1>2. call[r].step = "settle" BY DEF ClearAwaiting, At
<1>3. KeepsEntry /\ KeepsOutcome /\ KeepsTrouble /\ tries' = tries /\ failures' = failures
  BY DEF ClearAwaiting, entry, history, KeepsEntry, KeepsOutcome, KeepsTrouble
<1> DEFINE row == [review[r] EXCEPT !.awaiting = FALSE]
<1>4. review[r] \in Row BY <1>1 DEF Shapes
<1>5. /\ row \in Row /\ row.status = review[r].status
      /\ row.awaiting = FALSE /\ row.applied = review[r].applied
  BY <1>4 DEF Row
<1>6. review' = [review EXCEPT ![r] = row] BY DEF ClearAwaiting
<1> HIDE DEF row
<1>7. review' \in [Reviews -> Row] /\ RowIs(r, review[r].status, FALSE, review[r].applied)
  BY <1>1, <1>5, <1>6, RowChanges DEF Shapes, RowIs
<1>8. Went(r, "look") /\ Calls'
  BY <1>1, <1>2, <1>3, GoesOn DEF ClearAwaiting, Shapes, WatcherSteps
<1>9. failures' \in 0..MaxFailures BY <1>1, <1>3 DEF Shapes
<1>10. Shapes' BY <1>1, <1>3, <1>7, <1>8, <1>9, KeptShapes
<1> QED BY <1>2, <1>3, <1>7, <1>8, <1>10 DEF Disarms, Effect

LEMMA LookDoes == ASSUME Known, NEW r \in Reviews, Look(r) PROVE Effect(r, r) /\ Shapes'
<1>1. Shapes /\ r \in Callers BY KnownShapes DEF Callers
<1>2. call[r].step = "look" BY DEF Look, At
<1>3. KeepsAll /\ tries' = tries /\ failures' = failures
  BY DEF Look, entry, history, KeepsAll, KeepsEntry, KeepsOutcome, KeepsTrouble
<1>4. CASE Effective(r) = "approved"
  <2>1. Moves(r, "mark") BY <1>3, <1>4 DEF Look, Moves
  <2>2. Went(r, "mark") /\ Shapes' BY <1>1, <1>2, <2>1, MovesShapes DEF Applying
  <2>3. Turns(r, r, "mark") BY <1>2, <1>3, <1>4, <2>2 DEF Turns
  <2> QED BY <2>2, <2>3 DEF Effect, DeciderSteps, Applying
<1>5. CASE Effective(r) # "approved"
  <2>1. Returned(r) BY <1>3, <1>5 DEF Look, Returned
  <2>2. Ended(r) /\ Shapes' BY <1>1, <1>2, <2>1, ReturnedShapes
  <2> QED BY <1>2, <1>3, <1>5, <2>2 DEF Leaves, Effect, KeepsAll
<1> QED BY <1>4, <1>5

LEMMA EditDoes == ASSUME Known, NEW e \in Edits, Edit(e) PROVE Edited(e) /\ Shapes'
<1>1. Shapes /\ version \in 1..Len(rows) BY KnownShapes
<1>2. Edited(e) /\ tries' = tries /\ failures' = failures
  BY DEF Edit, Edited, history, KeepsOutcome, KeepsTrouble
<1>3. rows' \in Seq(SUBSET Changes) /\ version' \in Nat /\ overlapped' \subseteq Changes
  <2>1. rows[version] \union {e} \in SUBSET Changes BY <1>1 DEF Shapes, Changes
  <2>2. UNION {call[q].of : q \in InTry} \subseteq Changes
    BY <1>1 DEF InTry, Changes, Shapes, Calls, Call
  <2> QED BY <1>1, <1>2, <2>1, <2>2 DEF Shapes, Edited, Changes
<1>4. Calls' BY <1>1, <1>2 DEF Edited, Shapes, Calls, OneReview, Spent
<1> QED BY <1>1, <1>2, <1>3, <1>4 DEF Shapes, Edited, KeepsOutcome, KeepsTrouble

\* Every step is one of these.
Happens ==
  \/ \E r \in Reviews : Proposes(r) \/ \E d \in Deciders : Begins(d, r)
  \/ \E p \in Callers, r \in Reviews : call[p].of = {r} /\ Effect(p, r)
  \/ \E e \in Edits : Edited(e)
  \/ Stutters

LEMMA Effects == ASSUME Known, VerdictsTrue, [Next]_vars PROVE Happens /\ Shapes'
<1>1. Shapes BY KnownShapes
<1>2. ASSUME NEW p \in Callers, call[p].step # "idle"
      PROVE  \E r \in Reviews : call[p].of = {r}
  BY <1>1, <1>2, OfIs DEF Shapes
<1>3. ASSUME NEW p \in Callers, Apply(p) PROVE Happens /\ Shapes'
  <2>1. call[p].step # "idle"
    BY <1>3 DEF Apply, MarkApplied, ReadFields, ReadEntry, InsertVersion, Inserted, Collide, SaveEntry,
                Saved, RecordApply, ClearApplied, At
  <2>2. PICK r \in Reviews : call[p].of = {r} BY <1>2, <2>1
  <2>3. CASE MarkApplied(p) BY <2>2, <2>3, MarkAppliedDoes DEF Happens
  <2>4. CASE ReadFields(p) BY <2>2, <2>4, ReadFieldsDoes DEF Happens
  <2>5. CASE ReadEntry(p) BY <2>2, <2>5, ReadEntryDoes DEF Happens
  <2>6. CASE InsertVersion(p)
    <3>1. Inserted(p) /\ Wrote(p, r, "save", TRUE) BY <2>6 DEF InsertVersion, Wrote, history
    <3> QED BY <2>2, <3>1, InsertDoes DEF Happens
  <2>7. CASE Collide(p) BY <2>2, <2>7, CollideDoes DEF Happens
  <2>8. CASE SaveEntry(p)
    <3>1. Saved(p, TRUE) /\ Wrote(p, r, "record", TRUE) BY <2>8 DEF SaveEntry, Wrote, history
    <3> QED BY <2>2, <3>1, SaveDoes DEF Happens
  <2>9. CASE RecordApply(p) BY <2>2, <2>9, RecordApplyDoes DEF Happens
  <2>10. CASE ClearApplied(p) BY <2>2, <2>10, ClearAppliedDoes DEF Happens
  <2> QED BY <1>3, <2>3, <2>4, <2>5, <2>6, <2>7, <2>8, <2>9, <2>10 DEF Apply
<1>4. ASSUME NEW d \in Deciders, DeciderGoes(d) PROVE Happens /\ Shapes'
  <2>1. d \in Callers BY DEF Callers
  <2>2. CASE Apply(d) BY <1>3, <2>1, <2>2
  <2>3. CASE ~Apply(d)
    <3>1. call[d].step # "idle" BY <1>4, <2>3 DEF DeciderGoes, Decide, Reread, Signal, RecordRejection, At
    <3>2. PICK r \in Reviews : call[d].of = {r} BY <1>2, <2>1, <3>1
    <3>3. call[d].verdict \in Decisions BY <3>2 DEF VerdictsTrue
    <3> QED BY <1>4, <2>1, <2>3, <3>2, <3>3, DecideDoes, RereadDoes, SignalDoes, RecordRejectionDoes
            DEF DeciderGoes, Happens
  <2> QED BY <2>2, <2>3
<1>5. ASSUME NEW r \in Reviews, WatcherGoes(r) PROVE Happens /\ Shapes'
  <2>1. r \in Callers /\ call[r].of = {r} BY <1>1 DEF Callers, Shapes, Calls
  <2> QED BY <1>3, <1>5, <2>1, ArmDoes, WaitDoes, ClearAwaitingDoes, LookDoes DEF WatcherGoes, Happens
<1>6. ASSUME NEW p \in Callers, Fail(p) \/ LoseReply(p) \/ Die(p) PROVE Happens /\ Shapes'
  <2>1. call[p].step # "idle" BY <1>6 DEF Fail, Die, LoseReply, Inserted, Saved, At, Resting
  <2>2. PICK r \in Reviews : call[p].of = {r} BY <1>2, <2>1
  <2> QED BY <1>6, <2>2, FailDoes, LoseReplyDoes, DieDoes DEF Happens
<1>7. ASSUME NEW r \in Reviews, CreateReview(r) \/ StartWatcher(r) PROVE Happens /\ Shapes'
  <2>1. r \in Callers /\ call[r].of = {r} BY <1>1 DEF Callers, Shapes, Calls
  <2>2. "arm" \in DeciderSteps \union WatcherSteps BY DEF WatcherSteps
  <2> QED BY <1>7, <2>1, <2>2, CreateReviewDoes, StartWatcherDoes DEF Happens, Effect
<1>8. ASSUME NEW d \in Deciders, NEW r \in Reviews, NEW v \in Decisions, Begin(d, r, v)
      PROVE  Happens /\ Shapes'
  BY <1>8, BeginDoes DEF Happens
<1>9. ASSUME NEW e \in Edits, Edit(e) PROVE Happens /\ Shapes' BY <1>9, EditDoes DEF Happens
<1>10. CASE UNCHANGED vars
  <2>1. Stutters /\ tries' = tries /\ failures' = failures
    BY <1>10 DEF vars, entry, history, Stutters, KeepsAll, KeepsEntry, KeepsOutcome, KeepsTrouble
  <2>2. Shapes'
    BY <1>1, <2>1 DEF Stutters, Shapes, Calls, OneReview, Spent, KeepsAll, KeepsEntry, KeepsOutcome, KeepsTrouble
  <2> QED BY <2>1, <2>2 DEF Happens
<1> QED BY <1>4, <1>5, <1>6, <1>7, <1>8, <1>9, <1>10 DEF Next

\* Whose review is whose, before and after a step.
Owners ==
  /\ \A q \in Callers, t \in Reviews : t \in call[q].of => call[q].of = {t} /\ call[q].step # "idle"
  /\ \A t \in Reviews : /\ call[t].of = {t} /\ t \in Callers /\ t \notin Deciders
                        /\ call[t].step \notin {"idle", "decide", "reread", "signal", "reject"}
  /\ \A d \in Deciders : /\ d \in Callers /\ d \notin Reviews
                         /\ call[d].step \notin {"absent", "arm", "wait", "settle", "look", "done", "failed"}
  /\ \A q \in Callers : q \in Deciders \/ q \in Reviews
  /\ \A q \in Callers : call[q].step = "idle" => call[q].of = {}

LEMMA CallsOwners == Calls => Owners
<1> SUFFICES ASSUME Calls PROVE Owners OBVIOUS
<1>1. \A t \in Reviews : /\ call[t].of = {t} /\ t \in Callers /\ t \notin Deciders
                         /\ call[t].step \notin {"idle", "decide", "reread", "signal", "reject"}
  BY DEF Calls, Callers, WatcherSteps, Applying, Trying
<1>2. \A d \in Deciders :
        /\ d \in Callers /\ d \notin Reviews
        /\ call[d].step \notin {"absent", "arm", "wait", "settle", "look", "done", "failed"}
  BY DEF Calls, Callers, DeciderSteps, Applying, Trying
<1>3. \A q \in Callers : q \in Deciders \/ q \in Reviews BY DEF Callers
<1>4. \A q \in Callers : call[q].step = "idle" => call[q].of = {}
  BY <1>1, <1>3 DEF Calls, OneReview
<1>5. \A q \in Callers, t \in Reviews : t \in call[q].of => call[q].of = {t} /\ call[q].step # "idle"
  BY <1>1, <1>3 DEF Calls, OneReview
<1> QED BY <1>1, <1>2, <1>3, <1>4, <1>5 DEF Owners

LEMMA OwnersAround == ASSUME Inv, Shapes' PROVE Owners /\ Owners'
<1>1. Calls /\ Calls' BY KnownShapes DEF Inv, Known, Shapes
<1>2. (Calls => Owners)' BY CallsOwners, PTL
<1> QED BY <1>1, <1>2, CallsOwners

\* The roles of a step: only its caller's, for its review, changes.
Becomes(p, r, role) ==
  /\ Role(p, r)' = role
  /\ \A q \in Callers, t \in Reviews : q # p \/ t # r => Role(q, t)' = Role(q, t)

LEMMA RoleChanges ==
  ASSUME Owners, Owners', NEW p \in Callers, NEW r \in Reviews, call[p].of \subseteq {r},
         call'[p].of \subseteq {r}, Others(p)
  PROVE  Becomes(p, r, Role(p, r)')
BY DEF Becomes, Role, Others, Owners

LEMMA BeginsRole == ASSUME Owners, Owners', NEW d \in Deciders, NEW r \in Reviews, Begins(d, r)
                    PROVE  Role(d, r) = "none" /\ Becomes(d, r, "none")
<1>1. call[d].of = {} BY DEF Begins, Owners
<1>2. Becomes(d, r, Role(d, r)') BY <1>1, RoleChanges DEF Begins, Owners
<1>3. Role(d, r) = "none" /\ Role(d, r)' = "none" BY <1>1 DEF Begins, Role, Trying
<1> QED BY <1>2, <1>3

LEMMA EffectRole ==
  ASSUME Owners, Owners', NEW p \in Callers, NEW r \in Reviews, call[p].of = {r}
  PROVE  /\ Decides(p, r) => Role(p, r) = "none" /\ Becomes(p, r, "decides")
         /\ \A s : Turns(p, r, s) =>
              \/ Role(p, r) = "none" /\ Becomes(p, r, "none")
              \/ Role(p, r) = "decides" /\ Becomes(p, r, "decides")
              \/ Role(p, r) = "decides" /\ call[p].verdict = "approved" /\ Becomes(p, r, "none")
         /\ Signals(p, r) => /\ Role(p, r) = "decides"
                             /\ \/ Becomes(p, r, "decides")
                                \/ call[p].verdict = "approved" /\ Becomes(p, r, "none")
         /\ Leaves(p, r) => /\ Becomes(p, r, "none")
                            /\ Role(p, r) = "none" \/ Troubled(r)
                            /\ Role(p, r) = "applies" => r \in orphaned'
         /\ Marks(p, r) => Role(p, r) = "none" /\ Becomes(p, r, "applies")
         /\ Reads(p, r) \/ Rereads(p, r) \/ Inserts(p, r) \/ Breaks(p, r) =>
              Role(p, r) = "applies" /\ Becomes(p, r, "applies")
         /\ Saves(p, r) => /\ Role(p, r) = "applies"
                           /\ Went(p, "record") => Becomes(p, r, "records")
                           /\ Went(p, "clear") => Becomes(p, r, "applies")
         /\ RecordsApply(p, r) => Role(p, r) = "records" /\ Becomes(p, r, "none")
         /\ RecordsRejection(p, r) => Role(p, r) = "decides" /\ Becomes(p, r, "none")
         /\ Clears(p, r) => Role(p, r) = "applies" /\ Becomes(p, r, "none")
         /\ p = r /\ (Arms(r) \/ Settled(r) \/ Disarms(r)) =>
              Role(p, r) = "none" /\ Becomes(p, r, "none")
<1>1. Ended(p) => Becomes(p, r, "none")
  <2>1. ASSUME Ended(p) PROVE call'[p].of \subseteq {r} /\ Others(p) /\ Role(p, r)' = "none"
    BY <2>1 DEF Ended, Idle, Owners, Role, Trying
  <2> QED BY <2>1, RoleChanges
<1>2. ASSUME NEW s, Went(p, s)
      PROVE  /\ s \in Trying \union {"clear"} => Becomes(p, r, "applies")
             /\ s = "record" => Becomes(p, r, "records")
             /\ s \in {"reread", "signal", "reject"} => Becomes(p, r, "decides")
             /\ s \notin Trying \union {"clear", "record", "reread", "signal", "reject"} =>
                  Becomes(p, r, "none")
  <2>1. Becomes(p, r, Role(p, r)') BY <1>2, RoleChanges DEF Went
  <2>2. call'[p].of = {r} /\ call'[p].step = s BY <1>2 DEF Went
  <2> QED BY <2>1, <2>2 DEF Becomes, Role, Trying
<1>3. Decides(p, r) => Role(p, r) = "none" /\ Becomes(p, r, "decides")
  BY <1>2 DEF Decides, Role, Trying
<1>4. ASSUME NEW s, Turns(p, r, s)
      PROVE  \/ Role(p, r) = "none" /\ Becomes(p, r, "none")
             \/ Role(p, r) = "decides" /\ Becomes(p, r, "decides")
             \/ Role(p, r) = "decides" /\ call[p].verdict = "approved" /\ Becomes(p, r, "none")
  BY <1>2, <1>4 DEF Turns, Directly, Role, Trying
<1>5. Signals(p, r) => /\ Role(p, r) = "decides"
                       /\ \/ Becomes(p, r, "decides")
                          \/ call[p].verdict = "approved" /\ Becomes(p, r, "none")
  BY <1>1, <1>2 DEF Signals, Directly, Role, Trying
<1>6. Leaves(p, r) => /\ Becomes(p, r, "none")
                      /\ Role(p, r) = "none" \/ Troubled(r)
                      /\ Role(p, r) = "applies" => r \in orphaned'
  BY <1>1 DEF Leaves, Role, Trying
<1>7. Marks(p, r) => Role(p, r) = "none" /\ Becomes(p, r, "applies")
  BY <1>2 DEF Marks, Role, Trying
<1>8. Reads(p, r) \/ Rereads(p, r) => Role(p, r) = "applies" /\ Becomes(p, r, "applies")
  <2>1. ASSUME Reads(p, r) \/ Rereads(p, r)
        PROVE  /\ call'[p].of \subseteq {r} /\ Others(p)
               /\ Role(p, r) = "applies" /\ Role(p, r)' = "applies"
    BY <2>1 DEF Reads, Rereads, Role, Trying
  <2> QED BY <2>1, RoleChanges
<1>9. Inserts(p, r) \/ Breaks(p, r) => Role(p, r) = "applies" /\ Becomes(p, r, "applies")
  BY <1>2 DEF Inserts, GoesOnOrFails, Breaks, Role, Trying
<1>10. Saves(p, r) => /\ Role(p, r) = "applies"
                      /\ Went(p, "record") => Becomes(p, r, "records")
                      /\ Went(p, "clear") => Becomes(p, r, "applies")
  BY <1>2 DEF Saves, Role, Trying
<1>11. /\ RecordsApply(p, r) => Role(p, r) = "records" /\ Becomes(p, r, "none")
       /\ RecordsRejection(p, r) => Role(p, r) = "decides" /\ Becomes(p, r, "none")
       /\ Clears(p, r) => Role(p, r) = "applies" /\ Becomes(p, r, "none")
  BY <1>1 DEF RecordsApply, RecordsRejection, Clears, Role, Trying
<1>12. p = r /\ (Arms(r) \/ Disarms(r)) => Role(p, r) = "none" /\ Becomes(p, r, "none")
  <2>1. ASSUME p = r, Arms(r) PROVE Role(p, r) = "none" /\ Becomes(p, r, "none")
    BY <1>2, <2>1 DEF Arms, Role, Trying
  <2>2. ASSUME p = r, Disarms(r) PROVE Role(p, r) = "none" /\ Becomes(p, r, "none")
    BY <1>2, <2>2 DEF Disarms, Role, Trying
  <2> QED BY <2>1, <2>2
<1>13. p = r /\ Settled(r) => Role(p, r) = "none" /\ Becomes(p, r, "none")
  <2>1. ASSUME p = r, Settled(r)
        PROVE  /\ call'[p].of \subseteq {r} /\ Others(p)
               /\ Role(p, r) = "none" /\ Role(p, r)' = "none"
    BY <2>1 DEF Settled, Role, Trying
  <2> QED BY <2>1, RoleChanges
<1> QED BY <1>3, <1>4, <1>5, <1>6, <1>7, <1>8, <1>9, <1>10, <1>11, <1>12, <1>13

-------------------------------------------------------------------------------
(***************************************************************************)
(* The marker, the ledger and who acts for a review.                       *)
(***************************************************************************)
Told(t) == MarkerHeld(t) /\ SavesCounted(t) /\ RejectedOnce(t) /\ MarkerOwned(t)

\* A step leaves the items of a review alone, but for doubts.
KeepsItems(t) ==
  /\ review'[t].status = review[t].status /\ review'[t].applied = review[t].applied
  /\ applies'[t] = applies[t] /\ lost'[t] = lost[t] /\ ledger'[t] = ledger[t]
  /\ doubted \subseteq doubted' /\ orphaned \subseteq orphaned'
Untouched(t) == KeepsItems(t) /\ \A q \in Callers : Role(q, t)' = Role(q, t)

LEMMA UntouchedTold == ASSUME NEW t \in Reviews, Told(t), Untouched(t) PROVE Told(t)'
<1>1. ASSUME NEW role
      PROVE  /\ Someone(t, role)' <=> Someone(t, role)
             /\ AtMostOne(t, role)' <=> AtMostOne(t, role)
  BY DEF Untouched, Someone, AtMostOne
<1>2. MarkerHeld(t)' BY <1>1 DEF Told, Untouched, KeepsItems, MarkerHeld
<1>3. SavesCounted(t)' BY <1>1 DEF Told, Untouched, KeepsItems, SavesCounted
<1>4. RejectedOnce(t)' BY <1>1 DEF Told, Untouched, KeepsItems, RejectedOnce
<1>5. MarkerOwned(t)' BY <1>1 DEF Told, Untouched, KeepsItems, MarkerOwned
<1> QED BY <1>2, <1>3, <1>4, <1>5 DEF Told

\* A caller that changes its role.
LEMMA RoleGone ==
  ASSUME NEW p \in Callers, NEW t \in Reviews, NEW to, Becomes(p, t, to), NEW role, role # to
  PROVE  /\ AtMostOne(t, role) => AtMostOne(t, role)'
         /\ Someone(t, role)' => Someone(t, role)
         /\ Role(p, t) # role /\ Someone(t, role) => Someone(t, role)'
         /\ Role(p, t) = role /\ AtMostOne(t, role) => ~Someone(t, role)'
BY DEF Becomes, AtMostOne, Someone

LEMMA RoleTaken ==
  ASSUME NEW p \in Callers, NEW t \in Reviews, NEW role, Becomes(p, t, role)
  PROVE  /\ ~Someone(t, role) \/ (Role(p, t) = role /\ AtMostOne(t, role)) => AtMostOne(t, role)'
         /\ Someone(t, role)'
BY DEF Becomes, AtMostOne, Someone

\* The items of the reviews a step is not for.
LEMMA OthersUntouched ==
  ASSUME Shapes, Shapes', Owners, Owners', NEW p \in Callers, NEW r \in Reviews, call[p].of = {r}, Effect(p, r)
  PROVE  \A t \in Reviews \ {r} : Untouched(t)
<1>1. \A t \in Reviews \ {r}, q \in Callers : Role(q, t)' = Role(q, t)
  <2>1. \E role : Becomes(p, r, role) BY EffectRole DEF Effect, Saves
  <2> QED BY <2>1 DEF Becomes
<1> SUFFICES \A t \in Reviews \ {r} : KeepsItems(t) BY <1>1 DEF Untouched
<1>2. CASE Decides(p, r) BY <1>2 DEF Decides, RowIs, KeepsEntry, KeepsOutcome, KeepsTrouble, KeepsItems
<1>3. CASE \E s \in DeciderSteps \union WatcherSteps : Turns(p, r, s)
  BY <1>3 DEF Turns, KeepsAll, KeepsEntry, KeepsOutcome, KeepsTrouble, KeepsItems
<1>4. CASE Signals(p, r) BY <1>4 DEF Signals, KeepsEntry, KeepsTrouble, KeepsItems
<1>5. CASE Leaves(p, r)
  BY <1>5 DEF Leaves, KeepsEntry, KeepsOutcome, KeepsTrouble, Troubled, KeepsItems
<1>6. CASE Marks(p, r) BY <1>6 DEF Marks, RowIs, KeepsEntry, KeepsOutcome, KeepsTrouble, KeepsItems
<1>7. CASE Reads(p, r) BY <1>7 DEF Reads, KeepsOutcome, KeepsTrouble, KeepsItems
<1>8. CASE Rereads(p, r) BY <1>8 DEF Rereads, KeepsAll, KeepsEntry, KeepsOutcome, KeepsTrouble, KeepsItems
<1>9. CASE Inserts(p, r) BY <1>9 DEF Inserts, GoesOnOrFails, KeepsOutcome, KeepsItems
<1>10. CASE Saves(p, r) BY <1>10 DEF Saves, KeepsOutcome, KeepsItems, Shapes
<1>11. CASE Breaks(p, r) BY <1>11 DEF Breaks, KeepsEntry, KeepsOutcome, KeepsItems
<1>12. CASE RecordsApply(p, r) BY <1>12 DEF RecordsApply, KeepsEntry, KeepsTrouble, KeepsItems, Shapes
<1>13. CASE RecordsRejection(p, r)
  BY <1>13 DEF RecordsRejection, KeepsEntry, KeepsTrouble, KeepsItems, Shapes
<1>14. CASE Clears(p, r) BY <1>14 DEF Clears, RowIs, KeepsEntry, KeepsOutcome, KeepsItems
<1>15. CASE p = r /\ (Arms(r) \/ Settled(r) \/ Disarms(r))
  BY <1>15 DEF Arms, Settled, Disarms, RowIs, KeepsAll, KeepsEntry, KeepsOutcome, KeepsTrouble, KeepsItems
<1> QED BY <1>2, <1>3, <1>4, <1>5, <1>6, <1>7, <1>8, <1>9, <1>10, <1>11, <1>12, <1>13, <1>14, <1>15
        DEF Effect

\* The items of the review a step is for.
RoleFacts(r, role) ==
  /\ Someone(r, role)' <=> Someone(r, role)
  /\ AtMostOne(r, role) => AtMostOne(r, role)'

LEMMA OtherRoles ==
  ASSUME NEW p \in Callers, NEW r \in Reviews, NEW to, Becomes(p, r, to), NEW role,
         role # to, Role(p, r) # role
  PROVE  RoleFacts(r, role)
BY RoleGone DEF RoleFacts

LEMMA DecidesTold ==
  ASSUME Shapes, Shapes', Owners, Owners', VerdictsTrue, NEW p \in Callers, NEW r \in Reviews,
         call[p].of = {r}, Told(r), Decides(p, r)
  PROVE  Told(r)'
<1>1. Role(p, r) = "none" /\ Becomes(p, r, "decides") BY EffectRole
<1>2. RoleFacts(r, "applies") /\ RoleFacts(r, "records") BY <1>1, OtherRoles
<1>3. ~Someone(r, "decides") BY DEF Told, RejectedOnce, Decides
<1>4. AtMostOne(r, "decides")' /\ Someone(r, "decides")' BY <1>1, <1>3, RoleTaken
<1>5. call[p].verdict \in Decisions BY DEF VerdictsTrue, Decides, Owners
<1>6. /\ review[r].status = "pending" /\ review'[r].status = call[p].verdict
      /\ review'[r].applied = review[r].applied /\ applies' = applies /\ lost' = lost
      /\ ledger' = ledger /\ doubted' = doubted /\ orphaned' = orphaned
  BY DEF Decides, RowIs, KeepsEntry, KeepsOutcome, KeepsTrouble
<1>7. MarkerHeld(r)' BY <1>2, <1>6 DEF Told, RoleFacts, MarkerHeld
<1>8. SavesCounted(r)' BY <1>2, <1>5, <1>6 DEF Told, RoleFacts, SavesCounted, Decisions
<1>9. RejectedOnce(r)'
  <2>1. ledger[r].rejected = 0 BY <1>6 DEF Told, RejectedOnce, Shapes
  <2> QED BY <1>4, <1>5, <1>6, <2>1 DEF RejectedOnce, Decisions
<1>10. MarkerOwned(r)' BY <1>2, <1>6 DEF Told, RoleFacts, MarkerOwned
<1> QED BY <1>7, <1>8, <1>9, <1>10 DEF Told

\* A decider hands an approval on.
LEMMA HandsOnTold ==
  ASSUME Owners, VerdictsTrue, NEW p \in Callers, NEW r \in Reviews,
         call[p].of = {r}, Told(r), Role(p, r) = "decides", call[p].verdict = "approved",
         Becomes(p, r, "none"), KeepsItems(r)
  PROVE  Told(r)'
<1>1. RoleFacts(r, "applies") /\ RoleFacts(r, "records") BY OtherRoles
<1>2. ~Someone(r, "decides")' /\ AtMostOne(r, "decides")' BY RoleGone DEF Told, RejectedOnce
<1>3. review[r].status = "approved" BY DEF VerdictsTrue, Owners, Role, Trying
<1>4. MarkerHeld(r)' BY <1>1 DEF Told, RoleFacts, MarkerHeld, KeepsItems
<1>5. SavesCounted(r)' BY <1>1 DEF Told, RoleFacts, SavesCounted, KeepsItems
<1>6. RejectedOnce(r)' BY <1>2, <1>3 DEF Told, RejectedOnce, KeepsItems
<1>7. MarkerOwned(r)' BY <1>1 DEF Told, RoleFacts, MarkerOwned, KeepsItems
<1> QED BY <1>4, <1>5, <1>6, <1>7 DEF Told

LEMMA LeavesTold ==
  ASSUME Shapes, Owners, Owners', NEW p \in Callers, NEW r \in Reviews, call[p].of = {r}, Told(r), Leaves(p, r)
  PROVE  Told(r)'
<1>1. /\ Becomes(p, r, "none")
      /\ Role(p, r) = "none" \/ Troubled(r)
      /\ Role(p, r) = "applies" => r \in orphaned'
  BY EffectRole
<1>2. KeepsItems(r)
  BY DEF Leaves, KeepsEntry, KeepsOutcome, KeepsTrouble, Troubled, KeepsItems
<1>3. CASE Role(p, r) = "none"
  BY <1>1, <1>2, <1>3, UntouchedTold DEF Becomes, Untouched
<1>4. CASE Role(p, r) # "none"
  <2>1. r \in doubted' BY <1>1, <1>4 DEF Troubled
  <2>2. ASSUME NEW role \in {"applies", "records", "decides"}
        PROVE  /\ Someone(r, role)' => Someone(r, role)
               /\ AtMostOne(r, role) => AtMostOne(r, role)'
    BY <1>1, RoleGone
  <2>3. Someone(r, "applies") => Someone(r, "applies")' \/ r \in orphaned'
    BY <1>1, RoleGone
  <2>4. MarkerHeld(r)' BY <1>2, <2>2 DEF Told, MarkerHeld, KeepsItems
  <2>5. SavesCounted(r)' BY <1>2, <2>1, <2>2 DEF Told, SavesCounted, KeepsItems
  <2>6. RejectedOnce(r)' BY <1>2, <2>1, <2>2 DEF Told, RejectedOnce, KeepsItems
  <2>7. MarkerOwned(r)' BY <1>2, <2>3 DEF Told, MarkerOwned, KeepsItems
  <2> QED BY <2>4, <2>5, <2>6, <2>7 DEF Told
<1> QED BY <1>3, <1>4

LEMMA MarksTold ==
  ASSUME Shapes, Owners, Owners', NEW p \in Callers, NEW r \in Reviews, call[p].of = {r}, Told(r), Marks(p, r)
  PROVE  Told(r)'
<1>1. Role(p, r) = "none" /\ Becomes(p, r, "applies") BY EffectRole
<1>2. RoleFacts(r, "decides") /\ RoleFacts(r, "records") BY <1>1, OtherRoles
<1>3. ~Someone(r, "applies") BY DEF Told, MarkerHeld, Marks
<1>4. AtMostOne(r, "applies")' /\ Someone(r, "applies")' BY <1>1, <1>3, RoleTaken
<1>5. /\ ~review[r].applied /\ review'[r].status = review[r].status
      /\ review'[r].applied = TRUE /\ applies' = applies /\ lost' = lost
      /\ ledger' = ledger /\ doubted' = doubted /\ orphaned' = orphaned
  BY DEF Marks, RowIs, KeepsEntry, KeepsOutcome, KeepsTrouble
<1>6. MarkerHeld(r)' BY <1>2, <1>4, <1>5 DEF Told, RoleFacts, MarkerHeld
<1>7. SavesCounted(r)' BY <1>2, <1>5 DEF Told, RoleFacts, SavesCounted
<1>8. RejectedOnce(r)' BY <1>2, <1>5 DEF Told, RoleFacts, RejectedOnce
<1>9. MarkerOwned(r)' BY <1>4 DEF MarkerOwned
<1> QED BY <1>6, <1>7, <1>8, <1>9 DEF Told

LEMMA SavesTold ==
  ASSUME Shapes, Owners, Owners', VerdictsTrue, NEW p \in Callers, NEW r \in Reviews, call[p].of = {r},
         Told(r), Saves(p, r)
  PROVE  Told(r)'
<1>1. /\ Role(p, r) = "applies"
      /\ Went(p, "record") => Becomes(p, r, "records")
      /\ Went(p, "clear") => Becomes(p, r, "applies")
  BY EffectRole
<1>2. Someone(r, "applies") BY <1>1 DEF Someone
<1>3. /\ review[r].applied /\ AtMostOne(r, "applies") /\ applies[r] = lost[r]
      /\ ledger[r].completed = 0 /\ ~Someone(r, "records")
  BY <1>2 DEF Told, MarkerHeld
<1>4. review[r].status = "approved" BY DEF VerdictsTrue, Saves, Applying, Trying
<1>5. applies[r] \in Nat /\ lost[r] \in Nat BY DEF Shapes
<1>6. /\ review' = review /\ applies'[r] = applies[r] + 1 /\ ledger' = ledger /\ orphaned' = orphaned
  BY DEF Saves, KeepsOutcome, Shapes
<1>7. CASE Went(p, "record") /\ lost' = lost /\ doubted' = doubted
  <2>1. Becomes(p, r, "records") BY <1>1, <1>7
  <2>2. RoleFacts(r, "decides") BY <1>1, <2>1, OtherRoles
  <2>3. ~Someone(r, "applies")' /\ AtMostOne(r, "applies")' BY <1>1, <1>3, <2>1, RoleGone
  <2>4. AtMostOne(r, "records")' /\ Someone(r, "records")' BY <1>3, <2>1, RoleTaken
  <2>5. MarkerHeld(r)' BY <1>3, <1>6, <2>3 DEF MarkerHeld
  <2>6. SavesCounted(r)' BY <1>3, <1>4, <1>5, <1>6, <1>7, <2>4 DEF Told, SavesCounted
  <2>7. RejectedOnce(r)' BY <1>6, <1>7, <2>2 DEF Told, RoleFacts, RejectedOnce
  <2>8. MarkerOwned(r)' BY <1>5, <1>6 DEF MarkerOwned
  <2> QED BY <2>5, <2>6, <2>7, <2>8 DEF Told
<1>8. CASE Went(p, "clear") /\ lost' = [lost EXCEPT ![r] = @ + 1] /\ doubted' = doubted \union {r}
  <2>1. Becomes(p, r, "applies") BY <1>1, <1>8
  <2>2. RoleFacts(r, "decides") /\ RoleFacts(r, "records") BY <1>1, <2>1, OtherRoles
  <2>3. Someone(r, "applies")' /\ AtMostOne(r, "applies")' BY <1>1, <1>3, <2>1, RoleTaken
  <2>4. lost'[r] = lost[r] + 1 /\ r \in doubted' BY <1>8 DEF Shapes
  <2>5. MarkerHeld(r)' BY <1>3, <1>5, <1>6, <2>2, <2>3, <2>4 DEF RoleFacts, MarkerHeld
  <2>6. SavesCounted(r)'
    BY <1>3, <1>4, <1>5, <1>6, <2>2, <2>4 DEF Told, RoleFacts, SavesCounted
  <2>7. RejectedOnce(r)' BY <1>6, <2>2, <2>4 DEF Told, RoleFacts, RejectedOnce
  <2>8. MarkerOwned(r)' BY <1>5, <1>6 DEF MarkerOwned
  <2> QED BY <2>5, <2>6, <2>7, <2>8 DEF Told
<1> QED BY <1>7, <1>8 DEF Saves

LEMMA RecordsApplyTold ==
  ASSUME Shapes, Owners, Owners', NEW p \in Callers, NEW r \in Reviews, call[p].of = {r}, Told(r),
         RecordsApply(p, r)
  PROVE  Told(r)'
<1>1. Role(p, r) = "records" /\ Becomes(p, r, "none") BY EffectRole
<1>2. RoleFacts(r, "applies") /\ RoleFacts(r, "decides") BY <1>1, OtherRoles
<1>3. Someone(r, "records") BY <1>1 DEF Someone
<1>4. applies[r] = lost[r] + 1 /\ ledger[r].completed = 0 /\ AtMostOne(r, "records")
  BY <1>3 DEF Told, SavesCounted
<1>5. ~Someone(r, "records")' /\ AtMostOne(r, "records")' BY <1>1, <1>4, RoleGone
<1>6. /\ review' = review /\ applies' = applies /\ lost' = lost
      /\ doubted' = doubted /\ orphaned' = orphaned
      /\ ledger'[r].completed = 1 /\ ledger'[r].rejected = ledger[r].rejected
  BY <1>4 DEF RecordsApply, KeepsEntry, KeepsTrouble, Shapes
<1>7. review[r].applied /\ ~Someone(r, "applies") BY <1>3 DEF Told, MarkerHeld
<1>8. MarkerHeld(r)' BY <1>2, <1>6, <1>7 DEF Told, RoleFacts, MarkerHeld
<1>9. applies[r] \in Nat /\ lost[r] \in Nat BY DEF Shapes
<1>10. SavesCounted(r)' BY <1>4, <1>5, <1>6, <1>9 DEF Told, SavesCounted
<1>11. RejectedOnce(r)' BY <1>2, <1>6 DEF Told, RoleFacts, RejectedOnce
<1>12. MarkerOwned(r)' BY <1>4, <1>6, <1>9 DEF MarkerOwned
<1> QED BY <1>8, <1>10, <1>11, <1>12 DEF Told

LEMMA RecordsRejectionTold ==
  ASSUME Shapes, Owners, Owners', VerdictsTrue, NEW p \in Callers, NEW r \in Reviews, call[p].of = {r},
         Told(r), RecordsRejection(p, r)
  PROVE  Told(r)'
<1>1. Role(p, r) = "decides" /\ Becomes(p, r, "none") BY EffectRole
<1>2. RoleFacts(r, "applies") /\ RoleFacts(r, "records") BY <1>1, OtherRoles
<1>3. Someone(r, "decides") BY <1>1 DEF Someone
<1>4. ledger[r].rejected = 0 /\ AtMostOne(r, "decides") BY <1>3 DEF Told, RejectedOnce
<1>5. ~Someone(r, "decides")' /\ AtMostOne(r, "decides")' BY <1>1, <1>4, RoleGone
<1>6. review[r].status = "rejected"
  <2>1. p \in Deciders BY DEF RecordsRejection, Owners
  <2> QED BY <1>1, <2>1 DEF VerdictsTrue, RecordsRejection
<1>7. /\ review' = review /\ applies' = applies /\ lost' = lost
      /\ doubted' = doubted /\ orphaned' = orphaned
      /\ ledger'[r].rejected = 1 /\ ledger'[r].completed = ledger[r].completed
  BY <1>4 DEF RecordsRejection, KeepsEntry, KeepsTrouble, Shapes
<1>8. MarkerHeld(r)' BY <1>2, <1>7 DEF Told, RoleFacts, MarkerHeld
<1>9. SavesCounted(r)' BY <1>2, <1>7 DEF Told, RoleFacts, SavesCounted
<1>10. RejectedOnce(r)' BY <1>5, <1>6, <1>7 DEF RejectedOnce
<1>11. MarkerOwned(r)' BY <1>2, <1>7 DEF Told, RoleFacts, MarkerOwned
<1> QED BY <1>8, <1>9, <1>10, <1>11 DEF Told

LEMMA ClearsTold ==
  ASSUME Shapes, Owners, Owners', Cleans, NEW p \in Callers, NEW r \in Reviews, call[p].of = {r},
         Told(r), Clears(p, r)
  PROVE  Told(r)'
<1>1. Role(p, r) = "applies" /\ Becomes(p, r, "none") BY EffectRole
<1>2. RoleFacts(r, "decides") /\ RoleFacts(r, "records") BY <1>1, OtherRoles
<1>3. Someone(r, "applies") BY <1>1 DEF Someone
<1>4. /\ AtMostOne(r, "applies") /\ applies[r] = lost[r] /\ ledger[r].completed = 0
      /\ ~Someone(r, "records")
  BY <1>3 DEF Told, MarkerHeld
<1>5. ~Someone(r, "applies")' /\ AtMostOne(r, "applies")' BY <1>1, <1>4, RoleGone
<1>6. /\ review'[r].status = review[r].status /\ review'[r].applied = FALSE
      /\ applies' = applies /\ lost' = lost /\ ledger' = ledger /\ doubted' = doubted
  BY DEF Clears, RowIs, KeepsEntry, KeepsOutcome
<1>7. MarkerHeld(r)' BY <1>2, <1>4, <1>5, <1>6 DEF RoleFacts, MarkerHeld
<1>8. SavesCounted(r)' BY <1>2, <1>6 DEF Told, RoleFacts, SavesCounted
<1>9. RejectedOnce(r)' BY <1>2, <1>6 DEF Told, RoleFacts, RejectedOnce
<1>10. MarkerOwned(r)' BY <1>6 DEF MarkerOwned
<1> QED BY <1>7, <1>8, <1>9, <1>10 DEF Told

LEMMA ToldStep == ASSUME Inv, Shapes', Happens PROVE \A t \in Reviews : Told(t)'
<1>1. /\ Owners /\ Owners' /\ Shapes /\ VerdictsTrue /\ Cleans
      /\ \A t \in Reviews : Told(t)
  BY OwnersAround, KnownShapes DEF Inv, Known, Told
<1>2. ASSUME NEW p \in Callers, NEW r \in Reviews, call[p].of = {r}, Effect(p, r)
      PROVE  \A t \in Reviews : Told(t)'
  <2>1. \A t \in Reviews \ {r} : Told(t)' BY <1>1, <1>2, OthersUntouched, UntouchedTold
  <2> SUFFICES Told(r)' BY <2>1
  <2>2. CASE Decides(p, r) BY <1>1, <1>2, <2>2, DecidesTold
  <2>3. ASSUME NEW s, Turns(p, r, s) PROVE Told(r)'
    <3>1. KeepsItems(r)
      BY <2>3 DEF Turns, KeepsAll, KeepsEntry, KeepsOutcome, KeepsTrouble, KeepsItems
    <3>2. \/ Role(p, r) \in {"none", "decides"} /\ Becomes(p, r, Role(p, r))
          \/ Role(p, r) = "decides" /\ call[p].verdict = "approved" /\ Becomes(p, r, "none")
      BY <1>1, <1>2, <2>3, EffectRole
    <3>3. CASE Becomes(p, r, Role(p, r))
      BY <1>1, <3>1, <3>3, UntouchedTold DEF Becomes, Untouched
    <3>4. CASE Role(p, r) = "decides" /\ call[p].verdict = "approved" /\ Becomes(p, r, "none")
      BY <1>1, <1>2, <3>1, <3>4, HandsOnTold
    <3> QED BY <3>2, <3>3, <3>4
  <2>4. CASE Signals(p, r)
    <3>1. KeepsItems(r) BY <2>4 DEF Signals, KeepsEntry, KeepsTrouble, KeepsItems
    <3>2. Role(p, r) = "decides" /\ \/ Becomes(p, r, "decides")
                                    \/ call[p].verdict = "approved" /\ Becomes(p, r, "none")
      BY <1>1, <1>2, <2>4, EffectRole
    <3>3. CASE Becomes(p, r, "decides")
      BY <1>1, <3>1, <3>2, <3>3, UntouchedTold DEF Becomes, Untouched
    <3>4. CASE call[p].verdict = "approved" /\ Becomes(p, r, "none")
      BY <1>1, <1>2, <3>1, <3>2, <3>4, HandsOnTold
    <3> QED BY <3>2, <3>3, <3>4
  <2>5. CASE Leaves(p, r) BY <1>1, <1>2, <2>5, LeavesTold
  <2>6. CASE Marks(p, r) BY <1>1, <1>2, <2>6, MarksTold
  <2>7. CASE Reads(p, r) \/ Rereads(p, r) \/ Inserts(p, r) \/ Breaks(p, r)
    <3>1. KeepsItems(r)
      BY <2>7 DEF Reads, Rereads, Inserts, Breaks, GoesOnOrFails, KeepsAll, KeepsEntry, KeepsOutcome,
                  KeepsTrouble, KeepsItems
    <3>2. Role(p, r) = "applies" /\ Becomes(p, r, "applies") BY <1>1, <1>2, <2>7, EffectRole
    <3> QED BY <1>1, <3>1, <3>2, UntouchedTold DEF Becomes, Untouched
  <2>8. CASE Saves(p, r) BY <1>1, <1>2, <2>8, SavesTold
  <2>9. CASE RecordsApply(p, r) BY <1>1, <1>2, <2>9, RecordsApplyTold
  <2>10. CASE RecordsRejection(p, r) BY <1>1, <1>2, <2>10, RecordsRejectionTold
  <2>11. CASE Clears(p, r) BY <1>1, <1>2, <2>11, ClearsTold
  <2>12. CASE p = r /\ (Arms(r) \/ Settled(r) \/ Disarms(r))
    <3>1. KeepsItems(r)
      BY <2>12 DEF Arms, Settled, Disarms, RowIs, KeepsAll, KeepsEntry, KeepsOutcome, KeepsTrouble, KeepsItems
    <3>2. Role(p, r) = "none" /\ Becomes(p, r, "none") BY <1>1, <1>2, <2>12, EffectRole
    <3> QED BY <1>1, <3>1, <3>2, UntouchedTold DEF Becomes, Untouched
  <2> QED BY <1>2, <2>2, <2>3, <2>4, <2>5, <2>6, <2>7, <2>8, <2>9, <2>10, <2>11, <2>12 DEF Effect
<1>3. ASSUME NEW r \in Reviews, Proposes(r) PROVE \A t \in Reviews : Told(t)'
  <2>1. \A q \in Callers, t \in Reviews : Role(q, t)' = Role(q, t) BY <1>3 DEF Proposes, Role
  <2>2. \A t \in Reviews \ {r} : Told(t)'
    <3>1. \A t \in Reviews \ {r} : Untouched(t)
      BY <1>3, <2>1 DEF Proposes, RowIs, KeepsEntry, KeepsOutcome, KeepsTrouble, KeepsItems, Untouched
    <3> QED BY <1>1, <3>1, UntouchedTold
  <2>3. \A role : /\ Someone(r, role)' <=> Someone(r, role)
                  /\ AtMostOne(r, role)' <=> AtMostOne(r, role)
    BY <2>1 DEF Someone, AtMostOne
  <2>4. /\ review[r].status = "none" /\ review'[r].status = "pending"
        /\ review'[r].applied = review[r].applied /\ applies' = applies /\ lost' = lost
        /\ ledger' = ledger /\ doubted' = doubted /\ orphaned' = orphaned
    BY <1>3 DEF Proposes, RowIs, KeepsEntry, KeepsOutcome, KeepsTrouble
  <2>5. MarkerHeld(r)' /\ SavesCounted(r)' BY <1>1, <2>3, <2>4 DEF Told, MarkerHeld, SavesCounted
  <2>6. RejectedOnce(r)' /\ MarkerOwned(r)' BY <1>1, <2>3, <2>4 DEF Told, RejectedOnce, MarkerOwned
  <2> QED BY <2>2, <2>5, <2>6 DEF Told
<1>4. ASSUME NEW d \in Deciders, NEW r \in Reviews, Begins(d, r) PROVE \A t \in Reviews : Told(t)'
  <2>1. \A t \in Reviews : KeepsItems(t)
    BY <1>4 DEF Begins, KeepsAll, KeepsEntry, KeepsOutcome, KeepsTrouble, KeepsItems
  <2>2. \A t \in Reviews : Untouched(t)
    BY <1>1, <1>4, <2>1, BeginsRole DEF Becomes, Untouched, Owners
  <2> QED BY <1>1, <2>2, UntouchedTold
<1>5. ASSUME NEW e \in Edits, Edited(e) PROVE \A t \in Reviews : Untouched(t)
  BY <1>5 DEF Edited, KeepsOutcome, KeepsTrouble, KeepsItems, Untouched, Role
<1>6. CASE Stutters
  BY <1>1, <1>6, UntouchedTold
     DEF Stutters, KeepsAll, KeepsEntry, KeepsOutcome, KeepsTrouble, KeepsItems, Untouched, Role
<1> QED BY <1>1, <1>2, <1>3, <1>4, <1>5, <1>6, UntouchedTold DEF Happens

-------------------------------------------------------------------------------
(***************************************************************************)
(* What merges contain and where they go.                                  *)
(***************************************************************************)
Merging == {"entry", "insert", "save"}

\* A step that writes nothing and lets no caller read.
Harmless == KeepsEntry /\ \A q \in Callers : call'[q] = call[q] \/ call'[q].step \notin Merging

LEMMA HarmlessMerges ==
  ASSUME MergesComplete, MergesNext, LostOnlyToOverlap, Harmless
  PROVE  MergesComplete' /\ MergesNext' /\ LostOnlyToOverlap'
<1>1. \A q \in Callers : Merges(q)' => Merges(q) /\ call'[q] = call[q] BY DEF Harmless, Merges, Merging
<1>2. \A q \in Callers : Merged(q)' = call'[q].base \union call'[q].of BY DEF Merged
<1>3. \A c : Kept(c)' <=> Kept(c) BY DEF Kept, Harmless, KeepsEntry
<1>4. overlapped' = overlapped /\ rows' = rows /\ version' = version /\ applies' = applies
  BY DEF Harmless, KeepsEntry
<1>5. MergesComplete' BY <1>1, <1>2, <1>3, <1>4 DEF MergesComplete, Merged
<1>6. MergesNext'
  <2>1. \A q \in Callers : At(q, "insert")' \/ At(q, "save")' => call'[q] = call[q]
    BY DEF Harmless, At, Merging
  <2>2. \A q \in Callers : \A s : call'[q] = call[q] => (At(q, s)' <=> At(q, s)) /\ Merged(q)' = Merged(q)
    BY DEF At, Merged
  <2> QED BY <1>4, <2>1, <2>2 DEF MergesNext
<1>7. LostOnlyToOverlap' BY <1>4 DEF LostOnlyToOverlap
<1> QED BY <1>5, <1>6, <1>7

LEMMA HarmlessEffects ==
  ASSUME Owners, Owners', NEW p \in Callers, NEW r \in Reviews, call[p].of = {r}, Effect(p, r)
  PROVE  Harmless \/ Reads(p, r) \/ Rereads(p, r) \/ Inserts(p, r) \/ Saves(p, r)
<1>1. Ended(p) /\ KeepsEntry => Harmless BY DEF Ended, Others, Harmless, Idle, Merging, Owners
<1>2. \A s : Went(p, s) /\ s \notin Merging /\ KeepsEntry => Harmless
  BY DEF Went, Others, Harmless
<1>3. CASE \E s : Turns(p, r, s)
  BY <1>2, <1>3 DEF Turns, Directly, KeepsAll, Merging
<1>4. CASE Signals(p, r) BY <1>1, <1>2, <1>4 DEF Signals, Directly, Merging
<1>5. CASE Decides(p, r) \/ Marks(p, r) \/ Breaks(p, r)
  BY <1>2, <1>5 DEF Decides, Marks, Breaks, Merging
<1>6. CASE Leaves(p, r) \/ RecordsApply(p, r) \/ RecordsRejection(p, r) \/ Clears(p, r)
  BY <1>1, <1>6 DEF Leaves, RecordsApply, RecordsRejection, Clears
<1>7. CASE p = r /\ (Arms(r) \/ Disarms(r)) BY <1>2, <1>7 DEF Arms, Disarms, Merging
<1>8. CASE p = r /\ Settled(r) BY <1>8 DEF Settled, Others, KeepsAll, Harmless, Merging
<1> QED BY <1>3, <1>4, <1>5, <1>6, <1>7, <1>8 DEF Effect

\* What was saved is in the current version, but for overlaps.
LEMMA KeptInCurrent ==
  ASSUME LostOnlyToOverlap, NEW c \in Changes \ overlapped, Kept(c)
  PROVE  c \in rows[version]
BY DEF LostOnlyToOverlap, Kept

LEMMA ReadsMerges ==
  ASSUME Shapes, Owners, version \in 1..Len(rows), MergesComplete, MergesNext, LostOnlyToOverlap,
         NEW p \in Callers, NEW r \in Reviews, call[p].of = {r}, Reads(p, r)
  PROVE  MergesComplete' /\ MergesNext' /\ LostOnlyToOverlap'
<1>1. /\ call[p].step = "fields" /\ call'[p].step = "entry" /\ call'[p].of = {r}
      /\ call'[p].base = rows[version] /\ rows' = rows /\ version' = version /\ applies' = applies
      /\ \A q \in Callers \ {p} : call'[q] = call[q]
      /\ overlapped \subseteq overlapped'
  BY DEF Reads, Others
<1>2. \A c : Kept(c)' <=> Kept(c) BY <1>1 DEF Kept
<1>3. ASSUME NEW q \in Callers, q # p, Merges(q)
      PROVE  call[q].of \subseteq overlapped' /\ {r} \subseteq overlapped'
  <2>1. q \in InTry /\ p \in InTry BY <1>1, <1>3 DEF InTry, Merges, Trying
  <2>2. overlapped' = overlapped \union UNION {call[u].of : u \in InTry} BY <1>3, <2>1 DEF Reads
  <2> QED BY <2>1, <2>2
<1>4. MergesComplete'
  <2>1. ASSUME NEW q \in Callers, NEW c \in Changes \ overlapped', Merges(q)', Kept(c)'
        PROVE  c \in Merged(q)'
    <3>1. CASE q = p
      <4>1. c \in rows[version] BY <1>1, <1>2, <2>1, KeptInCurrent
      <4> QED BY <1>1, <3>1, <4>1 DEF Merged
    <3>2. CASE q # p BY <1>1, <1>2, <2>1, <3>2 DEF Merges, Merged, MergesComplete
    <3> QED BY <3>1, <3>2
  <2>2. ASSUME NEW q \in Callers, NEW c \in Edits, Merges(q)', c \in call'[q].base
        PROVE  Kept(c)'
    <3>1. CASE q = p
      <4>1. c \in rows[version] BY <1>1, <2>2, <3>1
      <4>2. version \in 1..version OBVIOUS
      <4> QED BY <1>2, <2>2, <4>1, <4>2 DEF Kept
    <3>2. CASE q # p BY <1>1, <1>2, <2>2, <3>2 DEF Merges, MergesComplete
    <3> QED BY <3>1, <3>2
  <2>3. ASSUME NEW q \in Callers, NEW u \in Callers, Merges(q)', Merges(u)', q # u
        PROVE  call'[q].of \subseteq overlapped'
    <3>1. CASE q = p
      <4>1. Merges(u) BY <1>1, <2>3, <3>1 DEF Merges
      <4> QED BY <1>1, <1>3, <2>3, <3>1, <4>1
    <3>2. CASE q # p
      <4>1. Merges(q) /\ call'[q] = call[q] BY <1>1, <2>3, <3>2 DEF Merges
      <4>2. CASE u = p BY <1>3, <3>2, <4>1
      <4>3. CASE u # p BY <1>1, <2>3, <4>1, <4>3 DEF Merges, MergesComplete
      <4> QED BY <4>2, <4>3
    <3> QED BY <3>1, <3>2
  <2> QED BY <2>1, <2>2, <2>3 DEF MergesComplete
<1>5. MergesNext' BY <1>1 DEF MergesNext, At, Merged
<1>6. LostOnlyToOverlap' BY <1>1 DEF LostOnlyToOverlap
<1> QED BY <1>4, <1>5, <1>6

LEMMA RereadsMerges ==
  ASSUME Shapes, version \in 1..Len(rows), MergesComplete, MergesNext, LostOnlyToOverlap,
         NEW p \in Callers, NEW r \in Reviews, call[p].of = {r}, Rereads(p, r)
  PROVE  MergesComplete' /\ MergesNext' /\ LostOnlyToOverlap'
<1>1. /\ call[p].step = "entry" /\ call'[p].step = "insert" /\ call'[p].of = call[p].of
      /\ call'[p].base = call[p].base /\ call'[p].seen = version
      /\ rows' = rows /\ version' = version /\ applies' = applies /\ overlapped' = overlapped
      /\ \A q \in Callers \ {p} : call'[q] = call[q]
  BY DEF Rereads, Others, KeepsAll, KeepsEntry
<1>2. \A c : Kept(c)' <=> Kept(c) BY <1>1 DEF Kept
<1>3. \A q \in Callers : /\ Merges(q)' <=> Merges(q)
                         /\ Merged(q)' = Merged(q)
                         /\ call'[q].base = call[q].base /\ call'[q].of = call[q].of
  BY <1>1 DEF Merges, Merged
<1>4. MergesComplete' BY <1>1, <1>2, <1>3 DEF MergesComplete
<1>5. MergesNext'
  <2>1. version <= version BY DEF Shapes
  <2>2. \A q \in Callers \ {p} : \A s : At(q, s)' <=> At(q, s) BY <1>1 DEF At
  <2>3. At(p, "insert")' /\ call'[p].seen <= version' /\ ~At(p, "save")' BY <1>1, <2>1 DEF At
  <2>4. \A q \in Callers : At(q, "insert")' => call'[q].seen <= version'
    BY <1>1, <2>2, <2>3 DEF MergesNext
  <2>5. ASSUME NEW q \in Callers, At(q, "save")'
        PROVE  /\ call'[q].seen = version' /\ Len(rows') = version' + 1
               /\ rows'[version' + 1] = Merged(q)'
               /\ \A u \in Callers : At(u, "save")' => u = q
    <3>1. q # p /\ At(q, "save") /\ call'[q] = call[q] BY <1>1, <2>2, <2>3, <2>5
    <3> QED BY <1>1, <1>3, <2>2, <2>3, <3>1 DEF MergesNext
  <2> QED BY <2>4, <2>5 DEF MergesNext
<1>6. LostOnlyToOverlap' BY <1>1 DEF LostOnlyToOverlap
<1> QED BY <1>4, <1>5, <1>6

LEMMA LostKept == LostOnlyToOverlap <=> \A c \in Changes \ overlapped : Kept(c) => c \in rows[version]
BY DEF LostOnlyToOverlap, Kept

LEMMA InsertsMerges ==
  ASSUME Shapes, version \in 1..Len(rows), MergesComplete, MergesNext, LostOnlyToOverlap,
         NEW p \in Callers, NEW r \in Reviews, call[p].of = {r}, Inserts(p, r)
  PROVE  MergesComplete' /\ MergesNext' /\ LostOnlyToOverlap'
<1>1. /\ call[p].step = "insert" /\ rows' = Append(rows, Merged(p))
      /\ version' = version /\ applies' = applies /\ overlapped' = overlapped
      /\ \A q \in Callers \ {p} : call'[q] = call[q]
      /\ call'[p].of = call[p].of /\ call'[p].base = call[p].base /\ call'[p].seen = call[p].seen
      /\ call'[p].step \in {"save", "clear"}
  BY DEF Inserts, GoesOnOrFails, Went, Others
<1>2. Len(rows) = version /\ call[p].seen = version
  <2>1. call[p].seen <= version BY <1>1 DEF MergesNext, At
  <2>2. call[p].seen = Len(rows) /\ Len(rows) \in Nat BY DEF Inserts, Shapes
  <2> QED BY <2>1, <2>2
<1>3. /\ Len(rows') = version + 1 /\ rows'[version + 1] = Merged(p)
      /\ \A i \in 1..version : rows'[i] = rows[i]
  <2>1. Merged(p) \in SUBSET Changes BY DEF Merged, Shapes, Calls, Call, Changes
  <2> QED BY <1>1, <1>2, <2>1 DEF Shapes
<1>4. \A c : Kept(c)' <=> Kept(c) BY <1>1, <1>3 DEF Kept
<1>5. \A q \in Callers : /\ Merges(q)' => Merges(q)
                         /\ Merged(q)' = Merged(q)
                         /\ call'[q].base = call[q].base /\ call'[q].of = call[q].of
  BY <1>1 DEF Merges, Merged
<1>6. MergesComplete' BY <1>1, <1>4, <1>5 DEF MergesComplete
<1>7. MergesNext'
  <2>1. \A q \in Callers : ~At(q, "save") BY <1>2 DEF MergesNext, Shapes
  <2>2. \A q \in Callers : At(q, "save")' => q = p BY <1>1, <2>1 DEF At
  <2>3. ~At(p, "insert")' BY <1>1 DEF At
  <2>4. \A q \in Callers : At(q, "insert")' => call'[q].seen <= version'
    BY <1>1, <2>3 DEF MergesNext, At
  <2> QED BY <1>1, <1>2, <1>3, <1>5, <2>2, <2>4 DEF MergesNext
<1>8. LostOnlyToOverlap'
  <2>1. \A c \in Changes \ overlapped' : Kept(c)' => c \in rows'[version']
    BY <1>1, <1>3, <1>4, LostKept
  <2>2. (LostOnlyToOverlap <=> \A c \in Changes \ overlapped : Kept(c) => c \in rows[version])'
    BY LostKept, PTL
  <2> QED BY <2>1, <2>2
<1> QED BY <1>6, <1>7, <1>8

LEMMA SavesMerges ==
  ASSUME Shapes, version \in 1..Len(rows), MergesComplete, MergesNext, LostOnlyToOverlap,
         NEW p \in Callers, NEW r \in Reviews, call[p].of = {r}, Saves(p, r)
  PROVE  MergesComplete' /\ MergesNext' /\ LostOnlyToOverlap'
<1>1. /\ call[p].step = "save" /\ rows' = rows /\ version' = call[p].seen + 1
      /\ overlapped' = overlapped /\ call'[p].step \in {"record", "clear"}
      /\ \A q \in Callers \ {p} : call'[q] = call[q]
      /\ \A t \in Reviews \ {r} : applies'[t] = applies[t]
      /\ applies[r] \in Nat /\ applies'[r] = applies[r] + 1
  BY DEF Saves, Went, Others, Shapes
<1>2. /\ version' = version + 1 /\ Len(rows) = version + 1 /\ rows[version + 1] = Merged(p)
      /\ \A q \in Callers : At(q, "save") => q = p
  BY <1>1 DEF MergesNext, At
<1>3. \A q \in Callers : /\ Merges(q)' => Merges(q) /\ q # p
                         /\ q # p => Merged(q)' = Merged(q) /\ call'[q] = call[q]
  BY <1>1 DEF Merges, Merged
<1>4. Merges(p) BY <1>1 DEF Merges
<1>5. ASSUME NEW c \in Changes, Kept(c)' PROVE Kept(c) \/ c = r
  <2>1. CASE c \in Edits
    <3>1. PICK i \in 1..version' : c \in rows[i] BY <1>1, <1>5, <2>1 DEF Kept
    <3>2. CASE i \in 1..version BY <2>1, <3>1, <3>2 DEF Kept
    <3>3. CASE i = version + 1
      <4>1. c \in call[p].base BY <1>2, <2>1, <3>1, <3>3 DEF Merged
      <4> QED BY <1>4, <2>1, <4>1 DEF MergesComplete
    <3> QED BY <1>2, <3>2, <3>3 DEF Shapes
  <2>2. CASE c \notin Edits
    <3>1. c \in Reviews BY <2>2 DEF Changes
    <3> QED BY <1>1, <1>5, <2>2, <3>1 DEF Kept
  <2> QED BY <2>1, <2>2
<1>6. ASSUME NEW c \in Changes, Kept(c) PROVE Kept(c)'
  <2>1. CASE c \in Edits
    <3>1. PICK i \in 1..version : c \in rows[i] BY <1>6, <2>1 DEF Kept
    <3>2. i \in 1..version' BY <1>2 DEF Shapes
    <3> QED BY <1>1, <2>1, <3>1, <3>2 DEF Kept
  <2>2. CASE c \notin Edits
    <3>1. c \in Reviews /\ applies[c] \in Nat BY <2>2 DEF Changes, Shapes
    <3> QED BY <1>1, <1>6, <2>2, <3>1 DEF Kept
  <2> QED BY <2>1, <2>2
<1>7. MergesComplete'
  <2>1. ASSUME NEW q \in Callers, NEW c \in Changes \ overlapped', Merges(q)', Kept(c)'
        PROVE  c \in Merged(q)'
    <3>1. Merges(q) /\ q # p /\ Merged(q)' = Merged(q) BY <1>3, <2>1
    <3>2. r \in overlapped BY <1>4, <3>1 DEF MergesComplete
    <3>3. c \notin overlapped BY <1>1
    <3>4. Kept(c) BY <1>5, <2>1, <3>2, <3>3
    <3> QED BY <3>1, <3>3, <3>4 DEF MergesComplete
  <2>2. ASSUME NEW q \in Callers, NEW c \in Edits, Merges(q)', c \in call'[q].base PROVE Kept(c)'
    <3>1. Merges(q) /\ q # p /\ call'[q] = call[q] BY <1>3, <2>2
    <3>2. Kept(c) BY <2>2, <3>1 DEF MergesComplete
    <3> QED BY <1>6, <3>2 DEF Changes
  <2>3. ASSUME NEW q \in Callers, NEW u \in Callers, Merges(q)', Merges(u)', q # u
        PROVE  call'[q].of \subseteq overlapped'
    <3>1. Merges(q) /\ Merges(u) /\ call'[q] = call[q] BY <1>3, <2>3
    <3> QED BY <1>1, <2>3, <3>1 DEF MergesComplete
  <2> QED BY <2>1, <2>2, <2>3 DEF MergesComplete
<1>8. MergesNext'
  <2>1. \A q \in Callers : ~At(q, "save")' BY <1>1, <1>2 DEF At
  <2>2. ASSUME NEW q \in Callers, At(q, "insert")' PROVE call'[q].seen <= version'
    <3>1. At(q, "insert") /\ call'[q] = call[q] BY <1>1, <2>2 DEF At
    <3>2. call[q].seen <= version /\ call[q].seen \in Nat BY <3>1 DEF MergesNext, Shapes, Calls, Call
    <3> QED BY <1>2, <3>1, <3>2 DEF Shapes
  <2> QED BY <2>1, <2>2 DEF MergesNext
<1>9. LostOnlyToOverlap'
  <2>1. ASSUME NEW c \in Changes \ overlapped', Kept(c)' PROVE c \in rows'[version']
    <3>1. CASE c = r BY <1>1, <1>2, <3>1 DEF Merged
    <3>2. CASE Kept(c)
      <4>1. c \in Merged(p) BY <1>1, <1>4, <2>1, <3>2 DEF MergesComplete
      <4> QED BY <1>1, <1>2, <4>1
    <3> QED BY <1>5, <2>1, <3>1, <3>2
  <2>2. (LostOnlyToOverlap <=> \A c \in Changes \ overlapped : Kept(c) => c \in rows[version])'
    BY LostKept, PTL
  <2> QED BY <2>1, <2>2
<1> QED BY <1>7, <1>8, <1>9

LEMMA EditedMerges ==
  ASSUME Shapes, version \in 1..Len(rows), MergesComplete, MergesNext, LostOnlyToOverlap,
         NEW e \in Edits, Edited(e)
  PROVE  MergesComplete' /\ MergesNext' /\ LostOnlyToOverlap'
<1>1. /\ version = Len(rows) /\ version' = version + 1 /\ call' = call /\ applies' = applies
      /\ rows' = Append(rows, rows[version] \union {e}) /\ overlapped \subseteq overlapped'
      /\ e \in overlapped' \/ InTry = {}
  BY DEF Edited
<1>2. /\ Len(rows') = version + 1 /\ rows'[version + 1] = rows[version] \union {e}
      /\ \A i \in 1..version : rows'[i] = rows[i]
  BY <1>1 DEF Shapes, Changes
<1>3. ASSUME NEW c \in Changes, Kept(c)' PROVE Kept(c) \/ c = e
  <2>1. CASE c \in Edits
    <3>1. PICK i \in 1..version' : c \in rows'[i] BY <1>3, <2>1 DEF Kept
    <3>2. CASE i \in 1..version BY <1>2, <2>1, <3>1, <3>2 DEF Kept
    <3>3. CASE i = version + 1
      <4>1. c = e \/ c \in rows[version] BY <1>2, <3>1, <3>3
      <4>2. version \in 1..version OBVIOUS
      <4> QED BY <2>1, <4>1, <4>2 DEF Kept
    <3> QED BY <1>1, <3>2, <3>3 DEF Shapes
  <2>2. CASE c \notin Edits BY <1>1, <1>3, <2>2 DEF Kept
  <2> QED BY <2>1, <2>2
<1>4. ASSUME NEW c \in Changes, Kept(c) PROVE Kept(c)'
  <2>1. CASE c \in Edits
    <3>1. PICK i \in 1..version : c \in rows[i] BY <1>4, <2>1 DEF Kept
    <3>2. i \in 1..version' BY <1>1 DEF Shapes
    <3> QED BY <1>2, <2>1, <3>1, <3>2 DEF Kept
  <2>2. CASE c \notin Edits BY <1>1, <1>4, <2>2 DEF Kept
  <2> QED BY <2>1, <2>2
<1>5. \A q \in Callers : (Merges(q)' <=> Merges(q)) /\ Merged(q)' = Merged(q)
  BY <1>1 DEF Merges, Merged
<1>6. \A q \in Callers : Merges(q) => e \in overlapped' BY <1>1 DEF Merges, InTry, Trying
<1>7. MergesComplete'
  <2>1. ASSUME NEW q \in Callers, NEW c \in Changes \ overlapped', Merges(q)', Kept(c)'
        PROVE  c \in Merged(q)'
    <3>1. Kept(c) /\ c \notin overlapped BY <1>1, <1>3, <1>5, <1>6, <2>1
    <3> QED BY <1>5, <2>1, <3>1 DEF MergesComplete
  <2>2. ASSUME NEW q \in Callers, NEW c \in Edits, Merges(q)', c \in call'[q].base PROVE Kept(c)'
    <3>1. Kept(c) BY <1>1, <1>5, <2>2 DEF MergesComplete
    <3> QED BY <1>4, <3>1 DEF Changes
  <2>3. ASSUME NEW q \in Callers, NEW u \in Callers, Merges(q)', Merges(u)', q # u
        PROVE  call'[q].of \subseteq overlapped'
    BY <1>1, <1>5, <2>3 DEF MergesComplete
  <2> QED BY <2>1, <2>2, <2>3 DEF MergesComplete
<1>8. MergesNext'
  <2>1. \A q \in Callers : ~At(q, "save") BY <1>1 DEF MergesNext, Shapes
  <2>2. \A q \in Callers : ~At(q, "save")' BY <1>1, <2>1 DEF At
  <2>3. ASSUME NEW q \in Callers, At(q, "insert")' PROVE call'[q].seen <= version'
    <3>1. At(q, "insert") BY <1>1, <2>3 DEF At
    <3>2. call[q].seen <= version /\ call[q].seen \in Nat BY <3>1 DEF MergesNext, Shapes, Calls, Call
    <3> QED BY <1>1, <3>2 DEF Shapes
  <2> QED BY <2>2, <2>3 DEF MergesNext
<1>9. LostOnlyToOverlap'
  <2>1. ASSUME NEW c \in Changes \ overlapped', Kept(c)' PROVE c \in rows'[version']
    <3>1. CASE c = e BY <1>1, <1>2, <3>1
    <3>2. CASE Kept(c)
      <4>1. c \in rows[version] BY <1>1, <2>1, <3>2, KeptInCurrent
      <4> QED BY <1>1, <1>2, <4>1
    <3> QED BY <1>3, <2>1, <3>1, <3>2
  <2>2. (LostOnlyToOverlap <=> \A c \in Changes \ overlapped : Kept(c) => c \in rows[version])'
    BY LostKept, PTL
  <2> QED BY <2>1, <2>2
<1> QED BY <1>7, <1>8, <1>9

LEMMA MergeStep == ASSUME Inv, Shapes', Happens PROVE MergesComplete' /\ MergesNext' /\ LostOnlyToOverlap'
<1>1. /\ Owners /\ Owners' /\ Shapes /\ version \in 1..Len(rows)
      /\ MergesComplete /\ MergesNext /\ LostOnlyToOverlap
  BY OwnersAround, KnownShapes DEF Inv, Known
<1>2. ASSUME Harmless PROVE MergesComplete' /\ MergesNext' /\ LostOnlyToOverlap'
  BY <1>1, <1>2, HarmlessMerges
<1>3. ASSUME NEW p \in Callers, NEW r \in Reviews, call[p].of = {r}, Effect(p, r)
      PROVE  MergesComplete' /\ MergesNext' /\ LostOnlyToOverlap'
  BY <1>1, <1>2, <1>3, HarmlessEffects, ReadsMerges, RereadsMerges, InsertsMerges, SavesMerges
<1>4. ASSUME NEW r \in Reviews, Proposes(r) PROVE Harmless BY <1>4 DEF Proposes, Harmless
<1>5. ASSUME NEW d \in Deciders, NEW r \in Reviews, Begins(d, r) PROVE Harmless
  BY <1>5 DEF Begins, Others, KeepsAll, Harmless, Merging
<1>6. CASE Stutters BY <1>2, <1>6 DEF Stutters, KeepsAll, Harmless
<1> QED BY <1>1, <1>2, <1>3, <1>4, <1>5, <1>6, EditedMerges DEF Happens

-------------------------------------------------------------------------------
(***************************************************************************)
(* The rest of the invariant.                                              *)
(***************************************************************************)
LEMMA TypeStep == ASSUME Inv, Shapes', Happens PROVE TypeOK'
<1>1. /\ Owners /\ Owners' /\ Shapes /\ version \in 1..Len(rows) /\ orphaned \subseteq doubted
      /\ MergesNext /\ Cleans
  BY OwnersAround, KnownShapes DEF Inv, Known, TypeOK
<1>2. version' \in 1..Len(rows')
  <2>1. CASE version' = version /\ rows' = rows BY <1>1, <2>1
  <2>2. ASSUME NEW p \in Callers, NEW r \in Reviews, call[p].of = {r}, Effect(p, r)
        PROVE  version' \in 1..Len(rows')
    <3>1. CASE Inserts(p, r)
      <4>1. rows' = Append(rows, Merged(p)) /\ Merged(p) \in SUBSET Changes /\ version' = version
        BY <1>1, <3>1 DEF Inserts, Merged, Shapes, Calls, Call, Changes
      <4> QED BY <1>1, <4>1 DEF Shapes
    <3>2. CASE Saves(p, r)
      BY <1>1, <3>2 DEF Saves, MergesNext, At
    <3>3. CASE Harmless \/ Reads(p, r) \/ Rereads(p, r)
      BY <2>1, <3>3 DEF Harmless, Reads, Rereads, KeepsAll, KeepsEntry
    <3> QED BY <1>1, <2>2, <3>1, <3>2, <3>3, HarmlessEffects
  <2>3. ASSUME NEW e \in Edits, Edited(e) PROVE version' \in 1..Len(rows')
    <3>1. rows[version] \union {e} \in SUBSET Changes BY <1>1 DEF Shapes, Changes
    <3> QED BY <1>1, <2>3, <3>1 DEF Edited, Shapes
  <2>4. ASSUME NEW r \in Reviews, Proposes(r) PROVE version' \in 1..Len(rows')
    BY <2>1, <2>4 DEF Proposes, KeepsEntry
  <2>5. ASSUME NEW d \in Deciders, NEW r \in Reviews, Begins(d, r) PROVE version' \in 1..Len(rows')
    BY <2>1, <2>5 DEF Begins, KeepsAll, KeepsEntry
  <2>6. CASE Stutters BY <2>1, <2>6 DEF Stutters, KeepsAll, KeepsEntry
  <2> QED BY <2>2, <2>3, <2>4, <2>5, <2>6 DEF Happens
<1>3. orphaned' \subseteq doubted'
  <2>1. CASE KeepsTrouble BY <1>1, <2>1 DEF KeepsTrouble
  <2>2. ASSUME NEW p \in Callers, NEW r \in Reviews, call[p].of = {r}, Effect(p, r)
        PROVE  orphaned' \subseteq doubted'
    <3>1. CASE Troubled(r) BY <1>1, <3>1 DEF Troubled
    <3>2. CASE orphaned' = orphaned /\ doubted \subseteq doubted' BY <1>1, <3>2
    <3>3. CASE Clears(p, r)
      <4>1. r \in doubted BY <1>1, <2>2, <3>3 DEF Clears, Cleans, At
      <4> QED BY <1>1, <3>3, <4>1 DEF Clears
    <3> QED BY <2>1, <2>2, <3>1, <3>2, <3>3
        DEF Effect, Decides, Turns, Signals, Leaves, Marks, Reads, Rereads, Inserts, GoesOnOrFails, Saves,
            Breaks, RecordsApply, RecordsRejection, Arms, Settled, Disarms, KeepsAll
  <2> QED BY <2>1, <2>2 DEF Happens, Proposes, Begins, Edited, Stutters, KeepsAll
<1> QED BY <1>2, <1>3 DEF TypeOK, Shapes, Calls

LEMMA ProposedStep == ASSUME Inv, Shapes', Happens PROVE Proposed'
<1> USE DEF Proposed, VerdictsTrue, Role, Owners, Resting, Trying, Decisions, Idle
<1>0. Owners /\ Owners' /\ Proposed /\ VerdictsTrue BY OwnersAround DEF Inv
<1>1. ASSUME NEW r \in Reviews, Proposes(r) PROVE Proposed'
  BY <1>0, <1>1 DEF Proposes, RowIs, KeepsEntry, KeepsOutcome, KeepsTrouble
<1>2. ASSUME NEW r \in Reviews, NEW d \in Deciders, Begins(d, r) PROVE Proposed'
  BY <1>0, <1>2 DEF Begins, Others, KeepsAll, KeepsEntry, KeepsOutcome, KeepsTrouble
<1>3. ASSUME NEW p \in Callers, NEW r \in Reviews, call[p].of = {r}, Decides(p, r) PROVE Proposed'
  BY <1>0, <1>3 DEF Decides, RowIs, Went, Others, KeepsEntry, KeepsOutcome, KeepsTrouble
<1>4. ASSUME NEW p \in Callers, NEW r \in Reviews, call[p].of = {r}, NEW s, Turns(p, r, s) PROVE Proposed'
  BY <1>0, <1>4 DEF Turns, Directly, Redrivable, Effective, Went, Others, KeepsAll, KeepsEntry, KeepsOutcome, KeepsTrouble
<1>5. ASSUME NEW p \in Callers, NEW r \in Reviews, call[p].of = {r}, Signals(p, r) PROVE Proposed'
  BY <1>0, <1>5 DEF Signals, Directly, Ended, Went, Others, KeepsEntry, KeepsTrouble
<1>6. ASSUME NEW p \in Callers, NEW r \in Reviews, call[p].of = {r}, Leaves(p, r) PROVE Proposed'
  BY <1>0, <1>6 DEF Leaves, Ended, Others, KeepsEntry, KeepsOutcome, KeepsTrouble, Troubled
<1>7. ASSUME NEW p \in Callers, NEW r \in Reviews, call[p].of = {r}, Marks(p, r) PROVE Proposed'
  BY <1>0, <1>7 DEF Marks, RowIs, Went, Others, KeepsEntry, KeepsOutcome, KeepsTrouble
<1>8. ASSUME NEW p \in Callers, NEW r \in Reviews, call[p].of = {r}, Reads(p, r) PROVE Proposed'
  BY <1>0, <1>8 DEF Reads, Others, KeepsOutcome, KeepsTrouble
<1>9. ASSUME NEW p \in Callers, NEW r \in Reviews, call[p].of = {r}, Rereads(p, r) PROVE Proposed'
  BY <1>0, <1>9 DEF Rereads, Others, KeepsAll, KeepsEntry, KeepsOutcome, KeepsTrouble
<1>10. ASSUME NEW p \in Callers, NEW r \in Reviews, call[p].of = {r}, Inserts(p, r) PROVE Proposed'
  BY <1>0, <1>10 DEF Inserts, GoesOnOrFails, Went, Others, KeepsOutcome
<1>11. ASSUME NEW p \in Callers, NEW r \in Reviews, call[p].of = {r}, Saves(p, r) PROVE Proposed'
  BY <1>0, <1>11 DEF Saves, Went, Others, KeepsOutcome
<1>12. ASSUME NEW p \in Callers, NEW r \in Reviews, call[p].of = {r}, Breaks(p, r) PROVE Proposed'
  BY <1>0, <1>12 DEF Breaks, Went, Others, KeepsEntry, KeepsOutcome
<1>13. ASSUME NEW p \in Callers, NEW r \in Reviews, call[p].of = {r}, RecordsApply(p, r) PROVE Proposed'
  BY <1>0, <1>13 DEF RecordsApply, Ended, Others, KeepsEntry, KeepsTrouble
<1>14. ASSUME NEW p \in Callers, NEW r \in Reviews, call[p].of = {r}, RecordsRejection(p, r) PROVE Proposed'
  BY <1>0, <1>14 DEF RecordsRejection, Ended, Others, KeepsEntry, KeepsTrouble
<1>15. ASSUME NEW p \in Callers, NEW r \in Reviews, call[p].of = {r}, Clears(p, r) PROVE Proposed'
  BY <1>0, <1>15 DEF Clears, Ended, Others, RowIs, KeepsEntry, KeepsOutcome
<1>16. ASSUME NEW r \in Reviews, Arms(r) PROVE Proposed'
  BY <1>0, <1>16 DEF Arms, RowIs, Went, Others, KeepsEntry, KeepsOutcome, KeepsTrouble
<1>17. ASSUME NEW r \in Reviews, Settled(r) PROVE Proposed'
  BY <1>0, <1>17 DEF Settled, Others, KeepsAll, KeepsEntry, KeepsOutcome, KeepsTrouble
<1>18. ASSUME NEW r \in Reviews, Disarms(r) PROVE Proposed'
  BY <1>0, <1>18 DEF Disarms, RowIs, Went, Others, KeepsEntry, KeepsOutcome, KeepsTrouble
<1>19. ASSUME NEW e \in Edits, Edited(e) PROVE Proposed'
  BY <1>0, <1>19 DEF Edited, KeepsOutcome, KeepsTrouble
<1>20. CASE Stutters
  BY <1>0, <1>20 DEF Stutters, KeepsAll, KeepsEntry, KeepsOutcome, KeepsTrouble
<1> QED BY <1>1, <1>2, <1>3, <1>4, <1>5, <1>6, <1>7, <1>8, <1>9, <1>10, <1>11, <1>12, <1>13, <1>14, <1>15, <1>16, <1>17, <1>18, <1>19, <1>20 DEF Happens, Effect

LEMMA CleansStep == ASSUME Inv, Shapes', Happens PROVE Cleans'
<1> USE DEF Cleans, Owners, Idle, At, Directly
<1>0. Owners /\ Owners' /\ Cleans BY OwnersAround DEF Inv
<1>1. ASSUME NEW r \in Reviews, Proposes(r) PROVE Cleans'
  BY <1>0, <1>1 DEF Proposes, RowIs, KeepsEntry, KeepsOutcome, KeepsTrouble
<1>2. ASSUME NEW r \in Reviews, NEW d \in Deciders, Begins(d, r) PROVE Cleans'
  BY <1>0, <1>2 DEF Begins, Others, KeepsAll, KeepsEntry, KeepsOutcome, KeepsTrouble
<1>3. ASSUME NEW p \in Callers, NEW r \in Reviews, call[p].of = {r}, Decides(p, r) PROVE Cleans'
  BY <1>0, <1>3 DEF Decides, RowIs, Went, Others, KeepsEntry, KeepsOutcome, KeepsTrouble
<1>4. ASSUME NEW p \in Callers, NEW r \in Reviews, call[p].of = {r}, NEW s, Turns(p, r, s) PROVE Cleans'
  BY <1>0, <1>4 DEF Turns, Directly, Redrivable, Effective, Went, Others, KeepsAll, KeepsEntry, KeepsOutcome, KeepsTrouble
<1>5. ASSUME NEW p \in Callers, NEW r \in Reviews, call[p].of = {r}, Signals(p, r) PROVE Cleans'
  BY <1>0, <1>5 DEF Signals, Directly, Ended, Went, Others, KeepsEntry, KeepsTrouble
<1>6. ASSUME NEW p \in Callers, NEW r \in Reviews, call[p].of = {r}, Leaves(p, r) PROVE Cleans'
  BY <1>0, <1>6 DEF Leaves, Ended, Others, KeepsEntry, KeepsOutcome, KeepsTrouble, Troubled
<1>7. ASSUME NEW p \in Callers, NEW r \in Reviews, call[p].of = {r}, Marks(p, r) PROVE Cleans'
  BY <1>0, <1>7 DEF Marks, RowIs, Went, Others, KeepsEntry, KeepsOutcome, KeepsTrouble
<1>8. ASSUME NEW p \in Callers, NEW r \in Reviews, call[p].of = {r}, Reads(p, r) PROVE Cleans'
  BY <1>0, <1>8 DEF Reads, Others, KeepsOutcome, KeepsTrouble
<1>9. ASSUME NEW p \in Callers, NEW r \in Reviews, call[p].of = {r}, Rereads(p, r) PROVE Cleans'
  BY <1>0, <1>9 DEF Rereads, Others, KeepsAll, KeepsEntry, KeepsOutcome, KeepsTrouble
<1>10. ASSUME NEW p \in Callers, NEW r \in Reviews, call[p].of = {r}, Inserts(p, r) PROVE Cleans'
  BY <1>0, <1>10 DEF Inserts, GoesOnOrFails, Went, Others, KeepsOutcome
<1>11. ASSUME NEW p \in Callers, NEW r \in Reviews, call[p].of = {r}, Saves(p, r) PROVE Cleans'
  BY <1>0, <1>11 DEF Saves, Went, Others, KeepsOutcome
<1>12. ASSUME NEW p \in Callers, NEW r \in Reviews, call[p].of = {r}, Breaks(p, r) PROVE Cleans'
  BY <1>0, <1>12 DEF Breaks, Went, Others, KeepsEntry, KeepsOutcome
<1>13. ASSUME NEW p \in Callers, NEW r \in Reviews, call[p].of = {r}, RecordsApply(p, r) PROVE Cleans'
  BY <1>0, <1>13 DEF RecordsApply, Ended, Others, KeepsEntry, KeepsTrouble
<1>14. ASSUME NEW p \in Callers, NEW r \in Reviews, call[p].of = {r}, RecordsRejection(p, r) PROVE Cleans'
  BY <1>0, <1>14 DEF RecordsRejection, Ended, Others, KeepsEntry, KeepsTrouble
<1>15. ASSUME NEW p \in Callers, NEW r \in Reviews, call[p].of = {r}, Clears(p, r) PROVE Cleans'
  BY <1>0, <1>15 DEF Clears, Ended, Others, RowIs, KeepsEntry, KeepsOutcome
<1>16. ASSUME NEW r \in Reviews, Arms(r) PROVE Cleans'
  BY <1>0, <1>16 DEF Arms, RowIs, Went, Others, KeepsEntry, KeepsOutcome, KeepsTrouble
<1>17. ASSUME NEW r \in Reviews, Settled(r) PROVE Cleans'
  BY <1>0, <1>17 DEF Settled, Others, KeepsAll, KeepsEntry, KeepsOutcome, KeepsTrouble
<1>18. ASSUME NEW r \in Reviews, Disarms(r) PROVE Cleans'
  BY <1>0, <1>18 DEF Disarms, RowIs, Went, Others, KeepsEntry, KeepsOutcome, KeepsTrouble
<1>19. ASSUME NEW e \in Edits, Edited(e) PROVE Cleans'
  BY <1>0, <1>19 DEF Edited, KeepsOutcome, KeepsTrouble
<1>20. CASE Stutters
  BY <1>0, <1>20 DEF Stutters, KeepsAll, KeepsEntry, KeepsOutcome, KeepsTrouble
<1> QED BY <1>1, <1>2, <1>3, <1>4, <1>5, <1>6, <1>7, <1>8, <1>9, <1>10, <1>11, <1>12, <1>13, <1>14, <1>15, <1>16, <1>17, <1>18, <1>19, <1>20 DEF Happens, Effect

LEMMA VerdictsTrueStep == ASSUME Inv, Shapes', Happens PROVE VerdictsTrue'
<1> USE DEF VerdictsTrue, Proposed, Role, Owners, Idle, Resting, Applying, Trying, Decisions
<1>0. Owners /\ Owners' /\ VerdictsTrue /\ Proposed BY OwnersAround DEF Inv
<1>a. /\ \A q \in Callers : call[q].verdict \in Decisions \union {"timeout"}
      /\ \A t \in Reviews : signal[t] \in Decisions \union {"none"}
  BY KnownShapes DEF Inv, Known, Shapes, Calls, Call
<1>1. ASSUME NEW r \in Reviews, Proposes(r) PROVE VerdictsTrue'
  BY <1>0, <1>a, <1>1 DEF Proposes, RowIs, KeepsEntry, KeepsOutcome, KeepsTrouble
<1>2. ASSUME NEW r \in Reviews, NEW d \in Deciders, Begins(d, r) PROVE VerdictsTrue'
  BY <1>0, <1>a, <1>2 DEF Begins, Others, KeepsAll, KeepsEntry, KeepsOutcome, KeepsTrouble
<1>3. ASSUME NEW p \in Callers, NEW r \in Reviews, call[p].of = {r}, Decides(p, r) PROVE VerdictsTrue'
  BY <1>0, <1>a, <1>3 DEF Decides, RowIs, Went, Others, KeepsEntry, KeepsOutcome, KeepsTrouble
<1>4. ASSUME NEW p \in Callers, NEW r \in Reviews, call[p].of = {r}, NEW s, Turns(p, r, s) PROVE VerdictsTrue'
  BY <1>0, <1>a, <1>4 DEF Turns, Directly, Redrivable, Effective, Went, Others, KeepsAll, KeepsEntry, KeepsOutcome, KeepsTrouble
<1>5. ASSUME NEW p \in Callers, NEW r \in Reviews, call[p].of = {r}, Signals(p, r) PROVE VerdictsTrue'
  BY <1>0, <1>a, <1>5 DEF Signals, Directly, Ended, Went, Others, KeepsEntry, KeepsTrouble
<1>6. ASSUME NEW p \in Callers, NEW r \in Reviews, call[p].of = {r}, Leaves(p, r) PROVE VerdictsTrue'
  BY <1>0, <1>a, <1>6 DEF Leaves, Ended, Others, KeepsEntry, KeepsOutcome, KeepsTrouble, Troubled
<1>7. ASSUME NEW p \in Callers, NEW r \in Reviews, call[p].of = {r}, Marks(p, r) PROVE VerdictsTrue'
  BY <1>0, <1>a, <1>7 DEF Marks, RowIs, Went, Others, KeepsEntry, KeepsOutcome, KeepsTrouble
<1>8. ASSUME NEW p \in Callers, NEW r \in Reviews, call[p].of = {r}, Reads(p, r) PROVE VerdictsTrue'
  BY <1>0, <1>a, <1>8 DEF Reads, Others, KeepsOutcome, KeepsTrouble
<1>9. ASSUME NEW p \in Callers, NEW r \in Reviews, call[p].of = {r}, Rereads(p, r) PROVE VerdictsTrue'
  BY <1>0, <1>a, <1>9 DEF Rereads, Others, KeepsAll, KeepsEntry, KeepsOutcome, KeepsTrouble
<1>10. ASSUME NEW p \in Callers, NEW r \in Reviews, call[p].of = {r}, Inserts(p, r) PROVE VerdictsTrue'
  BY <1>0, <1>a, <1>10 DEF Inserts, GoesOnOrFails, Went, Others, KeepsOutcome
<1>11. ASSUME NEW p \in Callers, NEW r \in Reviews, call[p].of = {r}, Saves(p, r) PROVE VerdictsTrue'
  BY <1>0, <1>a, <1>11 DEF Saves, Went, Others, KeepsOutcome
<1>12. ASSUME NEW p \in Callers, NEW r \in Reviews, call[p].of = {r}, Breaks(p, r) PROVE VerdictsTrue'
  BY <1>0, <1>a, <1>12 DEF Breaks, Went, Others, KeepsEntry, KeepsOutcome
<1>13. ASSUME NEW p \in Callers, NEW r \in Reviews, call[p].of = {r}, RecordsApply(p, r) PROVE VerdictsTrue'
  BY <1>0, <1>a, <1>13 DEF RecordsApply, Ended, Others, KeepsEntry, KeepsTrouble
<1>14. ASSUME NEW p \in Callers, NEW r \in Reviews, call[p].of = {r}, RecordsRejection(p, r) PROVE VerdictsTrue'
  BY <1>0, <1>a, <1>14 DEF RecordsRejection, Ended, Others, KeepsEntry, KeepsTrouble
<1>15. ASSUME NEW p \in Callers, NEW r \in Reviews, call[p].of = {r}, Clears(p, r) PROVE VerdictsTrue'
  BY <1>0, <1>a, <1>15 DEF Clears, Ended, Others, RowIs, KeepsEntry, KeepsOutcome
<1>16. ASSUME NEW r \in Reviews, Arms(r) PROVE VerdictsTrue'
  BY <1>0, <1>a, <1>16 DEF Arms, RowIs, Went, Others, KeepsEntry, KeepsOutcome, KeepsTrouble
<1>17. ASSUME NEW r \in Reviews, Settled(r) PROVE VerdictsTrue'
  BY <1>0, <1>a, <1>17 DEF Settled, Others, KeepsAll, KeepsEntry, KeepsOutcome, KeepsTrouble
<1>18. ASSUME NEW r \in Reviews, Disarms(r) PROVE VerdictsTrue'
  BY <1>0, <1>a, <1>18 DEF Disarms, RowIs, Went, Others, KeepsEntry, KeepsOutcome, KeepsTrouble
<1>19. ASSUME NEW e \in Edits, Edited(e) PROVE VerdictsTrue'
  BY <1>0, <1>a, <1>19 DEF Edited, KeepsOutcome, KeepsTrouble
<1>20. CASE Stutters
  BY <1>0, <1>a, <1>20 DEF Stutters, KeepsAll, KeepsEntry, KeepsOutcome, KeepsTrouble
<1> QED BY <1>1, <1>2, <1>3, <1>4, <1>5, <1>6, <1>7, <1>8, <1>9, <1>10, <1>11, <1>12, <1>13, <1>14, <1>15, <1>16, <1>17, <1>18, <1>19, <1>20 DEF Happens, Effect

LEMMA WatchersStep == ASSUME Inv, Shapes', Happens PROVE WatchersOwned'
<1> USE DEF WatchersOwned, Owners, Idle, Resting, Trying
<1>0. Owners /\ Owners' /\ WatchersOwned BY OwnersAround DEF Inv
<1>1. ASSUME NEW r \in Reviews, Proposes(r) PROVE WatchersOwned'
  BY <1>0, <1>1 DEF Proposes, RowIs, KeepsEntry, KeepsOutcome, KeepsTrouble
<1>2. ASSUME NEW r \in Reviews, NEW d \in Deciders, Begins(d, r) PROVE WatchersOwned'
  BY <1>0, <1>2 DEF Begins, Others, KeepsAll, KeepsEntry, KeepsOutcome, KeepsTrouble
<1>3. ASSUME NEW p \in Callers, NEW r \in Reviews, call[p].of = {r}, Decides(p, r) PROVE WatchersOwned'
  BY <1>0, <1>3 DEF Decides, RowIs, Went, Others, KeepsEntry, KeepsOutcome, KeepsTrouble
<1>4. ASSUME NEW p \in Callers, NEW r \in Reviews, call[p].of = {r}, NEW s, Turns(p, r, s) PROVE WatchersOwned'
  BY <1>0, <1>4 DEF Turns, Directly, Redrivable, Effective, Went, Others, KeepsAll, KeepsEntry, KeepsOutcome, KeepsTrouble
<1>5. ASSUME NEW p \in Callers, NEW r \in Reviews, call[p].of = {r}, Signals(p, r) PROVE WatchersOwned'
  BY <1>0, <1>5 DEF Signals, Directly, Ended, Went, Others, KeepsEntry, KeepsTrouble
<1>6. ASSUME NEW p \in Callers, NEW r \in Reviews, call[p].of = {r}, Leaves(p, r) PROVE WatchersOwned'
  BY <1>0, <1>6 DEF Leaves, Ended, Others, KeepsEntry, KeepsOutcome, KeepsTrouble, Troubled
<1>7. ASSUME NEW p \in Callers, NEW r \in Reviews, call[p].of = {r}, Marks(p, r) PROVE WatchersOwned'
  BY <1>0, <1>7 DEF Marks, RowIs, Went, Others, KeepsEntry, KeepsOutcome, KeepsTrouble
<1>8. ASSUME NEW p \in Callers, NEW r \in Reviews, call[p].of = {r}, Reads(p, r) PROVE WatchersOwned'
  BY <1>0, <1>8 DEF Reads, Others, KeepsOutcome, KeepsTrouble
<1>9. ASSUME NEW p \in Callers, NEW r \in Reviews, call[p].of = {r}, Rereads(p, r) PROVE WatchersOwned'
  BY <1>0, <1>9 DEF Rereads, Others, KeepsAll, KeepsEntry, KeepsOutcome, KeepsTrouble
<1>10. ASSUME NEW p \in Callers, NEW r \in Reviews, call[p].of = {r}, Inserts(p, r) PROVE WatchersOwned'
  BY <1>0, <1>10 DEF Inserts, GoesOnOrFails, Went, Others, KeepsOutcome
<1>11. ASSUME NEW p \in Callers, NEW r \in Reviews, call[p].of = {r}, Saves(p, r) PROVE WatchersOwned'
  BY <1>0, <1>11 DEF Saves, Went, Others, KeepsOutcome
<1>12. ASSUME NEW p \in Callers, NEW r \in Reviews, call[p].of = {r}, Breaks(p, r) PROVE WatchersOwned'
  BY <1>0, <1>12 DEF Breaks, Went, Others, KeepsEntry, KeepsOutcome
<1>13. ASSUME NEW p \in Callers, NEW r \in Reviews, call[p].of = {r}, RecordsApply(p, r) PROVE WatchersOwned'
  BY <1>0, <1>13 DEF RecordsApply, Ended, Others, KeepsEntry, KeepsTrouble
<1>14. ASSUME NEW p \in Callers, NEW r \in Reviews, call[p].of = {r}, RecordsRejection(p, r) PROVE WatchersOwned'
  BY <1>0, <1>14 DEF RecordsRejection, Ended, Others, KeepsEntry, KeepsTrouble
<1>15. ASSUME NEW p \in Callers, NEW r \in Reviews, call[p].of = {r}, Clears(p, r) PROVE WatchersOwned'
  BY <1>0, <1>15 DEF Clears, Ended, Others, RowIs, KeepsEntry, KeepsOutcome
<1>16. ASSUME NEW r \in Reviews, Arms(r) PROVE WatchersOwned'
  BY <1>0, <1>16 DEF Arms, RowIs, Went, Others, KeepsEntry, KeepsOutcome, KeepsTrouble
<1>17. ASSUME NEW r \in Reviews, Settled(r) PROVE WatchersOwned'
  BY <1>0, <1>17 DEF Settled, Others, KeepsAll, KeepsEntry, KeepsOutcome, KeepsTrouble
<1>18. ASSUME NEW r \in Reviews, Disarms(r) PROVE WatchersOwned'
  BY <1>0, <1>18 DEF Disarms, RowIs, Went, Others, KeepsEntry, KeepsOutcome, KeepsTrouble
<1>19. ASSUME NEW e \in Edits, Edited(e) PROVE WatchersOwned'
  BY <1>0, <1>19 DEF Edited, KeepsOutcome, KeepsTrouble
<1>20. CASE Stutters
  BY <1>0, <1>20 DEF Stutters, KeepsAll, KeepsEntry, KeepsOutcome, KeepsTrouble
<1> QED BY <1>1, <1>2, <1>3, <1>4, <1>5, <1>6, <1>7, <1>8, <1>9, <1>10, <1>11, <1>12, <1>13, <1>14, <1>15, <1>16, <1>17, <1>18, <1>19, <1>20 DEF Happens, Effect

LEMMA InvInit == Init => Inv
<1> SUFFICES ASSUME Init PROVE Inv OBVIOUS
<1>1. Calls
  <2>1. call \in [Callers -> Call] BY IdleCall DEF Init, Callers
  <2>2. /\ \A d \in Deciders : call[d] = Idle
        /\ \A r \in Reviews : call[r] = Absent(r)
    BY DEF Init, Callers
  <2>3. /\ \A d \in Deciders : call[d].step = "idle" /\ call[d].of = {}
        /\ \A r \in Reviews : call[r].step = "absent" /\ call[r].of = {r}
    <3>1. Idle.step = "idle" /\ Idle.of = {} BY DEF Idle
    <3>2. \A r \in Reviews : Absent(r).step = "absent" /\ Absent(r).of = {r} BY DEF Absent, Idle
    <3> QED BY <2>2, <3>1, <3>2
  <2>4. tries \in [Reviews -> 0..MaxAttempts] BY DEF Init
  <2>5. OneReview BY <2>3 DEF OneReview
  <2>6. Spent BY DEF Init, Spent
  <2> QED BY <2>1, <2>3, <2>4, <2>5, <2>6 DEF Calls, DeciderSteps, WatcherSteps
<1>2. /\ \A p \in Callers : /\ call[p].step \in Resting /\ call[p].step \in {"idle", "absent"}
                            /\ call[p].verdict = "timeout" /\ call[p].saw = NoRow
      /\ \A d \in Deciders : call[d].of = {}
  BY DEF Init, Callers, Idle, Absent, Resting
<1>3. /\ review = [r \in Reviews |-> NoRow] /\ version = 1 /\ rows = <<{}>> /\ overlapped = {}
      /\ applies = [r \in Reviews |-> 0] /\ lost = [r \in Reviews |-> 0] /\ doubted = {} /\ orphaned = {}
      /\ ledger = [r \in Reviews |-> [completed |-> 0, rejected |-> 0]]
      /\ signal = [r \in Reviews |-> "none"] /\ failures = 0
  BY DEF Init
<1>4. NoRow \in Row /\ NoRow.status = "none" /\ NoRow.applied = FALSE /\ NoRow.awaiting = FALSE
  BY DEF NoRow, Row
<1>5. TypeOK
  <2>1. rows \in Seq(SUBSET Changes) /\ version \in 1..Len(rows) BY <1>3
  <2> QED BY <1>1, <1>3, <1>4, <2>1 DEF TypeOK, Calls
<1>6. OneReview /\ Spent BY <1>1 DEF Calls
<1>7. Proposed /\ Cleans BY <1>2 DEF Proposed, Cleans, At
<1>8. \A p \in Callers, r \in Reviews : Role(p, r) = "none" BY <1>2 DEF Role, Trying
<1>9. VerdictsTrue BY <1>2, <1>3, <1>8 DEF VerdictsTrue, Callers, Applying, Trying
<1>10. \A r \in Reviews : MarkerHeld(r) /\ SavesCounted(r) /\ RejectedOnce(r) /\ MarkerOwned(r)
  BY <1>3, <1>4, <1>8 DEF MarkerHeld, SavesCounted, RejectedOnce, MarkerOwned, Someone, AtMostOne
<1>11. WatchersOwned BY <1>3, <1>4 DEF WatchersOwned
<1>12. MergesComplete /\ MergesNext BY <1>2 DEF MergesComplete, MergesNext, Merges, At
<1>13. LostOnlyToOverlap BY <1>3 DEF LostOnlyToOverlap, Changes
<1> QED BY <1>5, <1>6, <1>7, <1>9, <1>10, <1>11, <1>12, <1>13 DEF Inv

LEMMA InvNext == Inv /\ [Next]_vars => Inv'
<1> SUFFICES ASSUME Inv, [Next]_vars PROVE Inv' OBVIOUS
<1>1. Happens /\ Shapes' BY Effects DEF Inv, Known
<1>2. OneReview' /\ Spent' BY <1>1 DEF Shapes, Calls
<1>3. (\A t \in Reviews : Told(t))'
  BY <1>1, ToldStep
<1> QED BY <1>1, <1>2, <1>3, TypeStep, ProposedStep, CleansStep, VerdictsTrueStep, WatchersStep, MergeStep
        DEF Inv, Told

LEMMA InvHolds == Spec => []Inv
BY InvInit, InvNext, PTL DEF Spec

-------------------------------------------------------------------------------
\* Nobody acts for a review no call works on.
LEMMA QuietRoles == ASSUME Inv, NEW r \in Reviews, Quiet(r)
                    PROVE  /\ \A role \in {"applies", "records", "decides"} : ~Someone(r, role)
                           /\ call[r].step \in Resting
<1>1. \A p \in Callers : r \in call[p].of => call[p].step \in {"idle", "absent", "done", "failed"}
  BY DEF Quiet, Resting
<1>2. \A p \in Callers : Role(p, r) = "none" BY <1>1 DEF Role, Trying
<1>3. call[r].step \in Resting BY <1>1 DEF Inv, TypeOK, Callers, Resting
<1> QED BY <1>2, <1>3 DEF Someone

\* A proposal is applied only if approved, and again only for a save that was reported as a
\* failure: the marker of applyReviewOnce.
THEOREM AlwaysAppliedOnce == Spec => []AppliedOnce
<1>1. Inv => AppliedOnce
  <2> SUFFICES ASSUME Inv, NEW r \in Reviews
               PROVE  applies[r] <= IF review[r].status = "approved" THEN 1 + lost[r] ELSE 0
    BY DEF AppliedOnce
  <2>1. SavesCounted(r) /\ applies[r] \in Nat /\ lost[r] \in Nat BY DEF Inv, TypeOK
  <2> QED BY <2>1 DEF SavesCounted
<1> QED BY <1>1, InvHolds, PTL

\* An approved review no call works on has been applied or can be driven again, but for a
\* marker or an armed watcher that a failure left behind.
THEOREM ApprovalNeverStuck == Spec => []ApprovalNotStuck
<1>1. Inv => ApprovalNotStuck
  <2> SUFFICES ASSUME Inv, NEW r \in Reviews, review[r].status = "approved", Quiet(r), r \notin orphaned
               PROVE  applies[r] > 0 \/ Redrivable(review[r])
    BY DEF ApprovalNotStuck
  <2>1. ~Someone(r, "applies") /\ call[r].step \in Resting BY QuietRoles
  <2>2. review[r].applied => applies[r] > 0 BY <2>1 DEF Inv, MarkerOwned
  <2>3. ~review[r].awaiting BY <2>1 DEF Inv, WatchersOwned, Resting
  <2> QED BY <2>2, <2>3 DEF Redrivable
<1> QED BY <1>1, InvHolds, PTL

\* The ledger has no outcome that did not happen, and every outcome of a review no call for
\* which failed.
THEOREM LedgerAlwaysTells == Spec => []LedgerTellsOutcome
<1>1. Inv => LedgerTellsOutcome
  <2> SUFFICES ASSUME Inv, NEW r \in Reviews
               PROVE  /\ ledger[r].completed <= applies[r]
                      /\ ledger[r].rejected <= IF review[r].status = "rejected" THEN 1 ELSE 0
                      /\ Quiet(r) /\ r \notin doubted =>
                           /\ ledger[r].completed = applies[r]
                           /\ review[r].status = "rejected" => ledger[r].rejected = 1
    BY DEF LedgerTellsOutcome
  <2>1. /\ SavesCounted(r) /\ RejectedOnce(r)
        /\ applies[r] \in Nat /\ lost[r] \in Nat /\ ledger[r].completed \in Nat
    BY DEF Inv, TypeOK
  <2>2. ledger[r].completed <= applies[r] BY <2>1 DEF SavesCounted
  <2>3. Quiet(r) => ~Someone(r, "records") /\ ~Someone(r, "decides") BY QuietRoles
  <2> QED BY <2>1, <2>2, <2>3 DEF SavesCounted, RejectedOnce
<1> QED BY <1>1, InvHolds, PTL

\* An applied proposal, or an editor's save, is missing from the entry's current version only
\* if it was saved while a proposal was merged into fields read before.
THEOREM LostOnlyWhenOverlapped == Spec => []LostOnlyToOverlap
<1>1. Inv => LostOnlyToOverlap BY DEF Inv
<1> QED BY <1>1, InvHolds, PTL


-------------------------------------------------------------------------------
(***************************************************************************)
(* Passes: the inductive invariant.  A pass keeps what it saw until it     *)
(* loads an entry again, which it does not do once it holds the entry:     *)
(* moderation comes last.                                                  *)
(***************************************************************************)
Seeing == {"load", "generate", "propose", "apply", "classify", "recordRun"}
Taking == {"retract", "recordRetraction"}
Statuses == {"none", "skipped", "completed", "needs_review", "held"}
Todos == {<<>>} \union {<<w>> : w \in Workflows} \union {<<"enrich", "moderate">>}
PassRecord == [step : Seeing \union Taking \union {"recordFailure", "done"}, of : Entries, pub : Nat,
               chunk : SUBSET Passes, todo : Todos, autoApply : BOOLEAN, saw : Draft, status : Statuses,
               held : BOOLEAN]
LiveRecord == [pub : Nat \ {0}, version : Nat, bad : BOOLEAN]
PublishEvent == [of : Entries, pub : Nat \ {0}]

\* What a pass has at each step.
Stage(x) ==
  /\ x.step \in Seeing => x.todo # <<>> /\ ~x.held
  /\ x.step = "load" => x.status = "none"
  /\ x.step = "classify" => Head(x.todo) = "moderate"
  /\ x.step \in {"generate", "propose", "apply"} => Head(x.todo) # "moderate"
  /\ x.step = "recordRun" /\ Head(x.todo) = "moderate" => (x.status = "held" <=> x.saw.bad)
  /\ x.step \in Taking => x.held /\ x.pub # 0
  /\ x.held => x.todo = <<>> /\ x.saw.bad
PassOK(x) == x = NoPass \/ (x \in PassRecord /\ Stage(x))

PassesTypeOK ==
  /\ config \in Deployments
  /\ draft \in [Entries -> Draft]
  /\ live \in [Entries -> {NotLive} \union LiveRecord]
  /\ events \subseteq PublishEvent
  /\ DOMAIN pass = Passes /\ \A p \in Passes : PassOK(pass[p])
  /\ budget \in [edits : Nat, publishes : Nat, errors : Nat]
  /\ DOMAIN pulled = Passes

\* A version of an entry is bad or not wherever it is: in its draft, delivered, or seen by a
\* pass.
Agree(c, d) == c.version = d.version => c.bad = d.bad
Versions(d, l) == d.version # 0 /\ (l # NotLive => l.version # 0 /\ l.version <= d.version /\ Agree(l, d))
SawVersion(x, d, l) ==
  x # NoPass => /\ x.saw.version <= d[x.of].version /\ Agree(x.saw, d[x.of])
                /\ l[x.of] # NotLive => Agree(x.saw, l[x.of])

\* A publish is told by its number, which is not used again.
Numbers(e, l, n) == l # NotLive => l.pub > n
OfPublish(x, l, n) ==
  x.pub # 0 => x.pub > n /\ \A e \in Entries : l[e] # NotLive /\ l[e].pub = x.pub => x.of = e

\* x stands for the pass p, P for what it has pulled, l for what is live, R for the recorded
\* runs, F for the record of its failure, U for the failures that could not be recorded.
Moderated(R, p) == \E r \in R : r.run = p /\ r.workflow = "moderate" /\ r.status # "failed"
Took(p, x, P, l, R, F, U) ==
  /\ P # {} => /\ x # NoPass /\ x.held /\ x.pub # 0
               /\ l[x.of] = NotLive \/ l[x.of].pub # x.pub
               /\ \A s \in P \ {NotLive} : s.version = x.saw.version => s.bad
  /\ x.step = "recordRetraction" => P # {}
  /\ Retracted(p) \in R => P # {}
  /\ Moderated(R, p) => x # NoPass /\ x.todo = <<>>
  /\ x.step = "done" /\ x.pub # 0 /\ Moderated(R, p) /\ F \notin R /\ p \notin U => ~x.saw.bad \/ P # {}

AllVersions == \A e \in Entries : Versions(draft[e], live[e]) /\ Numbers(e, live[e], budget.publishes)
AllSaw == \A p \in Passes : SawVersion(pass[p], draft, live)
AllOfPublish ==
  /\ \A p \in Passes : pass[p] # NoPass => OfPublish(pass[p], live, budget.publishes)
  /\ \A x \in events : OfPublish(x, live, budget.publishes)
AllTook == Durable => \A p \in Passes : Took(p, pass[p], pulled[p], live, agentRuns, Failure(p), untold)

PassesInv == PassesTypeOK /\ AllVersions /\ AllSaw /\ AllOfPublish /\ AllTook /\ EndsTold

-------------------------------------------------------------------------------
(***************************************************************************)
(* Passes: what each step does to its pass.                                *)
(***************************************************************************)
LEMMA TodoShapes ==
  ASSUME NEW t \in Todos, t # <<>>
  PROVE  Head(t) \in Workflows /\ Tail(t) \in Todos /\ (Head(t) = "moderate" => Tail(t) = <<>>)
<1>1. CASE \E w \in Workflows : t = <<w>>
  BY <1>1 DEF Todos
<1>2. CASE t = <<"enrich", "moderate">>
  <2>1. Head(t) = "enrich" /\ Tail(t) = <<"moderate">>
    BY <1>2
  <2> QED BY <2>1 DEF Todos, Workflows
<1> QED BY <1>1, <1>2 DEF Todos

LEMMA TwoInARow ==
  ASSUME NEW S, NEW a \in S, NEW b \in S
  PROVE  <<a>> \o <<b>> = <<a, b>>
<1> DEFINE both == <<a>> \o <<b>>
<1>1. both \in Seq(S) /\ Len(both) = 2 /\ both[1] = a /\ both[2] = b
  OBVIOUS
<1> HIDE DEF both
<1>2. both = <<a, b>>
  BY <1>1
<1> QED BY <1>2 DEF both

LEMMA OnPublishTodo == config \in Deployments => OnPublish \in Todos /\ OnPublish # <<>>
<1> SUFFICES ASSUME config \in Deployments PROVE OnPublish \in Todos /\ OnPublish # <<>>
  OBVIOUS
<1>1. config.enrich \in BOOLEAN /\ config.moderate \in BOOLEAN /\ (config.enrich \/ config.moderate)
  BY PassesAssumption
<1>2. CASE config.enrich /\ config.moderate
  <2>1. "enrich" \in Workflows /\ "moderate" \in Workflows
    BY DEF Workflows
  <2>2. OnPublish = <<"enrich">> \o <<"moderate">>
    BY <1>2 DEF OnPublish
  <2>3. OnPublish = <<"enrich", "moderate">>
    BY <2>1, <2>2, TwoInARow
  <2> QED BY <2>3 DEF Todos
<1>3. CASE config.enrich /\ ~config.moderate
  <2>1. OnPublish = <<"enrich">>
    BY <1>3 DEF OnPublish
  <2> QED BY <2>1 DEF Todos, Workflows
<1>4. CASE ~config.enrich /\ config.moderate
  <2>1. OnPublish = <<"moderate">>
    BY <1>4 DEF OnPublish
  <2> QED BY <2>1 DEF Todos, Workflows
<1> QED BY <1>1, <1>2, <1>3, <1>4

\* A pass begins with nothing seen.
LEMMA BegunDoes ==
  ASSUME NEW of \in Entries, NEW pub \in Nat, NEW chunk \in SUBSET Passes, NEW todo \in Todos, todo # <<>>,
         NEW autoApply \in BOOLEAN
  PROVE  /\ PassOK(Begun(of, pub, chunk, todo, autoApply)) /\ Begun(of, pub, chunk, todo, autoApply) # NoPass
         /\ Begun(of, pub, chunk, todo, autoApply).of = of /\ Begun(of, pub, chunk, todo, autoApply).pub = pub
         /\ Begun(of, pub, chunk, todo, autoApply).step = "load"
         /\ Begun(of, pub, chunk, todo, autoApply).todo = todo
         /\ Begun(of, pub, chunk, todo, autoApply).saw = Unseen
         /\ ~Begun(of, pub, chunk, todo, autoApply).held
<1> DEFINE y == Begun(of, pub, chunk, todo, autoApply)
<1>1. y.step = "load" /\ y.of = of /\ y.pub = pub /\ y.todo = todo /\ y.saw = Unseen /\ y.status = "none"
      /\ y.held = FALSE
  BY DEF Begun
<1>2. y \in PassRecord
  BY DEF Begun, PassRecord, Seeing, Taking, Statuses, Unseen, Draft
<1>3. y # NoPass
  BY <1>1 DEF NoPass
<1>4. Stage(y)
  BY <1>1 DEF Stage, Taking
<1> HIDE DEF y
<1> QED BY <1>1, <1>2, <1>3, <1>4 DEF PassOK, y

\* A running pass.
LEMMA PassShapes ==
  ASSUME PassesTypeOK, NEW p \in Passes
  PROVE  /\ PassOK(pass[p])
         /\ pass[p].step # "idle" => pass[p] \in PassRecord /\ Stage(pass[p]) /\ pass[p] # NoPass
         /\ pass[p] # NoPass => pass[p] \in PassRecord /\ Stage(pass[p]) /\ pass[p].step # "idle"
<1>1. PassOK(pass[p])
  BY DEF PassesTypeOK
<1>2. \A x \in PassRecord : x.step # "idle"
  BY DEF PassRecord, Seeing, Taking
<1> QED BY <1>1, <1>2 DEF PassOK, NoPass

\* The steps in which a pass of an entry works on.
Sees(p, y) ==
  /\ pass[p].step \in Seeing /\ y.step \in Seeing /\ y.step # "load"
  /\ y.of = pass[p].of /\ y.pub = pass[p].pub /\ y.todo = pass[p].todo /\ y.held = pass[p].held
  /\ y.saw = pass[p].saw \/ y.saw = draft[pass[p].of]

LEMMA WantsModeration == \A content : Wants("moderate", content)
BY DEF Wants

LEMMA LoadDoes ==
  ASSUME PassesTypeOK, NEW p \in Passes, LoadEntry(p)
  PROVE  \E y \in PassRecord : Stage(y) /\ Sees(p, y) /\ pass' = [pass EXCEPT ![p] = y]
<1> DEFINE x == pass[p]  seen == draft[x.of]  wanted == Wants(Head(x.todo), seen)
           step == IF ~wanted THEN "recordRun" ELSE IF Head(x.todo) = "moderate" THEN "classify" ELSE "generate"
           status == IF wanted THEN x.status ELSE "skipped"
           y == [x EXCEPT !.saw = seen, !.step = step, !.status = status]
<1>1. x.step = "load" /\ x \in PassRecord /\ Stage(x)
  BY PassShapes DEF LoadEntry, AtStep
<1>2. pass' = [pass EXCEPT ![p] = y]
  BY DEF LoadEntry, Workflow, EntryOf
<1>3. seen \in Draft
  BY <1>1 DEF PassesTypeOK, PassRecord
<1>4. step \in {"recordRun", "classify", "generate"} /\ status \in Statuses
  BY <1>1 DEF PassRecord, Statuses
<1>5. /\ step = "recordRun" => Head(x.todo) # "moderate"
      /\ step = "classify" => Head(x.todo) = "moderate"
      /\ step = "generate" => Head(x.todo) # "moderate"
  BY WantsModeration
<1> HIDE DEF seen, step, status
<1>6. y \in PassRecord
  BY <1>1, <1>3, <1>4 DEF PassRecord, Seeing
<1>7. y.step = step /\ y.saw = seen /\ y.todo = x.todo /\ y.held = x.held /\ y.of = x.of /\ y.pub = x.pub
  BY <1>1 DEF PassRecord
<1> HIDE DEF y
<1>8. x.todo # <<>> /\ ~x.held
  BY <1>1 DEF Stage, Seeing
<1>9. Stage(y)
  BY <1>4, <1>5, <1>7, <1>8 DEF Stage, Taking
<1>10. Sees(p, y)
  BY <1>1, <1>4, <1>7 DEF Sees, Seeing, seen
<1> QED BY <1>2, <1>6, <1>9, <1>10

LEMMA GenerateDoes ==
  ASSUME PassesTypeOK, NEW p \in Passes, NEW answer, GenerateFields(p, answer)
  PROVE  \E y \in PassRecord : Stage(y) /\ Sees(p, y) /\ pass' = [pass EXCEPT ![p] = y]
<1> DEFINE x == pass[p]
           step == IF answer = "none" THEN "recordRun" ELSE IF IsProposed(p, answer) THEN "propose" ELSE "apply"
           status == IF answer # "none" THEN x.status ELSE IF Workflow(p) = "curate" THEN "completed" ELSE "skipped"
           y == [x EXCEPT !.step = step, !.status = status]
<1>1. x.step = "generate" /\ x \in PassRecord /\ Stage(x)
  BY PassShapes DEF GenerateFields, AtStep
<1>2. pass' = [pass EXCEPT ![p] = y]
  BY DEF GenerateFields
<1>3. step \in {"recordRun", "propose", "apply"} /\ status \in Statuses
  BY <1>1 DEF PassRecord, Statuses
<1> HIDE DEF step, status
<1>4. y \in PassRecord
  BY <1>1, <1>3 DEF PassRecord, Seeing
<1>5. y.step = step /\ y.saw = x.saw /\ y.todo = x.todo /\ y.held = x.held /\ y.of = x.of /\ y.pub = x.pub
  BY <1>1 DEF PassRecord
<1> HIDE DEF y
<1>6. x.todo # <<>> /\ ~x.held /\ Head(x.todo) # "moderate"
  BY <1>1 DEF Stage, Seeing
<1>7. Stage(y)
  BY <1>3, <1>5, <1>6 DEF Stage, Taking
<1>8. Sees(p, y)
  BY <1>1, <1>3, <1>5 DEF Sees, Seeing
<1> QED BY <1>2, <1>4, <1>7, <1>8

\* Applying, proposing and classifying end with the record of the run.
Outcome(p, status) == [pass[p] EXCEPT !.step = "recordRun", !.status = status]

LEMMA OutcomeDoes ==
  ASSUME PassesTypeOK, NEW p \in Passes, NEW status \in Statuses,
         pass[p].step \in {"apply", "propose"} \/ (pass[p].step = "classify" /\ (status = "held" <=> pass[p].saw.bad))
  PROVE  Outcome(p, status) \in PassRecord /\ Stage(Outcome(p, status)) /\ Sees(p, Outcome(p, status))
<1> DEFINE x == pass[p]
           y == Outcome(p, status)
<1>1. x \in PassRecord /\ Stage(x)
  BY PassShapes
<1>2. y \in PassRecord
  BY <1>1 DEF PassRecord, Seeing, Outcome
<1>3. y.step = "recordRun" /\ y.status = status /\ y.saw = x.saw /\ y.todo = x.todo /\ y.held = x.held /\ y.of = x.of
      /\ y.pub = x.pub
  BY <1>1 DEF PassRecord, Outcome
<1> HIDE DEF y
<1>4. /\ x.todo # <<>> /\ ~x.held
      /\ x.step \in {"apply", "propose"} => Head(x.todo) # "moderate"
  BY <1>1 DEF Stage, Seeing
<1>5. Stage(y)
  BY <1>3, <1>4 DEF Stage, Taking
<1>6. Sees(p, y)
  BY <1>3 DEF Sees, Seeing
<1> QED BY <1>2, <1>5, <1>6 DEF y


\* The other records of a pass that go on: its step changes, and what it saw does not.
SameRun(p, y) == y.of = pass[p].of /\ y.pub = pass[p].pub /\ y.saw = pass[p].saw

LEMMA RecordDoes ==
  ASSUME PassesTypeOK, NEW p \in Passes, RecordRun(p)
  PROVE  \E y \in PassRecord :
           /\ Stage(y) /\ SameRun(p, y) /\ pass' = [pass EXCEPT ![p] = y]
           /\ pass[p].step = "recordRun" /\ pass[p].todo # <<>> /\ pass[p].status \in Statuses /\ ~pass[p].held
           /\ y.step \in {"load", "retract", "done"} /\ y.todo = Tail(pass[p].todo)
           /\ y.held <=> Head(pass[p].todo) = "moderate" /\ pass[p].saw.bad
           /\ y.step = "done" /\ y.pub # 0 => ~y.held
           /\ Head(pass[p].todo) = "moderate" => y.todo = <<>>
<1> DEFINE x == pass[p]
           held == x.held \/ (Head(x.todo) = "moderate" /\ x.status = "held")
           rest == Tail(x.todo)
           retracts == held /\ x.pub # 0
           step == IF rest # <<>> THEN "load" ELSE IF retracts THEN "retract" ELSE "done"
           y == [x EXCEPT !.held = held, !.todo = rest, !.status = "none", !.step = step]
<1>1. x.step = "recordRun" /\ x \in PassRecord /\ Stage(x)
  BY PassShapes DEF RecordRun, AtStep
<1>2. pass' = [pass EXCEPT ![p] = y]
  BY DEF RecordRun, Workflow
<1>3. x.todo # <<>> /\ ~x.held /\ x.todo \in Todos /\ x.status \in Statuses
  BY <1>1 DEF Stage, Seeing, PassRecord
<1>4. rest \in Todos /\ (Head(x.todo) = "moderate" => rest = <<>>)
  BY <1>3, TodoShapes
<1>5. held \in BOOLEAN /\ (held <=> Head(x.todo) = "moderate" /\ x.saw.bad)
  BY <1>1, <1>3 DEF Stage, PassRecord
<1>6. step \in {"load", "retract", "done"}
  OBVIOUS
<1>7. /\ step = "load" => rest # <<>>
      /\ step = "retract" => rest = <<>> /\ held /\ x.pub # 0
      /\ step = "done" => ~held \/ x.pub = 0
  OBVIOUS
<1> HIDE DEF held, rest, step
<1>8. y \in PassRecord
  BY <1>1, <1>4, <1>5, <1>6 DEF PassRecord, Seeing, Taking, Statuses
<1>9. y.step = step /\ y.held = held /\ y.todo = rest /\ y.status = "none" /\ y.saw = x.saw /\ y.of = x.of
      /\ y.pub = x.pub
  BY <1>1 DEF PassRecord
<1> HIDE DEF y
<1>10. Stage(y)
  <2>1. held => rest = <<>> /\ x.saw.bad
    BY <1>4, <1>5
  <2>2. step = "load" => ~held
    BY <1>7, <2>1
  <2> QED BY <1>6, <1>7, <1>9, <2>1, <2>2 DEF Stage, Seeing, Taking
<1>11. SameRun(p, y)
  BY <1>9 DEF SameRun
<1>12. pass[p].step = "recordRun" /\ pass[p].todo # <<>> /\ pass[p].status \in Statuses /\ ~pass[p].held
  BY <1>1, <1>3
<1>13. y.step \in {"load", "retract", "done"} /\ y.todo = Tail(pass[p].todo)
  BY <1>6, <1>9 DEF rest
<1>14. y.held <=> Head(pass[p].todo) = "moderate" /\ pass[p].saw.bad
  BY <1>5, <1>9
<1>15. y.step = "done" /\ y.pub # 0 => ~y.held
  BY <1>7, <1>9
<1>16. Head(pass[p].todo) = "moderate" => y.todo = <<>>
  BY <1>4, <1>9
<1> QED BY <1>2, <1>8, <1>10, <1>11, <1>12, <1>13, <1>14, <1>15, <1>16

\* Retractions, ends and failures change the step alone.
LEMMA StepDoes ==
  ASSUME PassesTypeOK, NEW p \in Passes, pass[p] # NoPass,
         NEW step \in {"recordRetraction", "recordFailure", "done"},
         step = "recordRetraction" => pass[p].step \in Taking
  PROVE  \E y \in PassRecord :
           /\ Stage(y) /\ SameRun(p, y) /\ y = [pass[p] EXCEPT !.step = step]
           /\ y.step = step /\ y.held = pass[p].held /\ y.todo = pass[p].todo
<1> DEFINE x == pass[p]
           y == [x EXCEPT !.step = step]
<1>1. x \in PassRecord /\ Stage(x)
  BY PassShapes
<1>2. y \in PassRecord
  BY <1>1 DEF PassRecord, Taking
<1>3. y.step = step /\ y.held = x.held /\ y.todo = x.todo /\ y.saw = x.saw /\ y.of = x.of /\ y.pub = x.pub
  BY <1>1 DEF PassRecord
<1>4. y = [pass[p] EXCEPT !.step = step]
  OBVIOUS
<1> HIDE DEF y
<1>5. Stage(y)
  BY <1>1, <1>3 DEF Stage, Seeing, Taking
<1> QED BY <1>2, <1>3, <1>4, <1>5 DEF SameRun

LEMMA SpendDoes ==
  ASSUME PassesTypeOK
  PROVE  /\ Spend("edits") \/ Spend("errors") \/ UNCHANGED budget =>
              budget' \in [edits : Nat, publishes : Nat, errors : Nat] /\ budget'.publishes = budget.publishes
         /\ Spend("publishes") => /\ budget' \in [edits : Nat, publishes : Nat, errors : Nat]
                                  /\ budget.publishes \in Nat \ {0} /\ budget'.publishes = budget.publishes - 1
BY DEF Spend, PassesTypeOK

\* Whatever starts, passes that had not begun begin, for events that are waiting or for none.
LEMMA StartDoes ==
  ASSUME PassesTypeOK,
         \/ \E chunk \in SUBSET events : StartChunk(chunk)
         \/ \E p \in Passes, x \in events : StartInline(p, x)
         \/ \E p \in Passes, e \in Entries, w \in Workflows : StartSingle(p, e, w)
  PROVE  /\ UNCHANGED <<config, draft, live, agentRuns, pulled, untold>>
         /\ events' \subseteq events /\ budget' \in [edits : Nat, publishes : Nat, errors : Nat]
         /\ budget'.publishes = budget.publishes
         /\ DOMAIN pass' = Passes
         /\ \A p \in Passes :
              \/ pass'[p] = pass[p]
              \/ /\ pass[p] = NoPass /\ PassOK(pass'[p]) /\ pass'[p] # NoPass
                 /\ pass'[p].step = "load" /\ ~pass'[p].held /\ pass'[p].saw = Unseen
                 /\ pass'[p].of \in Entries
                 /\ pass'[p].pub # 0 => \E x \in events : pass'[p].of = x.of /\ pass'[p].pub = x.pub
<1> DEFINE BeginsPass(p, y) ==
      /\ PassOK(y) /\ y # NoPass /\ y.step = "load" /\ ~y.held /\ y.saw = Unseen
      /\ y.of \in Entries /\ (y.pub # 0 => \E x \in events : y.of = x.of /\ y.pub = x.pub)
<1>1. OnPublish \in Todos /\ OnPublish # <<>> /\ config.autoApply \in BOOLEAN
  BY OnPublishTodo, PassesAssumption DEF PassesTypeOK
<1>2. ASSUME NEW x \in events, NEW chunk \in SUBSET Passes, NEW p \in Passes
      PROVE  BeginsPass(p, Begun(x.of, x.pub, chunk, OnPublish, config.autoApply))
  <2>1. x.of \in Entries /\ x.pub \in Nat
    BY DEF PassesTypeOK, PublishEvent
  <2> HIDE DEF BeginsPass
  <2> QED BY <1>1, <2>1, BegunDoes DEF BeginsPass
<1>7. ASSUME NEW e \in Entries, NEW t \in Todos, t # <<>>, NEW p \in Passes
      PROVE  BeginsPass(p, Begun(e, 0, {p}, t, config.autoApply))
  <2> DEFINE chunk == {p}  y == Begun(e, 0, chunk, t, config.autoApply)
  <2>1. chunk \in SUBSET Passes /\ 0 \in Nat
    OBVIOUS
  <2> HIDE DEF BeginsPass, chunk
  <2>2. PassOK(y) /\ y # NoPass /\ y.of = e /\ y.pub = 0 /\ y.step = "load" /\ y.saw = Unseen /\ ~y.held
    BY <1>1, <1>7, <2>1, BegunDoes
  <2> HIDE DEF y
  <2>3. BeginsPass(p, y)
    BY <2>2 DEF BeginsPass
  <2> QED BY <2>3 DEF y, chunk
<1> HIDE DEF BeginsPass
<1>3. ASSUME NEW chunk \in SUBSET events, StartChunk(chunk)
      PROVE  /\ UNCHANGED <<config, draft, live, agentRuns, pulled, untold, budget>> /\ events' \subseteq events
             /\ DOMAIN pass' = Passes
             /\ \A p \in Passes : pass'[p] = pass[p] \/ (pass[p] = NoPass /\ BeginsPass(p, pass'[p]))
  <2>1. /\ UNCHANGED <<config, draft, live, agentRuns, pulled, untold, budget>> /\ events' = events \ chunk
    BY <1>3 DEF StartChunk
  <2>2. PICK run \in [chunk -> {p \in Passes : pass[p] = NoPass}] :
          pass' = [p \in Passes |->
                     IF \E x \in chunk : run[x] = p
                     THEN LET x == CHOOSE x \in chunk : run[x] = p IN
                          Begun(x.of, x.pub, {run[y] : y \in chunk}, OnPublish, config.autoApply)
                     ELSE pass[p]]
    BY <1>3 DEF StartChunk
  <2>3. {run[y] : y \in chunk} \in SUBSET Passes
    BY <2>2
  <2>4. ASSUME NEW p \in Passes, pass'[p] # pass[p] PROVE pass[p] = NoPass /\ BeginsPass(p, pass'[p])
    <3> DEFINE x == CHOOSE x \in chunk : run[x] = p
    <3>1. \E z \in chunk : run[z] = p
      BY <2>2, <2>4
    <3>2. x \in chunk /\ run[x] = p
      BY <3>1
    <3>3. pass'[p] = Begun(x.of, x.pub, {run[y] : y \in chunk}, OnPublish, config.autoApply)
      BY <2>2, <3>1
    <3>4. pass[p] = NoPass
      BY <2>2, <3>2
    <3> HIDE DEF x
    <3>5. BeginsPass(p, Begun(x.of, x.pub, {run[y] : y \in chunk}, OnPublish, config.autoApply))
      BY <1>2, <2>3, <3>2
    <3> QED BY <3>3, <3>4, <3>5
  <2> QED BY <2>1, <2>2, <2>4
<1>4. ASSUME NEW p \in Passes, NEW x \in events, StartInline(p, x)
      PROVE  /\ UNCHANGED <<config, draft, live, agentRuns, pulled, untold, budget, events>>
             /\ DOMAIN pass' = Passes
             /\ \A q \in Passes : pass'[q] = pass[q] \/ (pass[q] = NoPass /\ BeginsPass(q, pass'[q]))
  <2>1. /\ UNCHANGED <<config, draft, live, agentRuns, pulled, untold, budget, events>> /\ pass[p] = NoPass
        /\ pass' = [pass EXCEPT ![p] = Begun(x.of, x.pub, {p}, OnPublish, config.autoApply)]
    BY <1>4 DEF StartInline
  <2>2. BeginsPass(p, Begun(x.of, x.pub, {p}, OnPublish, config.autoApply))
    BY <1>2
  <2> QED BY <2>1, <2>2 DEF PassesTypeOK
<1>5. ASSUME NEW p \in Passes, NEW e \in Entries, NEW w \in Workflows, StartSingle(p, e, w)
      PROVE  /\ UNCHANGED <<config, draft, live, agentRuns, pulled, untold, events>>
             /\ budget' \in [edits : Nat, publishes : Nat, errors : Nat] /\ budget'.publishes = budget.publishes
             /\ DOMAIN pass' = Passes
             /\ \A q \in Passes : pass'[q] = pass[q] \/ (pass[q] = NoPass /\ BeginsPass(q, pass'[q]))
  <2>1. /\ UNCHANGED <<config, draft, live, agentRuns, pulled, untold, events>> /\ pass[p] = NoPass
        /\ pass' = [pass EXCEPT ![p] = Begun(e, 0, {p}, <<w>>, config.autoApply)]
        /\ Spend("edits")
    BY <1>5 DEF StartSingle
  <2>2. <<w>> \in Todos /\ <<w>> # <<>>
    BY DEF Todos
  <2>3. BeginsPass(p, Begun(e, 0, {p}, <<w>>, config.autoApply))
    BY <1>7, <2>2
  <2>4. budget' \in [edits : Nat, publishes : Nat, errors : Nat] /\ budget'.publishes = budget.publishes
    BY <2>1, SpendDoes
  <2> QED BY <2>1, <2>3, <2>4 DEF PassesTypeOK
<1>6. budget \in [edits : Nat, publishes : Nat, errors : Nat]
  BY DEF PassesTypeOK
<1> QED BY <1>3, <1>4, <1>5, <1>6 DEF BeginsPass

-------------------------------------------------------------------------------
(***************************************************************************)
(* Passes: the invariant is inductive.                                     *)
(***************************************************************************)
\* What steps other than a publish do to drafts, snapshots and the ledger.
WorldStays ==
  /\ config' = config
  /\ draft' \in [Entries -> Draft] /\ live' \in [Entries -> {NotLive} \union LiveRecord]
  /\ \A e \in Entries : /\ draft'[e] = draft[e] \/ draft'[e].version = draft[e].version + 1
                        /\ live'[e] = live[e] \/ live'[e] = NotLive
  /\ budget' \in [edits : Nat, publishes : Nat, errors : Nat] /\ budget'.publishes = budget.publishes
  /\ agentRuns \subseteq agentRuns' /\ untold \subseteq untold'
  /\ \A z \in events' \ events :
       z \in PublishEvent /\ \E p \in Passes : pass[p] # NoPass /\ pass[p].of = z.of /\ pass[p].pub = z.pub

\* What they do to a pass: it ends, begins, or goes on.
Follows(x, y) ==
  /\ PassOK(y)
  /\ \/ y = NoPass
     \/ /\ x = NoPass /\ y.saw = Unseen
        /\ y.pub # 0 => \E z \in events : y.of = z.of /\ y.pub = z.pub
     \/ /\ x # NoPass /\ y.of = x.of /\ y.pub = x.pub
        /\ y.saw = x.saw \/ y.saw = draft[x.of]

LEMMA LiveShapes ==
  ASSUME PassesTypeOK, NEW e \in Entries
  PROVE  /\ draft[e].version \in Nat
         /\ live[e] # NotLive => live[e] \in LiveRecord /\ live[e].version \in Nat /\ live[e].pub \in Nat \ {0}
BY DEF PassesTypeOK, Draft, LiveRecord

LEMMA RecordShapes ==
  ASSUME NEW x, PassOK(x), x # NoPass
  PROVE  x.of \in Entries /\ x.pub \in Nat /\ x.saw.version \in Nat
BY DEF PassOK, PassRecord, Draft

LEMMA WorldVersions == ASSUME PassesInv, WorldStays PROVE AllVersions'
<1> SUFFICES ASSUME NEW e \in Entries PROVE Versions(draft'[e], live'[e]) /\ Numbers(e, live'[e], budget'.publishes)
  BY DEF AllVersions
<1>1. /\ Versions(draft[e], live[e]) /\ Numbers(e, live[e], budget.publishes)
      /\ draft[e].version \in Nat
      /\ live[e] # NotLive => live[e].version \in Nat
  BY LiveShapes DEF PassesInv, AllVersions
<1>2. /\ draft'[e] = draft[e] \/ draft'[e].version = draft[e].version + 1
      /\ live'[e] = live[e] \/ live'[e] = NotLive
      /\ budget'.publishes = budget.publishes
  BY DEF WorldStays
<1>3. Versions(draft'[e], live'[e])
  BY <1>1, <1>2 DEF Versions, Agree
<1> QED BY <1>1, <1>2, <1>3 DEF Numbers

LEMMA WorldSaw ==
  ASSUME PassesInv, WorldStays, NEW p \in Passes, pass'[p] = pass[p] \/ Follows(pass[p], pass'[p])
  PROVE  SawVersion(pass'[p], draft', live')
<1> DEFINE x == pass[p]  y == pass'[p]
<1> SUFFICES ASSUME y # NoPass PROVE SawVersion(y, draft', live')
  BY DEF SawVersion
<1>1. PassOK(x) /\ SawVersion(x, draft, live)
  BY DEF PassesInv, PassesTypeOK, AllSaw
<1>2. PassOK(y)
  BY <1>1 DEF Follows
<1> DEFINE e == y.of
<1>3. e \in Entries /\ y.saw.version \in Nat
  BY <1>2, RecordShapes
<1>4. /\ Versions(draft[e], live[e])
      /\ draft[e].version \in Nat
      /\ live[e] # NotLive => live[e].version \in Nat
  BY <1>3, LiveShapes DEF PassesInv, AllVersions
<1>5. /\ draft'[e] = draft[e] \/ draft'[e].version = draft[e].version + 1
      /\ live'[e] = live[e] \/ live'[e] = NotLive
  BY <1>3 DEF WorldStays
<1>6. y.saw.version <= draft[e].version /\ Agree(y.saw, draft[e]) /\ (live[e] # NotLive => Agree(y.saw, live[e]))
  <2>1. CASE y = x
    BY <1>1, <2>1 DEF SawVersion
  <2>2. CASE x = NoPass /\ y.saw = Unseen
    <3>1. y.saw.version = 0
      BY <2>2 DEF Unseen
    <3>2. draft[e].version # 0 /\ (live[e] # NotLive => live[e].version # 0)
      BY <1>4 DEF Versions
    <3> QED BY <1>4, <3>1, <3>2 DEF Agree
  <2>3. CASE x # NoPass /\ y.of = x.of /\ y.saw = x.saw
    BY <1>1, <2>3 DEF SawVersion
  <2>4. CASE y.saw = draft[e]
    BY <1>4, <2>4 DEF Agree, Versions
  <2> QED BY <2>1, <2>2, <2>3, <2>4 DEF Follows
<1> HIDE DEF x, y, e
<1>7. y.saw.version <= draft'[e].version /\ Agree(y.saw, draft'[e]) /\ (live'[e] # NotLive => Agree(y.saw, live'[e]))
  BY <1>3, <1>4, <1>5, <1>6 DEF Agree
<1> QED BY <1>7 DEF SawVersion, e

\* What is a publish of one entry stays that.
LEMMA OfPublishStays ==
  ASSUME WorldStays, NEW x, NEW y, OfPublish(x, live, budget.publishes), y.of = x.of, y.pub = x.pub
  PROVE  OfPublish(y, live', budget'.publishes)
<1>1. budget'.publishes = budget.publishes /\ \A e \in Entries : live'[e] = live[e] \/ live'[e] = NotLive
  BY DEF WorldStays
<1> QED BY <1>1 DEF OfPublish

LEMMA WorldOfPublish ==
  ASSUME PassesInv, WorldStays, \A p \in Passes : pass'[p] = pass[p] \/ Follows(pass[p], pass'[p])
  PROVE  AllOfPublish'
<1>1. ASSUME NEW p \in Passes, pass'[p] # NoPass PROVE OfPublish(pass'[p], live', budget'.publishes)
  <2>1. pass[p] # NoPass => OfPublish(pass[p], live, budget.publishes)
    BY DEF PassesInv, AllOfPublish
  <2>2. CASE pass'[p] = pass[p]
    BY <1>1, <2>1, <2>2, OfPublishStays
  <2>3. CASE pass[p] # NoPass /\ pass'[p].of = pass[p].of /\ pass'[p].pub = pass[p].pub
    BY <2>1, <2>3, OfPublishStays
  <2>4. CASE pass'[p].pub = 0
    BY <2>4 DEF OfPublish
  <2>5. CASE \E z \in events : pass'[p].of = z.of /\ pass'[p].pub = z.pub
    <3>1. PICK z \in events : pass'[p].of = z.of /\ pass'[p].pub = z.pub
      BY <2>5
    <3>2. OfPublish(z, live, budget.publishes)
      BY DEF PassesInv, AllOfPublish
    <3> QED BY <3>1, <3>2, OfPublishStays
  <2> QED BY <1>1, <2>2, <2>3, <2>4, <2>5 DEF Follows
<1>2. ASSUME NEW z \in events' PROVE OfPublish(z, live', budget'.publishes)
  <2>1. CASE z \in events
    <3>1. OfPublish(z, live, budget.publishes)
      BY <2>1 DEF PassesInv, AllOfPublish
    <3> QED BY <3>1, OfPublishStays
  <2>2. CASE z \notin events
    <3>1. PICK p \in Passes : pass[p] # NoPass /\ pass[p].of = z.of /\ pass[p].pub = z.pub
      BY <2>2 DEF WorldStays
    <3>2. OfPublish(pass[p], live, budget.publishes)
      BY <3>1 DEF PassesInv, AllOfPublish
    <3> QED BY <3>1, <3>2, OfPublishStays
  <2> QED BY <2>1, <2>2
<1> QED BY <1>1, <1>2 DEF AllOfPublish

LEMMA WorldStep ==
  ASSUME PassesInv, WorldStays, DOMAIN pass' = Passes, DOMAIN pulled' = Passes,
         \A p \in Passes : pass'[p] = pass[p] \/ Follows(pass[p], pass'[p])
  PROVE  PassesTypeOK' /\ AllVersions' /\ AllSaw' /\ AllOfPublish'
<1>1. PassesTypeOK'
  <2>1. \A p \in Passes : PassOK(pass'[p])
    BY DEF PassesInv, PassesTypeOK, Follows
  <2>2. events' \subseteq PublishEvent /\ config' \in Deployments
    BY DEF PassesInv, PassesTypeOK, WorldStays
  <2> QED BY <2>1, <2>2 DEF WorldStays, PassesTypeOK
<1>2. AllSaw'
  BY WorldSaw DEF AllSaw
<1> QED BY <1>1, <1>2, WorldVersions, WorldOfPublish

\* A pass that takes no step: what is live may be withdrawn, or be another publish, and
\* others may be recorded.
LEMMA TookStays ==
  ASSUME NEW p, NEW x, NEW P, NEW l, NEW l2, NEW R, NEW R2, NEW F, NEW U, NEW U2, Took(p, x, P, l, R, F, U),
         R \subseteq R2, \A r \in R2 \ R : r.run # p, p \in U2 <=> p \in U,
         x # NoPass /\ x.pub # 0 => l2[x.of] = l[x.of] \/ l2[x.of] = NotLive \/ l2[x.of].pub # x.pub
  PROVE  Took(p, x, P, l2, R2, F, U2)
<1>1. Retracted(p) \in R2 => Retracted(p) \in R
  BY DEF Retracted
<1>2. Moderated(R2, p) => Moderated(R, p)
  BY DEF Moderated
<1> QED BY <1>1, <1>2 DEF Took

LEMMA FailureSame == config' = config => (Durable' <=> Durable) /\ \A p : Failure(p)' = Failure(p)
BY DEF Durable, Failure, OnPublish

\* g is f but for what it has at p.
Alters(f, g, p, y) == DOMAIN g = Passes /\ \A q \in Passes : g[q] = IF q = p THEN y ELSE f[q]

LEMMA AltersOne ==
  ASSUME NEW f, DOMAIN f = Passes, NEW p \in Passes
  PROVE  Alters(f, f, p, f[p]) /\ \A y : Alters(f, [f EXCEPT ![p] = y], p, y)
BY DEF Alters

LEMMA PassesAre == PassesInv => PassesTypeOK /\ DOMAIN pass = Passes /\ DOMAIN pulled = Passes
BY DEF PassesInv, PassesTypeOK

\* The step of one pass, of which remains to be seen what it took and told.
LEMMA ActStep ==
  ASSUME PassesInv, WorldStays, NEW p \in Passes, NEW y, NEW P, Follows(pass[p], y),
         Alters(pass, pass', p, y), Alters(pulled, pulled', p, P),
         \A r \in agentRuns' \ agentRuns : r.run = p, untold' \subseteq untold \union {p},
         Durable => Took(p, y, P, live', agentRuns', Failure(p), untold'),
         y.step = "done" => p \in untold' \/ \E r \in agentRuns' : r.run = p
  PROVE  PassesInv'
<1>1. \A q \in Passes : /\ pass'[q] = IF q = p THEN y ELSE pass[q]
                        /\ pulled'[q] = IF q = p THEN P ELSE pulled[q]
  BY DEF Alters
<1>2. DOMAIN pass' = Passes /\ DOMAIN pulled' = Passes
  BY DEF Alters
<1>3. PassesTypeOK' /\ AllVersions' /\ AllSaw' /\ AllOfPublish'
  BY <1>1, <1>2, WorldStep
<1>4. (Durable' <=> Durable) /\ \A q : Failure(q)' = Failure(q)
  BY FailureSame DEF WorldStays
<1>5. ASSUME Durable, NEW q \in Passes
      PROVE  Took(q, pass'[q], pulled'[q], live', agentRuns', Failure(q), untold')
  <2>1. CASE q = p
    BY <1>1, <1>5, <2>1
  <2>2. CASE q # p
    <3>1. Took(q, pass[q], pulled[q], live, agentRuns, Failure(q), untold)
      BY <1>5 DEF PassesInv, AllTook
    <3>2. pass[q] # NoPass => live'[pass[q].of] = live[pass[q].of] \/ live'[pass[q].of] = NotLive
      BY RecordShapes DEF PassesInv, PassesTypeOK, WorldStays
    <3>3. agentRuns \subseteq agentRuns' /\ (\A r \in agentRuns' \ agentRuns : r.run # q) /\ (q \in untold' <=> q \in untold)
      BY <2>2 DEF WorldStays
    <3>4. Took(q, pass[q], pulled[q], live', agentRuns', Failure(q), untold')
      BY <3>1, <3>2, <3>3, TookStays
    <3> QED BY <1>1, <2>2, <3>4
  <2> QED BY <2>1, <2>2
<1>6. AllTook'
  BY <1>4, <1>5 DEF AllTook
<1>7. EndsTold'
  <2> SUFFICES ASSUME NEW q \in Passes, pass'[q].step = "done" PROVE q \in untold' \/ \E r \in agentRuns' : r.run = q
    BY DEF EndsTold
  <2>1. CASE q = p
    BY <1>1, <2>1
  <2>2. CASE q # p
    BY <1>1, <2>2 DEF PassesInv, EndsTold, WorldStays
  <2> QED BY <2>1, <2>2
<1> QED BY <1>3, <1>6, <1>7 DEF PassesInv

\* A step in which a pass works on its entry.
LEMMA SeesStep ==
  ASSUME PassesInv, NEW p \in Passes, NEW y \in PassRecord, Stage(y), Sees(p, y), pass' = [pass EXCEPT ![p] = y],
         UNCHANGED <<config, live, events, agentRuns, budget, pulled, untold>>,
         draft' \in [Entries -> Draft],
         \A e \in Entries : draft'[e] = draft[e] \/ draft'[e].version = draft[e].version + 1
  PROVE  PassesInv'
<1>1. pass[p] # NoPass /\ y # NoPass
  BY DEF Sees, NoPass, Seeing
<1>2. Alters(pass, pass', p, y) /\ Alters(pulled, pulled', p, pulled[p])
  BY AltersOne, PassesAre
<1>3. WorldStays
  BY DEF WorldStays, PassesInv, PassesTypeOK
<1>4. Follows(pass[p], y)
  BY <1>1 DEF Follows, PassOK, Sees
<1>5. ~pass[p].held /\ pass[p].todo # <<>> /\ ~y.held /\ y.todo # <<>>
  BY <1>1, PassShapes DEF Sees, Stage, PassesInv
<1>6. y.step # "recordRetraction" /\ y.step # "done"
  BY DEF Sees, Seeing
<1>7. Durable => Took(p, y, pulled[p], live, agentRuns, Failure(p), untold)
  <2> SUFFICES ASSUME Durable PROVE Took(p, y, pulled[p], live, agentRuns, Failure(p), untold)
    OBVIOUS
  <2>1. Took(p, pass[p], pulled[p], live, agentRuns, Failure(p), untold)
    BY DEF PassesInv, AllTook
  <2> QED BY <1>5, <1>6, <2>1 DEF Took
<1> QED BY <1>2, <1>3, <1>4, <1>6, <1>7, ActStep

\* The other steps of a pass go on with what it saw.
LEMMA SameRunFollows ==
  ASSUME NEW p, NEW y \in PassRecord, Stage(y), SameRun(p, y), pass[p] # NoPass
  PROVE  Follows(pass[p], y)
BY DEF Follows, PassOK, SameRun

Filled(c) == [c EXCEPT !.version = c.version + 1, !.gap = FALSE]

LEMMA FilledShapes ==
  ASSUME NEW c \in Draft
  PROVE  Filled(c) \in Draft /\ Filled(c).version = c.version + 1
<1> DEFINE v == c.version + 1  d == [c EXCEPT !.version = v]
<1>1. v \in Nat
  BY DEF Draft
<1> HIDE DEF v
<1>2. d \in Draft /\ d.version = v
  BY <1>1 DEF Draft
<1> HIDE DEF d
<1>3. [d EXCEPT !.gap = FALSE] \in Draft /\ [d EXCEPT !.gap = FALSE].version = v
  BY <1>2 DEF Draft
<1> QED BY <1>3 DEF d, v, Filled

LEMMA ApplyDoes ==
  ASSUME PassesTypeOK, NEW e \in Entries, draft' = [draft EXCEPT ![e] = Filled(draft[e])]
  PROVE  /\ draft' \in [Entries -> Draft]
         /\ \A f \in Entries : draft'[f] = draft[f] \/ draft'[f].version = draft[f].version + 1
<1>1. draft \in [Entries -> Draft] /\ draft[e] \in Draft
  BY DEF PassesTypeOK
<1>2. Filled(draft[e]) \in Draft /\ Filled(draft[e]).version = draft[e].version + 1
  BY <1>1, FilledShapes
<1> QED BY <1>1, <1>2

LEMMA RecordStep ==
  ASSUME PassesInv, NEW p \in Passes, RecordRun(p)
  PROVE  PassesInv'
<1>1. PICK y \in PassRecord :
           /\ Stage(y) /\ SameRun(p, y) /\ pass' = [pass EXCEPT ![p] = y]
           /\ pass[p].step = "recordRun" /\ pass[p].todo # <<>> /\ pass[p].status \in Statuses /\ ~pass[p].held
           /\ y.step \in {"load", "retract", "done"} /\ y.todo = Tail(pass[p].todo)
           /\ y.held <=> Head(pass[p].todo) = "moderate" /\ pass[p].saw.bad
           /\ y.step = "done" /\ y.pub # 0 => ~y.held
           /\ Head(pass[p].todo) = "moderate" => y.todo = <<>>
  BY RecordDoes DEF PassesInv
<1> DEFINE r == [run |-> p, workflow |-> Head(pass[p].todo), status |-> pass[p].status]
<1>2. pass[p] # NoPass /\ y # NoPass
  BY <1>1 DEF NoPass
<1>3. agentRuns' = agentRuns \union {r} /\ events' \subseteq events
      /\ UNCHANGED <<config, draft, live, budget, pulled, untold>>
  BY DEF RecordRun, Workflow, Acknowledged
<1>4. Alters(pass, pass', p, y) /\ Alters(pulled, pulled', p, pulled[p])
  BY <1>1, <1>3, AltersOne, PassesAre
<1>5. WorldStays
  BY <1>3 DEF WorldStays, PassesInv, PassesTypeOK
<1>6. Follows(pass[p], y)
  BY <1>1, <1>2, SameRunFollows
<1>7. r.run = p /\ r.workflow = Head(pass[p].todo) /\ r.status \in Statuses
  BY <1>1
<1>8. r # Retracted(p)
  BY <1>7 DEF Retracted, Statuses
<1> HIDE DEF r
<1>9. Durable => Took(p, y, pulled[p], live, agentRuns', Failure(p), untold)
  <2> SUFFICES ASSUME Durable PROVE Took(p, y, pulled[p], live, agentRuns', Failure(p), untold)
    OBVIOUS
  <2>1. Took(p, pass[p], pulled[p], live, agentRuns, Failure(p), untold)
    BY DEF PassesInv, AllTook
  <2>2. pulled[p] = {} /\ Retracted(p) \notin agentRuns' /\ ~Moderated(agentRuns, p)
    BY <1>1, <1>3, <1>8, <2>1 DEF Took
  <2>3. Moderated(agentRuns', p) => Head(pass[p].todo) = "moderate"
    BY <1>3, <1>7, <2>2 DEF Moderated
  <2>4. y.step # "recordRetraction"
    BY <1>1
  <2>5. y.step = "done" /\ y.pub # 0 /\ Moderated(agentRuns', p) => ~y.saw.bad
    BY <1>1, <2>3 DEF SameRun
  <2> QED BY <1>1, <1>2, <2>2, <2>3, <2>4, <2>5 DEF Took
<1>10. \E z \in agentRuns' : z.run = p
  BY <1>3, <1>7
<1>11. \A z \in agentRuns' \ agentRuns : z.run = p
  BY <1>3, <1>7
<1>12. live' = live /\ untold' = untold
  BY <1>3
<1> QED BY <1>4, <1>5, <1>6, <1>9, <1>10, <1>11, <1>12, ActStep

\* What the pass finds published is taken out of delivery: of the version that was judged,
\* it is as bad as what was judged.
LEMMA WithdrawTook ==
  ASSUME PassesInv, Durable, NEW p \in Passes, pass[p].step = "retract",
         NEW y \in PassRecord, SameRun(p, y), y.held = pass[p].held, y.todo = pass[p].todo,
         y.step \in Taking, live' = [live EXCEPT ![EntryOf(p)] = NotLive]
  PROVE  Took(p, y, pulled[p] \union {live[EntryOf(p)]}, live', agentRuns, Failure(p), untold)
<1> DEFINE x == pass[p]  P == pulled[p] \union {live[EntryOf(p)]}
<1>1. x # NoPass /\ y # NoPass /\ x \in PassRecord /\ Stage(x)
  BY PassShapes DEF PassesInv, NoPass, Taking
<1>2. x.held /\ x.pub # 0 /\ x.todo = <<>> /\ x.saw.bad
  BY <1>1 DEF Stage, Taking
<1>3. y.of = x.of /\ y.pub = x.pub /\ y.saw = x.saw /\ EntryOf(p) = x.of /\ x.of \in Entries
  BY <1>1 DEF SameRun, EntryOf, PassRecord
<1>4. live'[x.of] = NotLive
  BY <1>3 DEF PassesInv, PassesTypeOK
<1>5. Took(p, x, pulled[p], live, agentRuns, Failure(p), untold)
  BY DEF PassesInv, AllTook
<1>6. live[x.of] # NotLive => Agree(x.saw, live[x.of])
  BY <1>1 DEF PassesInv, AllSaw, SawVersion
<1>7. ASSUME NEW s \in P \ {NotLive}, s.version = x.saw.version PROVE s.bad
  <2>1. CASE s \in pulled[p]
    BY <1>5, <1>7, <2>1 DEF Took
  <2>2. CASE s = live[x.of]
    BY <1>2, <1>6, <1>7, <2>2 DEF Agree
  <2> QED BY <1>3, <2>1, <2>2
<1>8. P # {}
  OBVIOUS
<1>9. y.step # "done"
  BY DEF Taking
<1> HIDE DEF P
<1>10. Took(p, y, P, live', agentRuns, Failure(p), untold)
  BY <1>1, <1>2, <1>3, <1>4, <1>7, <1>8, <1>9 DEF Took
<1> QED BY <1>10 DEF P

LEMMA WithdrawWorld ==
  ASSUME PassesInv, NEW e \in Entries, live' = [live EXCEPT ![e] = NotLive],
         UNCHANGED <<config, draft, events, agentRuns, untold>>,
         budget' \in [edits : Nat, publishes : Nat, errors : Nat], budget'.publishes = budget.publishes
  PROVE  WorldStays
<1>1. live \in [Entries -> {NotLive} \union LiveRecord]
  BY DEF PassesInv, PassesTypeOK
<1>2. live' \in [Entries -> {NotLive} \union LiveRecord] /\ \A f \in Entries : live'[f] = live[f] \/ live'[f] = NotLive
  BY <1>1
<1> QED BY <1>2 DEF WorldStays, PassesInv, PassesTypeOK

LEMMA RetractStep ==
  ASSUME PassesInv, NEW p \in Passes, RetractEntry(p)
  PROVE  PassesInv'
<1>1. /\ pass[p].step = "retract" /\ live' = [live EXCEPT ![EntryOf(p)] = NotLive]
      /\ pulled' = [pulled EXCEPT ![p] = pulled[p] \union {live[EntryOf(p)]}]
      /\ pass' = [pass EXCEPT ![p] = [pass[p] EXCEPT !.step = "recordRetraction"]]
      /\ UNCHANGED <<config, draft, events, agentRuns, budget, untold>>
  BY DEF RetractEntry, AtStep, Proceeds
<1>2. pass[p] # NoPass /\ pass[p].step \in Taking
  BY <1>1 DEF NoPass, Taking
<1>3. PICK y \in PassRecord :
           /\ Stage(y) /\ SameRun(p, y) /\ y = [pass[p] EXCEPT !.step = "recordRetraction"]
           /\ y.step = "recordRetraction" /\ y.held = pass[p].held /\ y.todo = pass[p].todo
  BY <1>2, StepDoes, PassesAre
<1>4. EntryOf(p) \in Entries
  BY <1>2, PassShapes DEF EntryOf, PassRecord, PassesInv
<1>5. WorldStays
  BY <1>1, <1>4, WithdrawWorld DEF PassesInv, PassesTypeOK
<1>6. Follows(pass[p], y)
  BY <1>2, <1>3, SameRunFollows
<1>7. y.step \in Taking /\ y.step # "done"
  BY <1>3 DEF Taking
<1>8. Durable => Took(p, y, pulled[p] \union {live[EntryOf(p)]}, live', agentRuns, Failure(p), untold)
  BY <1>1, <1>3, <1>7, WithdrawTook
<1>9. Alters(pass, pass', p, y) /\ Alters(pulled, pulled', p, pulled[p] \union {live[EntryOf(p)]})
  BY <1>1, <1>3, AltersOne, PassesAre
<1>10. untold' = untold /\ agentRuns' = agentRuns
  BY <1>1
<1> QED BY <1>5, <1>6, <1>7, <1>8, <1>9, <1>10, ActStep

LEMMA RecordRetractionStep ==
  ASSUME PassesInv, NEW p \in Passes, RecordRetraction(p)
  PROVE  PassesInv'
<1>1. /\ pass[p].step = "recordRetraction" /\ agentRuns' = agentRuns \union {Retracted(p)}
      /\ pass' = [pass EXCEPT ![p] = [pass[p] EXCEPT !.step = "done"]]
      /\ events' \subseteq events /\ UNCHANGED <<config, draft, live, budget, pulled, untold>>
  BY DEF RecordRetraction, AtStep, Ends, Acknowledged
<1>2. pass[p] # NoPass /\ pass[p].step \in Taking /\ pass[p] \in PassRecord /\ Stage(pass[p])
  BY <1>1, PassShapes DEF NoPass, Taking, PassesInv
<1>3. PICK y \in PassRecord :
           /\ Stage(y) /\ SameRun(p, y) /\ y = [pass[p] EXCEPT !.step = "done"]
           /\ y.step = "done" /\ y.held = pass[p].held /\ y.todo = pass[p].todo
  BY <1>2, StepDoes, PassesAre
<1>4. WorldStays
  BY <1>1 DEF WorldStays, PassesInv, PassesTypeOK
<1>5. Follows(pass[p], y)
  BY <1>2, <1>3, SameRunFollows
<1>6. Alters(pass, pass', p, y) /\ Alters(pulled, pulled', p, pulled[p])
  BY <1>1, <1>3, AltersOne, PassesAre
<1>7. Retracted(p).run = p
  BY DEF Retracted
<1>8. Durable => Took(p, y, pulled[p], live, agentRuns', Failure(p), untold)
  <2> SUFFICES ASSUME Durable PROVE Took(p, y, pulled[p], live, agentRuns', Failure(p), untold)
    OBVIOUS
  <2>1. Took(p, pass[p], pulled[p], live, agentRuns, Failure(p), untold)
    BY DEF PassesInv, AllTook
  <2>2. pulled[p] # {}
    BY <1>1, <2>1 DEF Took
  <2>3. y # NoPass /\ y.todo = <<>> /\ y.held /\ y.pub # 0 /\ y.step # "recordRetraction"
    BY <1>2, <1>3 DEF Stage, NoPass, SameRun
  <2> QED BY <1>3, <2>1, <2>2, <2>3 DEF Took, SameRun
<1>9. (\A r \in agentRuns' \ agentRuns : r.run = p) /\ (\E r \in agentRuns' : r.run = p)
  BY <1>1, <1>7
<1>10. live' = live /\ untold' = untold
  BY <1>1
<1> QED BY <1>4, <1>5, <1>6, <1>8, <1>9, <1>10, ActStep

\* A failure is recorded, or is among the failures that could not be.
LEMMA RecordFailureStep ==
  ASSUME PassesInv, NEW p \in Passes, NEW l \in BOOLEAN, RecordFailure(p, l)
  PROVE  PassesInv'
<1>1. /\ pass[p].step = "recordFailure"
      /\ pass' = [pass EXCEPT ![p] = [pass[p] EXCEPT !.step = "done"]]
      /\ UNCHANGED <<config, draft, live, events, pulled>>
  BY DEF RecordFailure, AtStep, Ends
<1>2. \/ Spend("errors") /\ untold' = untold \union {p} /\ UNCHANGED agentRuns
      \/ agentRuns' = agentRuns \union {Failure(p)} /\ UNCHANGED <<budget, untold>>
  BY DEF RecordFailure
<1>3. pass[p] # NoPass
  BY <1>1 DEF NoPass
<1>4. PICK y \in PassRecord :
           /\ Stage(y) /\ SameRun(p, y) /\ y = [pass[p] EXCEPT !.step = "done"]
           /\ y.step = "done" /\ y.held = pass[p].held /\ y.todo = pass[p].todo
  BY <1>3, StepDoes, PassesAre
<1>5. budget' \in [edits : Nat, publishes : Nat, errors : Nat] /\ budget'.publishes = budget.publishes
  BY <1>2, SpendDoes DEF PassesInv, PassesTypeOK
<1>6. agentRuns \subseteq agentRuns' /\ untold \subseteq untold' /\ untold' \subseteq untold \union {p}
  BY <1>2
<1>7. WorldStays
  BY <1>1, <1>5, <1>6 DEF WorldStays, PassesInv, PassesTypeOK
<1>8. Follows(pass[p], y)
  BY <1>3, <1>4, SameRunFollows
<1>9. Alters(pass, pass', p, y) /\ Alters(pulled, pulled', p, pulled[p])
  BY <1>1, <1>4, AltersOne, PassesAre
<1>10. Failure(p).run = p /\ Failure(p).status = "failed"
  BY DEF Failure
<1>11. \A r \in agentRuns' \ agentRuns : r = Failure(p)
  BY <1>2
<1>12. p \in untold' \/ Failure(p) \in agentRuns'
  BY <1>2
<1>13. Durable => Took(p, y, pulled[p], live, agentRuns', Failure(p), untold')
  <2> SUFFICES ASSUME Durable PROVE Took(p, y, pulled[p], live, agentRuns', Failure(p), untold')
    OBVIOUS
  <2>1. Took(p, pass[p], pulled[p], live, agentRuns, Failure(p), untold)
    BY DEF PassesInv, AllTook
  <2>2. Retracted(p) \in agentRuns' => Retracted(p) \in agentRuns
    BY <1>10, <1>11 DEF Retracted
  <2>3. Moderated(agentRuns', p) => Moderated(agentRuns, p)
    BY <1>10, <1>11 DEF Moderated
  <2>4. y # NoPass /\ y.step # "recordRetraction"
    BY <1>4 DEF NoPass
  <2> QED BY <1>4, <1>12, <2>1, <2>2, <2>3, <2>4 DEF Took, SameRun
<1>14. (\A r \in agentRuns' \ agentRuns : r.run = p) /\ (p \in untold' \/ \E r \in agentRuns' : r.run = p)
  BY <1>10, <1>11, <1>12
<1>15. live' = live
  BY <1>1
<1> QED BY <1>6, <1>7, <1>8, <1>9, <1>13, <1>14, <1>15, ActStep

\* An activity fails.  A single run that fails has taken nothing and has not moderated.
LEMMA FailsStep ==
  ASSUME PassesInv, NEW p \in Passes, Fails(p)
  PROVE  PassesInv'
<1> DEFINE y == IF Raised(p) = "idle" THEN NoPass ELSE [pass[p] EXCEPT !.step = Raised(p)]
<1>1. Running(p) /\ pass[p].step # "recordFailure" /\ Spend("errors")
      /\ UNCHANGED <<config, draft, live, events, agentRuns, pulled, untold>>
  BY DEF Fails
<1>2. pass' = [q \in Passes |-> IF q = p THEN y ELSE pass[q]]
  <2>1. pass' = [q \in Passes |-> IF q = p THEN y
                   ELSE IF q \in Boundary(p) /\ Running(q) THEN [pass[q] EXCEPT !.step = "done"] ELSE pass[q]]
    BY DEF Fails
  <2> HIDE DEF y
  <2> QED BY <2>1 DEF Boundary
<1>3. pass[p] # NoPass /\ pass[p] \in PassRecord /\ Stage(pass[p]) /\ pass[p].step \notin {"idle", "done"}
  BY <1>1, PassShapes DEF Running, NoPass, PassesInv
<1>4. budget' \in [edits : Nat, publishes : Nat, errors : Nat] /\ budget'.publishes = budget.publishes
  BY <1>1, SpendDoes DEF PassesInv
<1>5. WorldStays
  BY <1>1, <1>4 DEF WorldStays, PassesInv, PassesTypeOK
<1>6. Alters(pass, pass', p, y) /\ Alters(pulled, pulled', p, pulled[p])
  <2> HIDE DEF y
  <2> QED BY <1>1, <1>2, AltersOne, PassesAre DEF Alters
<1>7. Durable => Took(p, pass[p], pulled[p], live, agentRuns, Failure(p), untold)
  BY DEF PassesInv, AllTook
<1>8. CASE Raised(p) = "idle"
  <2>1. y = NoPass
    BY <1>8
  <2>2. Follows(pass[p], y) /\ y.step = "idle"
    BY <2>1 DEF Follows, PassOK, NoPass
  <2>3. Durable => pass[p].pub = 0
    BY <1>8 DEF Raised
  <2>4. Durable => pass[p].step \in Seeing
    BY <1>1, <1>3, <2>3 DEF Stage, PassRecord
  <2>5. Durable => Took(p, y, pulled[p], live, agentRuns, Failure(p), untold)
    <3> SUFFICES ASSUME Durable PROVE Took(p, y, pulled[p], live, agentRuns, Failure(p), untold)
      OBVIOUS
    <3>1. pass[p].todo # <<>> /\ pass[p].pub = 0
      BY <1>3, <2>3, <2>4 DEF Stage
    <3>2. pulled[p] = {} /\ Retracted(p) \notin agentRuns /\ ~Moderated(agentRuns, p)
      BY <1>7, <3>1 DEF Took
    <3> QED BY <2>2, <3>2 DEF Took
  <2> HIDE DEF y
  <2> QED BY <1>1, <1>5, <1>6, <2>2, <2>5, ActStep
<1>9. CASE Raised(p) # "idle"
  <2>1. /\ Raised(p) \in {"recordFailure", "recordRetraction"}
        /\ Raised(p) = "recordRetraction" => pass[p].step = "retract" /\ ~Durable
    BY <1>9 DEF Raised, AtStep
  <2>2. y = [pass[p] EXCEPT !.step = Raised(p)]
    BY <1>9
  <2>3. PICK z \in PassRecord :
             /\ Stage(z) /\ SameRun(p, z) /\ z = [pass[p] EXCEPT !.step = Raised(p)]
             /\ z.step = Raised(p) /\ z.held = pass[p].held /\ z.todo = pass[p].todo
    BY <1>3, <2>1, StepDoes, PassesAre DEF Taking
  <2>4. Follows(pass[p], z)
    BY <1>3, <2>3, SameRunFollows
  <2>5. Durable => Took(p, z, pulled[p], live, agentRuns, Failure(p), untold)
    <3>1. z.step # "done" /\ z # NoPass /\ (Durable => z.step # "recordRetraction")
      BY <2>1, <2>3 DEF NoPass
    <3> QED BY <1>7, <2>3, <3>1 DEF Took, SameRun
  <2>6. z.step # "done"
    BY <2>1, <2>3
  <2>7. Alters(pass, pass', p, z)
    BY <1>6, <2>2, <2>3
  <2> HIDE DEF y
  <2> QED BY <1>1, <1>5, <1>6, <2>4, <2>5, <2>6, <2>7, ActStep
<1> QED BY <1>8, <1>9

LEMMA LostReplyStep ==
  ASSUME PassesInv, NEW p \in Passes, LostReply(p)
  PROVE  PassesInv'
<1>1. Durable /\ Spend("errors") /\ UNCHANGED <<config, events, pass, agentRuns, untold>>
  BY DEF LostReply
<1>2. budget' \in [edits : Nat, publishes : Nat, errors : Nat] /\ budget'.publishes = budget.publishes
  BY <1>1, SpendDoes DEF PassesInv
<1>3. Alters(pass, pass', p, pass[p])
  BY <1>1, AltersOne, PassesAre
<1>4. CASE pass[p].step = "apply" /\ draft' = [draft EXCEPT ![EntryOf(p)] = Filled(draft[EntryOf(p)])]
           /\ UNCHANGED <<live, pulled>>
  <2>1. pass[p] # NoPass /\ EntryOf(p) \in Entries
    BY <1>4, PassShapes DEF EntryOf, PassRecord, NoPass, PassesInv
  <2>2. /\ draft' \in [Entries -> Draft]
        /\ \A f \in Entries : draft'[f] = draft[f] \/ draft'[f].version = draft[f].version + 1
    BY <1>4, <2>1, ApplyDoes DEF PassesInv
  <2>3. WorldStays
    BY <1>1, <1>2, <1>4, <2>2 DEF WorldStays, PassesInv, PassesTypeOK
  <2>4. Follows(pass[p], pass[p])
    BY <2>1 DEF Follows, PassesInv, PassesTypeOK
  <2>5. Alters(pulled, pulled', p, pulled[p])
    BY <1>4, AltersOne, PassesAre
  <2>6. Durable => Took(p, pass[p], pulled[p], live, agentRuns, Failure(p), untold)
    BY DEF PassesInv, AllTook
  <2>7. pass[p].step # "done" /\ live' = live /\ untold' = untold /\ agentRuns' = agentRuns
    BY <1>1, <1>4
  <2> QED BY <1>3, <2>3, <2>4, <2>5, <2>6, <2>7, ActStep
<1>5. CASE /\ pass[p].step = "retract" /\ live' = [live EXCEPT ![EntryOf(p)] = NotLive]
           /\ pulled' = [pulled EXCEPT ![p] = pulled[p] \union {live[EntryOf(p)]}]
           /\ UNCHANGED draft
  <2>1. pass[p] # NoPass /\ EntryOf(p) \in Entries /\ pass[p] \in PassRecord
    BY <1>5, PassShapes DEF EntryOf, PassRecord, NoPass, PassesInv
  <2>2. WorldStays
    BY <1>1, <1>2, <1>5, <2>1, WithdrawWorld
  <2>3. Follows(pass[p], pass[p])
    BY <2>1 DEF Follows, PassesInv, PassesTypeOK
  <2>4. Alters(pulled, pulled', p, pulled[p] \union {live[EntryOf(p)]})
    BY <1>5, AltersOne, PassesAre
  <2>5. Took(p, pass[p], pulled[p] \union {live[EntryOf(p)]}, live', agentRuns, Failure(p), untold)
    <3>1. SameRun(p, pass[p]) /\ pass[p].step \in Taking
      BY <1>5 DEF SameRun, Taking
    <3> QED BY <1>1, <1>5, <2>1, <3>1, WithdrawTook
  <2>6. pass[p].step # "done" /\ untold' = untold /\ agentRuns' = agentRuns
    BY <1>1, <1>5
  <2> QED BY <1>3, <2>2, <2>3, <2>4, <2>5, <2>6, ActStep
<1> QED BY <1>4, <1>5 DEF LostReply, AtStep, Filled

LEMMA RedeliverStep ==
  ASSUME PassesInv, NEW p \in Passes, Redeliver(p)
  PROVE  PassesInv'
<1>1. /\ Running(p) /\ pass[p].pub # 0 /\ Spend("errors")
      /\ events' = events \union {[of |-> EntryOf(p), pub |-> pass[p].pub]}
      /\ UNCHANGED <<config, draft, live, pass, agentRuns, pulled, untold>>
  BY DEF Redeliver
<1>2. pass[p] # NoPass /\ pass[p] \in PassRecord /\ pass[p].step # "done"
  BY <1>1, PassShapes DEF Running, NoPass, PassesInv
<1>3. budget' \in [edits : Nat, publishes : Nat, errors : Nat] /\ budget'.publishes = budget.publishes
  BY <1>1, SpendDoes DEF PassesInv
<1>4. Alters(pass, pass', p, pass[p]) /\ Alters(pulled, pulled', p, pulled[p])
  BY <1>1, AltersOne, PassesAre
<1>5. \A z \in events' \ events : z \in PublishEvent /\ pass[p].of = z.of /\ pass[p].pub = z.pub
  <2>1. \A z \in events' \ events : z = [of |-> pass[p].of, pub |-> pass[p].pub]
    BY <1>1 DEF EntryOf
  <2>2. pass[p].of \in Entries /\ pass[p].pub \in Nat \ {0}
    BY <1>1, <1>2 DEF PassRecord
  <2> QED BY <2>1, <2>2 DEF PublishEvent
<1>6. WorldStays
  BY <1>1, <1>2, <1>3, <1>5 DEF WorldStays, PassesInv, PassesTypeOK
<1>7. Follows(pass[p], pass[p])
  BY <1>2 DEF Follows, PassesInv, PassesTypeOK
<1>8. Durable => Took(p, pass[p], pulled[p], live, agentRuns, Failure(p), untold)
  BY DEF PassesInv, AllTook
<1>9. live' = live /\ untold' = untold /\ agentRuns' = agentRuns
  BY <1>1
<1> QED BY <1>2, <1>4, <1>6, <1>7, <1>8, <1>9, ActStep

-------------------------------------------------------------------------------
(***************************************************************************)
(* Passes: editors, starts, and the theorem.                               *)
(***************************************************************************)
\* A step that is of no pass under way.
LEMMA OthersStep ==
  ASSUME PassesInv, WorldStays, UNCHANGED <<agentRuns, pulled, untold>>, DOMAIN pass' = Passes,
         \A p \in Passes :
           \/ pass'[p] = pass[p]
           \/ /\ pass[p] = NoPass /\ Follows(pass[p], pass'[p])
              /\ pass'[p] # NoPass /\ pass'[p].step = "load"
  PROVE  PassesInv'
<1>1. \A p \in Passes : pass'[p] = pass[p] \/ Follows(pass[p], pass'[p])
  OBVIOUS
<1>2. PassesTypeOK' /\ AllVersions' /\ AllSaw' /\ AllOfPublish'
  BY <1>1, PassesAre, WorldStep
<1>3. (Durable' <=> Durable) /\ \A q : Failure(q)' = Failure(q)
  BY FailureSame DEF WorldStays
<1>4. ASSUME Durable, NEW p \in Passes
      PROVE  Took(p, pass'[p], pulled[p], live', agentRuns, Failure(p), untold)
  <2>1. Took(p, pass[p], pulled[p], live, agentRuns, Failure(p), untold)
    BY <1>4 DEF PassesInv, AllTook
  <2>2. CASE pass'[p] = pass[p]
    <3>1. pass[p] # NoPass => live'[pass[p].of] = live[pass[p].of] \/ live'[pass[p].of] = NotLive
      BY RecordShapes DEF PassesInv, PassesTypeOK, WorldStays
    <3> QED BY <2>1, <2>2, <3>1, TookStays
  <2>3. CASE pass[p] = NoPass /\ pass'[p] # NoPass /\ pass'[p].step = "load"
    <3>1. pulled[p] = {} /\ Retracted(p) \notin agentRuns /\ ~Moderated(agentRuns, p)
      BY <2>1, <2>3 DEF Took
    <3> QED BY <2>3, <3>1 DEF Took
  <2> QED BY <2>2, <2>3
<1>5. AllTook'
  BY <1>3, <1>4 DEF AllTook
<1>6. EndsTold'
  <2>1. ASSUME NEW p \in Passes, pass'[p].step = "done" PROVE p \in untold' \/ \E r \in agentRuns' : r.run = p
    <3>1. pass[p].step = "done"
      BY <2>1
    <3> QED BY <3>1 DEF PassesInv, EndsTold
  <2> QED BY <2>1 DEF EndsTold
<1> QED BY <1>2, <1>5, <1>6 DEF PassesInv

LEMMA StartStep ==
  ASSUME PassesInv,
         \/ \E chunk \in SUBSET events : StartChunk(chunk)
         \/ \E p \in Passes, x \in events : StartInline(p, x)
         \/ \E p \in Passes, e \in Entries, w \in Workflows : StartSingle(p, e, w)
  PROVE  PassesInv'
<1>1. /\ UNCHANGED <<config, draft, live, agentRuns, pulled, untold>>
      /\ events' \subseteq events /\ budget' \in [edits : Nat, publishes : Nat, errors : Nat]
      /\ budget'.publishes = budget.publishes
      /\ DOMAIN pass' = Passes
      /\ \A p \in Passes :
           \/ pass'[p] = pass[p]
           \/ /\ pass[p] = NoPass /\ PassOK(pass'[p]) /\ pass'[p] # NoPass
              /\ pass'[p].step = "load" /\ ~pass'[p].held /\ pass'[p].saw = Unseen
              /\ pass'[p].of \in Entries
              /\ pass'[p].pub # 0 => \E x \in events : pass'[p].of = x.of /\ pass'[p].pub = x.pub
  BY StartDoes, PassesAre
<1>2. WorldStays
  BY <1>1 DEF WorldStays, PassesInv, PassesTypeOK
<1> QED BY <1>1, <1>2, OthersStep DEF Follows

LEMMA SaveStep ==
  ASSUME PassesInv, NEW e \in Entries, NEW bad \in BOOLEAN, NEW gap \in BOOLEAN, Save(e, bad, gap)
  PROVE  PassesInv'
<1> DEFINE d == [version |-> draft[e].version + 1, bad |-> bad, gap |-> gap]
<1>1. Spend("edits") /\ UNCHANGED <<config, live, events, pass, agentRuns, pulled, untold>>
      /\ draft' = [draft EXCEPT ![e] = d]
  BY DEF Save
<1>2. draft \in [Entries -> Draft] /\ draft[e] \in Draft
  BY DEF PassesInv, PassesTypeOK
<1>3. d \in Draft /\ d.version = draft[e].version + 1
  BY <1>2 DEF Draft
<1> HIDE DEF d
<1>4. /\ draft' \in [Entries -> Draft]
      /\ \A f \in Entries : draft'[f] = draft[f] \/ draft'[f].version = draft[f].version + 1
  BY <1>1, <1>2, <1>3
<1>5. budget' \in [edits : Nat, publishes : Nat, errors : Nat] /\ budget'.publishes = budget.publishes
  BY <1>1, SpendDoes, PassesAre
<1>6. WorldStays
  BY <1>1, <1>4, <1>5 DEF WorldStays, PassesInv, PassesTypeOK
<1>7. DOMAIN pass' = Passes /\ \A p \in Passes : pass'[p] = pass[p]
  BY <1>1, PassesAre
<1> QED BY <1>1, <1>6, <1>7, OthersStep

LEMMA UnpublishStep ==
  ASSUME PassesInv, NEW e \in Entries, Unpublish(e)
  PROVE  PassesInv'
<1>1. /\ Spend("edits") /\ live' = [live EXCEPT ![e] = NotLive]
      /\ UNCHANGED <<config, draft, events, pass, agentRuns, pulled, untold>>
  BY DEF Unpublish
<1>2. budget' \in [edits : Nat, publishes : Nat, errors : Nat] /\ budget'.publishes = budget.publishes
  BY <1>1, SpendDoes, PassesAre
<1>3. WorldStays
  BY <1>1, <1>2, WithdrawWorld
<1>4. DOMAIN pass' = Passes /\ \A p \in Passes : pass'[p] = pass[p]
  BY <1>1, PassesAre
<1> QED BY <1>1, <1>3, <1>4, OthersStep

\* A publish has a number of its own, and what it delivers is the draft.
LEMMA PublishStep ==
  ASSUME PassesInv, NEW e \in Entries, Publish(e)
  PROVE  PassesInv'
<1> DEFINE n == budget.publishes
           snapshot == [pub |-> n, version |-> draft[e].version, bad |-> draft[e].bad]
<1>1. /\ Spend("publishes") /\ live' = [live EXCEPT ![e] = snapshot]
      /\ events' = events \union {[of |-> e, pub |-> n]}
      /\ UNCHANGED <<config, draft, pass, agentRuns, pulled, untold>>
  BY DEF Publish
<1>2. /\ budget' \in [edits : Nat, publishes : Nat, errors : Nat]
      /\ n \in Nat \ {0} /\ budget'.publishes = n - 1
  BY <1>1, SpendDoes, PassesAre
<1>3. /\ draft[e] \in Draft /\ live \in [Entries -> {NotLive} \union LiveRecord] /\ events \subseteq PublishEvent
      /\ DOMAIN pass = Passes /\ DOMAIN pulled = Passes
      /\ \A p \in Passes : PassOK(pass[p])
  BY DEF PassesInv, PassesTypeOK
<1>4. snapshot \in LiveRecord /\ snapshot.pub = n /\ snapshot.version = draft[e].version /\ snapshot.bad = draft[e].bad
  BY <1>2, <1>3 DEF LiveRecord, Draft
<1> HIDE DEF snapshot
<1>5. live' \in [Entries -> {NotLive} \union LiveRecord]
      /\ \A f \in Entries : live'[f] = IF f = e THEN snapshot ELSE live[f]
  BY <1>1, <1>3, <1>4
<1>6. PassesTypeOK'
  <2>1. [of |-> e, pub |-> n] \in PublishEvent
    BY <1>2 DEF PublishEvent
  <2> HIDE DEF n
  <2>2. events' \subseteq PublishEvent
    BY <1>1, <1>3, <2>1
  <2>3. draft' \in [Entries -> Draft] /\ config' \in Deployments
    BY <1>1 DEF PassesInv, PassesTypeOK
  <2>4. DOMAIN pass' = Passes /\ DOMAIN pulled' = Passes /\ \A p \in Passes : PassOK(pass'[p])
    BY <1>1, <1>3
  <2> QED BY <1>2, <1>5, <2>2, <2>3, <2>4 DEF PassesTypeOK
<1>7. AllVersions'
  <2> SUFFICES ASSUME NEW f \in Entries
               PROVE  Versions(draft[f], live'[f]) /\ Numbers(f, live'[f], budget'.publishes)
    BY <1>1 DEF AllVersions
  <2>1. /\ Versions(draft[f], live[f]) /\ Numbers(f, live[f], n)
        /\ draft[f].version \in Nat /\ (live[f] # NotLive => live[f].pub \in Nat)
    BY LiveShapes, PassesAre DEF PassesInv, AllVersions
  <2>2. CASE f = e
    <3>1. live'[f] = snapshot
      BY <1>5, <2>2
    <3>2. Versions(draft[f], snapshot)
      BY <1>4, <2>1, <2>2 DEF Versions, Agree
    <3>3. Numbers(f, snapshot, budget'.publishes)
      BY <1>2, <1>4 DEF Numbers
    <3> QED BY <3>1, <3>2, <3>3
  <2>3. CASE f # e
    <3>1. live'[f] = live[f]
      BY <1>5, <2>3
    <3>2. Numbers(f, live[f], budget'.publishes)
      BY <1>2, <2>1 DEF Numbers
    <3> QED BY <2>1, <3>1, <3>2
  <2> QED BY <2>2, <2>3
<1>8. AllSaw'
  <2> SUFFICES ASSUME NEW p \in Passes PROVE SawVersion(pass[p], draft, live')
    BY <1>1 DEF AllSaw
  <2>1. SawVersion(pass[p], draft, live)
    BY DEF PassesInv, AllSaw
  <2>2. pass[p] # NoPass => pass[p].of \in Entries
    BY <1>3, RecordShapes
  <2>3. Agree(pass[p].saw, draft[e]) => Agree(pass[p].saw, snapshot)
    BY <1>4 DEF Agree
  <2> QED BY <1>5, <2>1, <2>2, <2>3 DEF SawVersion
<1>9. \A x : OfPublish(x, live, n) /\ x.pub \in Nat => OfPublish(x, live', budget'.publishes) /\ x.pub # n
  <2> SUFFICES ASSUME NEW x, OfPublish(x, live, n), x.pub \in Nat
               PROVE  OfPublish(x, live', budget'.publishes) /\ x.pub # n
    OBVIOUS
  <2>1. x.pub # n
    BY <1>2 DEF OfPublish
  <2>2. x.pub # 0 => x.pub > budget'.publishes
    BY <1>2 DEF OfPublish
  <2>3. ASSUME NEW f \in Entries, x.pub # 0, live'[f] # NotLive, live'[f].pub = x.pub PROVE x.of = f
    BY <1>4, <1>5, <2>1, <2>3 DEF OfPublish
  <2> QED BY <2>1, <2>2, <2>3 DEF OfPublish
<1>10. \A p \in Passes : pass[p] # NoPass => /\ OfPublish(pass[p], live, n)
                                             /\ pass[p].of \in Entries /\ pass[p].pub \in Nat
  BY <1>3, RecordShapes DEF PassesInv, AllOfPublish
<1>11. AllOfPublish'
  <2>1. ASSUME NEW p \in Passes, pass[p] # NoPass PROVE OfPublish(pass[p], live', budget'.publishes)
    BY <1>9, <1>10, <2>1
  <2>2. ASSUME NEW x \in events PROVE OfPublish(x, live', budget'.publishes)
    <3>1. OfPublish(x, live, n) /\ x.pub \in Nat
      BY <1>3 DEF PassesInv, AllOfPublish, PublishEvent
    <3> QED BY <1>9, <3>1
  <2>3. OfPublish([of |-> e, pub |-> n], live', budget'.publishes)
    <3>1. n # budget'.publishes /\ n > budget'.publishes
      BY <1>2
    <3>2. ASSUME NEW f \in Entries, live'[f] # NotLive, live'[f].pub = n PROVE f = e
      <4>1. live[f] # NotLive => live[f].pub > n /\ live[f].pub \in Nat
        BY LiveShapes, PassesAre DEF PassesInv, AllVersions, Numbers
      <4> QED BY <1>2, <1>5, <3>2, <4>1
    <3> HIDE DEF n
    <3> QED BY <3>1, <3>2 DEF OfPublish
  <2> QED BY <1>1, <2>1, <2>2, <2>3 DEF AllOfPublish
<1>12. AllTook'
  <2> SUFFICES ASSUME Durable, NEW p \in Passes
               PROVE  Took(p, pass[p], pulled[p], live', agentRuns, Failure(p), untold)
    <3>1. (Durable' <=> Durable) /\ \A q : Failure(q)' = Failure(q)
      BY <1>1, FailureSame
    <3> QED BY <1>1, <3>1 DEF AllTook
  <2>1. Took(p, pass[p], pulled[p], live, agentRuns, Failure(p), untold)
    BY DEF PassesInv, AllTook
  <2>2. pass[p] # NoPass /\ pass[p].pub # 0 =>
          live'[pass[p].of] = live[pass[p].of] \/ live'[pass[p].of].pub # pass[p].pub
    BY <1>4, <1>5, <1>9, <1>10
  <2> QED BY <2>1, <2>2, TookStays
<1>13. EndsTold'
  BY <1>1 DEF PassesInv, EndsTold
<1> QED BY <1>6, <1>7, <1>8, <1>11, <1>12, <1>13 DEF PassesInv

LEMMA PassesInvInit == PassesInit => PassesInv
<1> SUFFICES ASSUME PassesInit PROVE PassesInv
  OBVIOUS
<1>1. /\ config \in Deployments /\ draft \in [Entries -> [version : {1}, bad : BOOLEAN, gap : BOOLEAN]]
      /\ live = [e \in Entries |-> NotLive] /\ events = {} /\ pass = [p \in Passes |-> NoPass] /\ agentRuns = {}
      /\ budget = [edits |-> MaxEdits, publishes |-> MaxPublishes, errors |-> MaxErrors]
      /\ pulled = [p \in Passes |-> {}] /\ untold = {}
  BY DEF PassesInit
<1>2. PassesTypeOK
  <2>1. draft \in [Entries -> Draft] /\ live \in [Entries -> {NotLive} \union LiveRecord]
    BY <1>1 DEF Draft
  <2>2. budget \in [edits : Nat, publishes : Nat, errors : Nat]
    BY <1>1, PassesAssumption
  <2> QED BY <1>1, <2>1, <2>2 DEF PassesTypeOK, PassOK
<1>3. AllVersions
  BY <1>1 DEF AllVersions, Versions, Numbers
<1>4. AllSaw /\ AllOfPublish
  BY <1>1 DEF AllSaw, SawVersion, AllOfPublish
<1>5. AllTook
  BY <1>1 DEF AllTook, Took, NoPass, Moderated
<1>6. EndsTold
  BY <1>1 DEF EndsTold, NoPass
<1> QED BY <1>2, <1>3, <1>4, <1>5, <1>6 DEF PassesInv

LEMMA PassesInvStep == PassesInv /\ [PassesNext]_passesVars => PassesInv'
<1> SUFFICES ASSUME PassesInv, [PassesNext]_passesVars PROVE PassesInv'
  OBVIOUS
<1>1. ASSUME NEW e \in Entries, NEW bad \in BOOLEAN, NEW gap \in BOOLEAN, Save(e, bad, gap) PROVE PassesInv'
  BY <1>1, SaveStep
<1>2. ASSUME NEW e \in Entries, Publish(e) PROVE PassesInv'
  BY <1>2, PublishStep
<1>3. ASSUME NEW e \in Entries, Unpublish(e) PROVE PassesInv'
  BY <1>3, UnpublishStep
<1>4. ASSUME NEW e \in Entries, NEW p \in Passes, NEW w \in Workflows, StartSingle(p, e, w) PROVE PassesInv'
  BY <1>4, StartStep
<1>5. CASE Start
  BY <1>5, StartStep DEF Start
<1>6. ASSUME NEW p \in Passes, PassActivity(p) PROVE PassesInv'
  <2>1. CASE LoadEntry(p)
    <3>1. /\ UNCHANGED <<config, live, events, agentRuns, budget, pulled, untold>>
          /\ draft' = draft /\ draft \in [Entries -> Draft]
      BY <2>1 DEF LoadEntry, PassesInv, PassesTypeOK
    <3> QED BY <2>1, <3>1, LoadDoes, SeesStep, PassesAre
  <2>2. CASE ApplyFields(p)
    <3>1. /\ UNCHANGED <<config, live, events, agentRuns, budget, pulled, untold>> /\ pass[p].step = "apply"
          /\ draft' = [draft EXCEPT ![EntryOf(p)] = Filled(draft[EntryOf(p)])]
          /\ pass' = [pass EXCEPT ![p] = Outcome(p, "completed")]
      BY <2>2 DEF ApplyFields, AtStep, Filled, Outcome
    <3>2. EntryOf(p) \in Entries
      BY <3>1, PassShapes, PassesAre DEF EntryOf, PassRecord
    <3>3. /\ draft' \in [Entries -> Draft]
          /\ \A f \in Entries : draft'[f] = draft[f] \/ draft'[f].version = draft[f].version + 1
      BY <3>1, <3>2, ApplyDoes, PassesAre
    <3>4. "completed" \in Statuses
      BY DEF Statuses
    <3>5. Outcome(p, "completed") \in PassRecord /\ Stage(Outcome(p, "completed")) /\ Sees(p, Outcome(p, "completed"))
      BY <3>1, <3>4, OutcomeDoes, PassesAre
    <3> QED BY <3>1, <3>3, <3>5, SeesStep
  <2>3. CASE CreateProposal(p)
    <3>1. /\ UNCHANGED <<config, live, events, agentRuns, budget, pulled, untold>> /\ pass[p].step = "propose"
          /\ draft' = draft /\ draft \in [Entries -> Draft]
          /\ pass' = [pass EXCEPT ![p] = Outcome(p, "needs_review")]
      BY <2>3 DEF CreateProposal, AtStep, Outcome, PassesInv, PassesTypeOK
    <3>2. "needs_review" \in Statuses
      BY DEF Statuses
    <3>3. /\ Outcome(p, "needs_review") \in PassRecord /\ Stage(Outcome(p, "needs_review"))
          /\ Sees(p, Outcome(p, "needs_review"))
      BY <3>1, <3>2, OutcomeDoes, PassesAre
    <3> QED BY <3>1, <3>3, SeesStep
  <2>4. CASE Classify(p)
    <3> DEFINE status == IF pass[p].saw.bad THEN "held" ELSE "completed"
    <3>1. /\ UNCHANGED <<config, live, events, agentRuns, budget, pulled, untold>> /\ pass[p].step = "classify"
          /\ draft' = draft /\ draft \in [Entries -> Draft]
          /\ pass' = [pass EXCEPT ![p] = Outcome(p, status)]
      BY <2>4 DEF Classify, AtStep, Outcome, PassesInv, PassesTypeOK
    <3>2. status \in Statuses
      BY DEF Statuses
    <3>3. status = "held" <=> pass[p].saw.bad
      OBVIOUS
    <3> HIDE DEF status
    <3>4. Outcome(p, status) \in PassRecord /\ Stage(Outcome(p, status)) /\ Sees(p, Outcome(p, status))
      BY <3>1, <3>2, <3>3, OutcomeDoes, PassesAre
    <3> QED BY <3>1, <3>4, SeesStep
  <2>5. ASSUME NEW answer \in {"none", "part", "full"}, GenerateFields(p, answer) PROVE PassesInv'
    <3>1. /\ UNCHANGED <<config, live, events, agentRuns, budget, pulled, untold>>
          /\ draft' = draft /\ draft \in [Entries -> Draft]
      BY <2>5 DEF GenerateFields, PassesInv, PassesTypeOK
    <3> QED BY <2>5, <3>1, GenerateDoes, SeesStep, PassesAre
  <2>6. CASE RecordRun(p)
    BY <2>6, RecordStep
  <2>7. CASE RetractEntry(p)
    BY <2>7, RetractStep
  <2>8. CASE RecordRetraction(p)
    BY <2>8, RecordRetractionStep
  <2>9. ASSUME NEW l \in BOOLEAN, RecordFailure(p, l) PROVE PassesInv'
    BY <2>9, RecordFailureStep
  <2> QED BY <1>6, <2>1, <2>2, <2>3, <2>4, <2>5, <2>6, <2>7, <2>8, <2>9 DEF PassActivity
<1>7. ASSUME NEW p \in Passes, Fails(p) PROVE PassesInv'
  BY <1>7, FailsStep
<1>8. ASSUME NEW p \in Passes, LostReply(p) PROVE PassesInv'
  BY <1>8, LostReplyStep
<1>9. ASSUME NEW p \in Passes, Redeliver(p) PROVE PassesInv'
  BY <1>9, RedeliverStep
<1>10. CASE UNCHANGED passesVars
  <2>1. UNCHANGED <<config, draft, live, events, pass, agentRuns, budget, pulled, untold>>
    BY <1>10 DEF passesVars
  <2>2. WorldStays
    BY <2>1 DEF WorldStays, PassesInv, PassesTypeOK
  <2>3. DOMAIN pass' = Passes /\ \A p \in Passes : pass'[p] = pass[p]
    BY <2>1, PassesAre
  <2> QED BY <2>1, <2>2, <2>3, OthersStep
<1>11. CASE Editing
  BY <1>1, <1>2, <1>3, <1>4, <1>11 DEF Editing
<1> QED BY <1>5, <1>6, <1>7, <1>8, <1>9, <1>10, <1>11 DEF PassesNext

LEMMA PassesInvariance == PassesSpec => []PassesInv
BY PassesInvInit, PassesInvStep, PTL DEF PassesSpec

LEMMA PassesInvImplies == PassesInv => PassesAccounted
<1> SUFFICES ASSUME PassesInv PROVE PassesAccounted
  OBVIOUS
<1>1. LedgerTellsRetraction
  BY DEF PassesInv, AllTook, Took, LedgerTellsRetraction
<1>2. ASSUME Durable, NEW p \in Passes, NEW s \in pulled[p] \ {NotLive}, s.version = pass[p].saw.version
      PROVE  s.bad
  BY <1>2 DEF PassesInv, AllTook, Took
<1>3. ASSUME Durable, NEW p \in Passes, NEW e \in Entries, Judged(p), p \notin untold, live[e] # NotLive,
             live[e].bad, live[e].pub = pass[p].pub, pass[p].saw.version = live[e].version
      PROVE  FALSE
  <2>1. Took(p, pass[p], pulled[p], live, agentRuns, Failure(p), untold)
    BY <1>3 DEF PassesInv, AllTook
  <2>2. pass[p].step = "done" /\ pass[p].pub # 0 /\ Moderated(agentRuns, p) /\ Failure(p) \notin agentRuns
    BY <1>3 DEF Judged, Moderated
  <2>3. pass[p] # NoPass
    BY <2>2 DEF NoPass
  <2>4. pass[p].of = e
    BY <1>3, <2>2, <2>3 DEF PassesInv, AllOfPublish, OfPublish
  <2>5. Agree(pass[p].saw, live[e])
    BY <1>3, <2>3, <2>4 DEF PassesInv, AllSaw, SawVersion
  <2>6. pass[p].saw.bad
    BY <1>3, <2>5 DEF Agree
  <2>7. pulled[p] # {}
    BY <1>3, <2>1, <2>2, <2>6 DEF Took
  <2>8. live[e] = NotLive \/ live[e].pub # pass[p].pub
    BY <2>1, <2>4, <2>7 DEF Took
  <2> QED BY <1>3, <2>8
<1>4. MisjudgedOnlyByVersion
  BY <1>2, <1>3 DEF MisjudgedOnlyByVersion
<1> QED BY <1>1, <1>4 DEF PassesInv, PassesAccounted, LedgerTellsPasses

\* The ledger tells what the passes on publish did, for any entries, passes, deployments and
\* failures.  On a durable runtime a recorded retraction took the entry out of delivery, or
\* found it out of it; a pass ends with a record, or with the failure to write one; and what
\* moderation lets stay although it is bad, or takes down although it is good, is a snapshot
\* of another version than the draft it judged.
THEOREM PassesAlwaysAccounted == PassesSpec => []PassesAccounted
BY PassesInvariance, PassesInvImplies, PTL

===============================================================================
