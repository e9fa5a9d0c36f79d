----------------------------- MODULE Moderation -----------------------------
(***************************************************************************)
(* The experts' side of the question store, next to the pipeline that      *)
(* fills it: PUT, POST and DELETE of /questions                            *)
(* (internal/httpapi/handlers/questions.go) down to UpdateByExpert with    *)
(* cleanupImageBytesTx, Create and Delete of                               *)
(* internal/storage/postgres/question_repo.go, and the rows an import      *)
(* upserts meanwhile (question_import.go; the import itself is Importer).  *)
(*                                                                         *)
(* A PUT is one READ COMMITTED transaction: what it writes is invisible    *)
(* and locked until it commits, what it reads is whatever is committed     *)
(* when the statement runs.  A POST and a DELETE are statements without a  *)
(* transaction.  The lock on the question is taken together with the list  *)
(* of its images: until then the UPDATE has no effect anybody can see but  *)
(* the lock, and whoever does not wait for a lock may as well go first.    *)
(*                                                                         *)
(* PostgreSQL's row locks are external: a statement that would write a     *)
(* row locked by an open transaction waits, and one of the transactions    *)
(* that wait for each other in a circle is rolled back.                    *)
(***************************************************************************)
EXTENDS Pipeline

CONSTANTS
  Experts,      \* the requests of experts that may be in flight together
  MaxDeletes,   \* bound: how often one hash is deleted
  Posts         \* whether the instance exercises POST, DELETE and the import

ASSUME ModerationAssumption ==
  IsFiniteSet(Experts) /\ MaxDeletes \in Nat /\ Posts \in BOOLEAN

VARIABLES
  epc,      \* [Experts -> ExpertPcs]
  subject,  \* [Experts -> Texts \X Nat], the question: hash and id
  status,   \* [Experts -> QuestionStatuses], the status a PUT writes, or
            \*   the one a DELETE has read
  todo,     \* [Experts -> SUBSET Images], linked images not yet counted
  want,     \* [Experts -> Images \cup {NoImage}], counted, to be cleaned
  cleaned,  \* [Experts -> SUBSET Images], nulled in the open transaction
  manual    \* history: the rows POST has created, <<hash, id>>

requestVars == <<epc, subject, status, todo, want, cleaned>>
reviewVars == <<vars, requestVars, manual>>

\* put      in UpdateByExpert's transaction, past the UPDATE
\* posting  FindExact has found no duplicate, Create comes next
\* found    Delete has read the question
\* counted  Delete has counted its links and may go ahead
ExpertPcs == {"idle", "put", "posting", "found", "counted"}
Reviews == {"moderation", "verified", "error"}
Nothing == <<"none", 0>>

ReviewRequestsInit ==
  /\ epc = [e \in Experts |-> "idle"]
  /\ subject = [e \in Experts |-> Nothing]
  /\ status = [e \in Experts |-> "absent"]
  /\ todo = [e \in Experts |-> {}]
  /\ want = [e \in Experts |-> NoImage]
  /\ cleaned = [e \in Experts |-> {}]
  /\ manual = {}

ReviewInit == Init /\ ReviewRequestsInit

LockedQuestions == {subject[e][1] : e \in {x \in Experts : epc[x] = "put"}}
LockedImages    == UNION {cleaned[e] : e \in Experts}

\* Mutant of Respond: the handler returns without rolling back.
RespondWithoutRollback(e) ==
  /\ epc' = [epc EXCEPT ![e] = "idle"]
  /\ subject' = [subject EXCEPT ![e] = Nothing]
  /\ status' = [status EXCEPT ![e] = "absent"]
  /\ todo' = [todo EXCEPT ![e] = {}]
  /\ want' = [want EXCEPT ![e] = NoImage]
  /\ UNCHANGED cleaned

\* The response: the request's locks and its uncommitted writes are gone.
Respond(e) ==
  /\ epc' = [epc EXCEPT ![e] = "idle"]
  /\ subject' = [subject EXCEPT ![e] = Nothing]
  /\ status' = [status EXCEPT ![e] = "absent"]
  /\ todo' = [todo EXCEPT ![e] = {}]
  /\ want' = [want EXCEPT ![e] = NoImage]
  /\ cleaned' = [cleaned EXCEPT ![e] = {}]

-----------------------------------------------------------------------------
(* PUT /questions/:id *)

\* The UPDATE locks the row; cleanupImageBytesTx lists the linked images.
UpdateByExpert(e, q, s) ==
  /\ epc[e] = "idle"
  /\ Present(q) /\ q \notin LockedQuestions
  /\ epc' = [epc EXCEPT ![e] = "put"]
  /\ subject' = [subject EXCEPT ![e] = <<q, row[q].id>>]
  /\ status' = [status EXCEPT ![e] = s]
  /\ todo' = [todo EXCEPT ![e] = {i \in Images : <<i, q>> \in links}]
  /\ UNCHANGED <<vars, want, cleaned, manual>>

\* What the transaction sees of a question: its own write, else what is committed.
StatusSeenBy(e, q) == IF q = subject[e][1] THEN status[e] ELSE row[q].status

Unresolved(e, i) ==
  {q \in Texts : /\ <<i, q>> \in links
                     /\ StatusSeenBy(e, q) \in {"moderation", "error"}}

\* Mutant of CountImage: it counts with CountUnresolvedForImage, outside of the
\* transaction.
CountImageCommitted(e, i) ==
  /\ epc[e] = "put" /\ want[e] = NoImage /\ i \in todo[e]
  /\ todo' = [todo EXCEPT ![e] = @ \ {i}]
  /\ want' = [want EXCEPT ![e] =
       IF \A q \in Texts : <<i, q>> \in links => row[q].status = "verified"
       THEN i ELSE NoImage]
  /\ UNCHANGED <<vars, epc, subject, status, cleaned, manual>>

\* Mutant of CountImage: an image with unresolved questions is counted again.
CountImageAgain(e, i) ==
  /\ epc[e] = "put" /\ want[e] = NoImage /\ i \in todo[e]
  /\ IF Unresolved(e, i) = {}
     THEN /\ todo' = [todo EXCEPT ![e] = @ \ {i}]
          /\ want' = [want EXCEPT ![e] = i]
     ELSE UNCHANGED <<todo, want>>
  /\ UNCHANGED <<vars, epc, subject, status, cleaned, manual>>

CountImage(e, i) ==
  /\ epc[e] = "put" /\ want[e] = NoImage /\ i \in todo[e]
  /\ todo' = [todo EXCEPT ![e] = @ \ {i}]
  /\ want' = [want EXCEPT ![e] = IF Unresolved(e, i) = {} THEN i ELSE NoImage]
  /\ UNCHANGED <<vars, epc, subject, status, cleaned, manual>>

\* The UPDATE of the image waits while another transaction has cleaned it.
CleanImage(e) ==
  /\ epc[e] = "put" /\ want[e] \in Images \ LockedImages
  /\ cleaned' = [cleaned EXCEPT ![e] = @ \cup {want[e]}]
  /\ want' = [want EXCEPT ![e] = NoImage]
  /\ UNCHANGED <<vars, epc, subject, status, todo, manual>>

\* Mutant of CommitUpdate: only the original bytes are nulled.
CommitKeepsEnhanced(e) ==
  /\ epc[e] = "put" /\ todo[e] = {} /\ want[e] = NoImage
  /\ WriteReview(subject[e][1], status[e])
  /\ original' = [i \in Images |-> original[i] /\ i \notin cleaned[e]]
  /\ Respond(e)
  /\ UNCHANGED <<links, enhanced, queueVars, localVars, pc, faults, manual>>

CommitUpdate(e) ==
  /\ epc[e] = "put" /\ todo[e] = {} /\ want[e] = NoImage
  /\ WriteReview(subject[e][1], status[e])
  /\ original' = [i \in Images |-> original[i] /\ i \notin cleaned[e]]
  /\ enhanced' = [i \in Images |-> enhanced[i] /\ i \notin cleaned[e]]
  /\ Respond(e)
  /\ UNCHANGED <<links, queueVars, localVars, pc, faults, manual>>

\* External: whom the UPDATE of an image waits for.
WaitsFor(e, f) == epc[e] = "put" /\ want[e] \in cleaned[f]

\* External: an open transaction has cleaned an image at most once, so each
\* waits for one other; where everybody waits and is waited for, it is in a circle.
InCircle(e) ==
  \E S \in SUBSET Experts :
    /\ e \in S
    /\ \A x \in S : (\E y \in S : WaitsFor(x, y)) /\ (\E y \in S : WaitsFor(y, x))

DeadlockVictim(e) ==
  /\ InCircle(e)
  /\ Respond(e)
  /\ UNCHANGED <<vars, manual>>

-----------------------------------------------------------------------------
(* POST /questions and DELETE /questions/:id *)

PostLooks(e, t) ==
  /\ epc[e] = "idle" /\ Posts
  /\ ~Present(t)
  /\ epc' = [epc EXCEPT ![e] = "posting"]
  /\ subject' = [subject EXCEPT ![e] = <<t, 0>>]
  /\ UNCHANGED <<vars, status, todo, want, cleaned, manual>>

\* Embedded or not; whether the tags could be linked does not change the row.
PostInserts(e) ==
  LET t == subject[e][1] IN
  /\ epc[e] = "posting"
  /\ \E embedded \in BOOLEAN : InsertQuestion(t, "verified", "expert", embedded)
  /\ manual' = manual \cup {<<t, row'[t].id>>}
  /\ Respond(e)
  /\ UNCHANGED <<links, original, enhanced, queueVars, localVars, pc, faults>>

\* The hash was inserted since PostLooks: the INSERT fails, the answer is a 500.
PostLosesRace(e) ==
  /\ epc[e] = "posting" /\ Present(subject[e][1])
  /\ Respond(e)
  /\ UNCHANGED <<vars, manual>>

DeleteFinds(e, q) ==
  /\ epc[e] = "idle" /\ Posts
  /\ Present(q) /\ row[q].id <= MaxDeletes
  /\ epc' = [epc EXCEPT ![e] = "found"]
  /\ subject' = [subject EXCEPT ![e] = <<q, row[q].id>>]
  /\ status' = [status EXCEPT ![e] = row[q].status]
  /\ UNCHANGED <<vars, todo, want, cleaned, manual>>

\* The question is still the one that was read, and linked.
InUse(e) ==
  /\ HasId(subject[e][1], subject[e][2])
  /\ \E i \in Images : <<i, subject[e][1]>> \in links

\* A linked question may go only if its status, as read before, is "error".
DeleteCounts(e) ==
  /\ epc[e] = "found"
  /\ IF InUse(e) /\ status[e] # "error"
     THEN Respond(e)
     ELSE /\ epc' = [epc EXCEPT ![e] = "counted"]
          /\ UNCHANGED <<subject, status, todo, want, cleaned>>
  /\ UNCHANGED <<vars, manual>>

\* Mutant of DeleteRuns: the links are left behind.
DeleteLeavesLinks(e) ==
  /\ epc[e] = "counted"
  /\ HasId(subject[e][1], subject[e][2])
  /\ subject[e][1] \notin LockedQuestions
  /\ row' = [row EXCEPT ![subject[e][1]].status = "absent"]
  /\ Respond(e)
  /\ UNCHANGED <<links, original, enhanced, queueVars, localVars, pc, faults,
                 manual>>

DeleteRuns(e) ==
  /\ epc[e] = "counted"
  /\ \/ /\ HasId(subject[e][1], subject[e][2])
        /\ subject[e][1] \notin LockedQuestions
        /\ DeleteQuestion(subject[e][1])
     \/ ~HasId(subject[e][1], subject[e][2]) /\ UNCHANGED <<row, links>>
  /\ Respond(e)
  /\ UNCHANGED <<original, enhanced, queueVars, localVars, pc, faults, manual>>

-----------------------------------------------------------------------------
(* UpsertFromImport, for one row of a file *)

\* A known question is overwritten in place, whoever is working on it, as soon
\* as no PUT holds its row; images are left alone.
ImportRow(t, embedded) ==
  /\ Posts
  /\ \/ /\ InsertQuestion(t, "verified", "expert", embedded)
        /\ manual' = manual \cup {<<t, row'[t].id>>}
     \/ /\ Present(t) /\ t \notin LockedQuestions
        /\ row' = [row EXCEPT ![t].status = "verified", ![t].by = "expert",
                              ![t].embedded = @ \/ embedded]
        /\ UNCHANGED manual
  /\ UNCHANGED <<links, original, enhanced, queueVars, localVars, pc, faults,
                 requestVars>>

-----------------------------------------------------------------------------
\* The client goes away or a statement fails: an open transaction rolls back.
Abandon(e) ==
  /\ epc[e] # "idle"
  /\ Respond(e)
  /\ UNCHANGED <<vars, manual>>

UpdateStep(e) ==
  \/ \E i \in Images : CountImage(e, i)
  \/ CleanImage(e) \/ CommitUpdate(e) \/ DeadlockVictim(e)

ExpertStep(e) ==
  \/ \E q \in Texts, s \in Reviews : UpdateByExpert(e, q, s)
  \/ UpdateStep(e)
  \/ \E t \in Texts : PostLooks(e, t)
  \/ PostInserts(e) \/ PostLosesRace(e)
  \/ \E q \in Texts : DeleteFinds(e, q)
  \/ DeleteCounts(e) \/ DeleteRuns(e) \/ Abandon(e)

\* A run waits where it updates a row that a PUT has locked: UpdateEnhanced
\* and UpdateFromVerification.  Inserting a link does not wait.
NotBlocked(w) ==
  /\ pc[w] = "enhance" /\ loaded[w] /\ pc'[w] = "extract" =>
       img[w] \notin LockedImages
  /\ pc[w] = "verdicts" =>
       \A q \in newQs[w] \ newQs'[w] : pc'[w] = "idle" \/ q[1] \notin LockedQuestions

WorkerStep(w) ==
  /\ RunStep(w) \/ \E i \in Images : Claim(w, i)
  /\ NotBlocked(w)
  /\ UNCHANGED <<requestVars, manual>>

\* The row has been deleted since the run found or created it: the foreign key
\* refuses the link, and the run ends in an error.
LinkFindsNoRow(w) ==
  /\ Goto(w, "link", "failing")
  /\ ~HasId(target[w][1], target[w][2])
  /\ UNCHANGED <<storeVars, queueVars, localVars, faults, requestVars, manual>>

QueueStep(i) == (Upload(i) \/ Reap(i)) /\ UNCHANGED <<requestVars, manual>>

ReviewNext ==
  \/ \E i \in Images : QueueStep(i)
  \/ \E w \in Workers : WorkerStep(w) \/ LinkFindsNoRow(w)
  \/ \E e \in Experts : ExpertStep(e)
  \/ \E t \in Texts, embedded \in BOOLEAN : ImportRow(t, embedded)

ReviewSpec == ReviewInit /\ [][ReviewNext]_reviewVars

\* Every statement of an open transaction returns once it need not wait, and
\* PostgreSQL serves those that wait for a row in turn, so none waits forever
\* for a lock that is released again and again.
ReviewFairness ==
  \A e \in Experts : /\ WF_reviewVars(UpdateStep(e))
                     /\ SF_reviewVars(CleanImage(e))

-----------------------------------------------------------------------------
(* What moderation promises *)

\* The values the variables take, and that every link has its question.
ReviewTypeOK ==
  /\ StoreTypeOK
  /\ epc \in [Experts -> ExpertPcs]
  /\ subject \in [Experts -> (Texts \X Nat) \cup {Nothing}]
  /\ status \in [Experts -> QuestionStatuses]
  /\ todo \in [Experts -> SUBSET Images] /\ cleaned \in [Experts -> SUBSET Images]
  /\ want \in [Experts -> Images \cup {NoImage}]
  /\ manual \subseteq Texts \X Nat
  /\ \A l \in links : Present(l[2])
  /\ \A e \in Experts :
       /\ epc[e] = "put" => HasId(subject[e][1], subject[e][2])
       /\ epc[e] # "put" => todo[e] \cup cleaned[e] = {} /\ want[e] = NoImage

\* No verdict of the pipeline ever lands on a question an expert wrote by hand,
\* also when the hash was extracted, deleted and posted while the verifier ran.
ManualAnswersStay ==
  \A m \in manual : HasId(m[1], m[2]) => row[m[1]].by = "expert"

\* Once an image is cleaned, its only run does not bring bytes back: it has
\* stored the enhanced ones before it linked anything an expert could verify.
CleanedStaysClean ==
  \A i \in Images : ~original[i] /\ tries[i] <= 1 => ~enhanced[i]

\* A PUT that leaves its question unresolved never touches bytes, even when
\* the question, as committed, was the verified one that completed an image.
ReopeningKeepsBytes ==
  \A e \in Experts :
    cleaned[e] # {} \/ want[e] # NoImage => status[e] = "verified"

\* The questions as their readers know them, and the verdicts under way.
question == [q \in Texts |-> [version |-> row[q].id, status |-> row[q].status,
                              author |-> row[q].by]]
open     == UNION {newQs[w] : w \in Workers}

Life == INSTANCE QuestionLife WITH Questions <- Texts

\* Retried runs, deletions, imports and reviews under way included, a question
\* only moves along its life: one verdict for what was extracted, none for what
\* an expert entered, and a verdict leaves the status alone.
ImplementsQuestionLife == Life!Spec

\* README.md:359 does hold from the moment no verdict is on its way: what an
\* expert has decided is decided by experts until the question is deleted.
DecidedStaysDecided == Life!DecidedStays

\* Every PUT is answered, also when several clean the same images and wait for
\* each other's locks.
EveryUpdateEnds == \A e \in Experts : epc[e] = "put" ~> epc[e] = "idle"

\* Whatever PUTs are under way, one of them may go on: its next statement has no
\* lock to wait for, or its transaction is one PostgreSQL may roll back.
NoUpdateIsStuck ==
  (\E e \in Experts : epc[e] = "put") =>
    \E e \in Experts :
      epc[e] = "put" /\ (want[e] \notin LockedImages \/ InCircle(e))

\* README.md:359, on the status verified: "Expert-confirmed; terminal"
VerifiedAnswersAreExperts ==
  \A q \in Texts : row[q].status = "verified" => row[q].by = "expert"
=============================================================================
