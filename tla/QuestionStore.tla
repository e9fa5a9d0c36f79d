---------------------------- MODULE QuestionStore ---------------------------
(***************************************************************************)
(* The tables that hold what the pipeline extracts and the experts review: *)
(* questions, session_questions and the byte columns of images             *)
(* (internal/storage/postgres/question_repo.go and image_repo.go, with the *)
(* constraints of migrations/0002_core.sql).  The operators here are the   *)
(* effects of single SQL statements; the runs of Pipeline and the experts  *)
(* of Moderation are the actors that execute them.                         *)
(*                                                                         *)
(* A question is known by its question_hash, the hash of a text of Texts.  *)
(* A hash that is deleted and inserted again gets another id, which is why *)
(* a row carries one.  An image belongs to one session and has one job, so *)
(* a link is an image and a question.  The columns that no code reads back *)
(* to decide anything (number, tags, confidence, explanation,              *)
(* verification_report, extraction_error) are left out; choices, labels    *)
(* and types are QuestionContent's subject.                                *)
(***************************************************************************)
EXTENDS Integers, FiniteSets

CONSTANTS
  Images,    \* the uploaded images, each with its one job
  Texts,     \* the normalized question texts that can be on an image
  Similar    \* pairs of texts whose embeddings are within semantic_threshold

ASSUME StoreAssumption ==
  /\ Images \cap Texts = {}
  /\ Similar \subseteq Texts \X Texts
  /\ \A p \in Similar : <<p[2], p[1]>> \in Similar

VARIABLES
  row,       \* [Texts -> Rows], the questions table by hash
  links,     \* SUBSET (Images \X Texts), session_questions
  original,  \* [Images -> BOOLEAN], images.original is not NULL
  enhanced   \* [Images -> BOOLEAN], images.enhanced is not NULL

storeVars == <<row, links, original, enhanced>>

\* Who wrote the answers column last.
Authors == {"nobody", "extractor", "verifier", "expert"}
QuestionStatuses == {"absent", "moderation", "verified", "error"}

\* What the CHECK on choice_labeling admits.
Labelings == {"letter", "number"}

Rows == [id : Nat, status : QuestionStatuses, by : Authors, embedded : BOOLEAN]

StoreTypeOK ==
  /\ row \in [Texts -> Rows]
  /\ links \in SUBSET (Images \X Texts)
  /\ original \in [Images -> BOOLEAN]
  /\ enhanced \in [Images -> BOOLEAN]

StoreInit ==
  /\ row = [q \in Texts |->
       [id |-> 0, status |-> "absent", by |-> "nobody", embedded |-> FALSE]]
  /\ links = {}
  /\ original = [i \in Images |-> TRUE]
  /\ enhanced = [i \in Images |-> FALSE]

Present(q)    == row[q].status # "absent"
HasId(q, id)  == Present(q) /\ row[q].id = id

\* Mutant of InsertQuestion: ON CONFLICT DO NOTHING, and the old row's id.
InsertQuestionOrKeep(q, status, by, embedded) ==
  row' = [row EXCEPT ![q] =
    IF Present(q) THEN @ ELSE [id |-> @.id + 1, status |-> status,
                               by |-> by, embedded |-> embedded]]

\* Create's INSERT: question_hash is UNIQUE, so it fails when the hash exists.
InsertQuestion(q, status, by, embedded) ==
  /\ ~Present(q)
  /\ row' = [row EXCEPT ![q] = [id |-> @.id + 1, status |-> status,
                                by |-> by, embedded |-> embedded]]

\* LinkToSession: ON CONFLICT DO NOTHING, and the foreign key wants the row.
LinkQuestion(i, q, id) ==
  /\ HasId(q, id)
  /\ links' = links \cup {<<i, q>>}

\* Mutant of WriteVerdict: WHERE question_hash = ...
WriteVerdictByHash(q, id, by) ==
  /\ Present(q)
  /\ row' = [row EXCEPT ![q].by = by]

\* Mutant of WriteVerdict: the verdict settles the status, too.
WriteVerdictVerifies(q, id, by) ==
  /\ HasId(q, id)
  /\ row' = [row EXCEPT ![q].by = by, ![q].status = "verified"]

\* UpdateFromVerification: WHERE id = $4, whatever the row's status.
WriteVerdict(q, id, by) ==
  /\ HasId(q, id)
  /\ row' = [row EXCEPT ![q].by = by]

\* UpdateByExpert's UPDATE, which replaces the answers too, as committed.
WriteReview(q, status) ==
  row' = [row EXCEPT ![q].status = status, ![q].by = "expert"]

\* DELETE FROM questions; the foreign key of session_questions cascades.
DeleteQuestion(q) ==
  /\ row' = [row EXCEPT ![q] = [id |-> @.id, status |-> "absent",
                               by |-> "nobody", embedded |-> FALSE]]
  /\ links' = {l \in links : l[2] # q}

Covers(t) == {t} \cup {u \in Texts : <<t, u>> \in Similar}

\* FindSemantic: the nearest embedded row within the threshold; the text itself
\* is nearer than anything else.
Nearest(t) ==
  LET near == {u \in Covers(t) : Present(u) /\ row[u].embedded}
  IN  IF t \in near THEN {t} ELSE near
=============================================================================
