--------------------------- MODULE QuestionContent --------------------------
(***************************************************************************)
(* What one row of questions says: its choices and answers, the labels     *)
(* they are shown with, and its type.  Everybody who writes them meets     *)
(* here: the pipeline's Create and UpdateFromVerification, the experts'    *)
(* PUT, POST and DELETE, the importer's upsert, and the migrations, which  *)
(* RunMigrations applies anew whenever a process starts.  The rules are    *)
(* those of internal/domain (validate.go, question.go), of                 *)
(* ai/extractor/schema.go, of httpapi/dto/question.go and of               *)
(* resolveVerifiedAnswers.                                                 *)
(*                                                                         *)
(* One run of the pipeline reads one exam sheet.  A label is a pair of its *)
(* kind and the numbers of its characters; letters are counted from 0.     *)
(* Statements are atomic; Moderation has the grain within transactions.    *)
(***************************************************************************)
EXTENDS ExtractionRetry, Sequences

CONSTANTS
  Texts,        \* the texts of choices and answers
  ChoiceLists,  \* the lists of choices that occur
  AnswerLists,  \* the lists of answers that occur
  Letters,      \* letters of the alphabet, 26
  PlaceholderLabeling, \* what handleExtractionFailure leaves in ChoiceLabeling: ""
  MaxInserts,   \* bound: rows that are inserted for the question
  MaxBoots      \* bound: processes that start

ASSUME ContentAssumption ==
  /\ ChoiceLists \subseteq Seq(Texts) /\ AnswerLists \subseteq Seq(Texts)
  /\ Letters \in Nat \ {0, 1}
  /\ MaxInserts \in Nat /\ MaxBoots \in Nat

VARIABLES
  row,    \* the row of questions, in Rows
  run,    \* where the run of the pipeline is, once pc is "found"
  sheet,  \* what it has read off the image
  target, \* the id of the row it has found or created, or 0
  created,\* whether it is the run that created it
  boots

vars == <<retryVars, row, run, sheet, target, created, boots>>

Statuses  == {"absent", "moderation", "verified", "error"}
Reviews   == Statuses \ {"absent"}
Types     == {"multiple_choice", "free_response"}
Labelings == {"letter", "number"}
Writers   == {"pipeline", "expert", "import"}

Rows == [id : Nat, status : Statuses, choices : Seq(Texts), answers : Seq(Texts),
         labeling : Labelings, type : Types, linked : BOOLEAN, by : Writers]

Present == row.status # "absent"

-----------------------------------------------------------------------------
(* Labels *)

NoId       == <<"none", <<>>>>
IsDigit(l) == l[1] = "number"

\* indexToLetter: A to Z, then AA, AB and so on; letters of n, most significant
\* first, as n - 1 has them.
Column[n \in Nat] ==
  IF n = 0 THEN <<>> ELSE Append(Column[(n - 1) \div Letters], (n - 1) % Letters)

\* Mutant of IndexToLabel: after Z comes A again.
IndexToLabelWraps(i, labeling) ==
  IF labeling = "number" THEN <<"number", <<i + 1>>>>
                         ELSE <<"letter", <<i % Letters>>>>

IndexToLabel(i, labeling) ==
  IF labeling = "number" THEN <<"number", <<i + 1>>>>
                         ELSE <<"letter", Column[i + 1]>>

\* labelFor of the extractor: one character, also beyond Z.
LabelFor(i, labeling) ==
  IF labeling = "number" THEN <<"number", <<i + 1>>>> ELSE <<"letter", <<i>>>>

\* The positions of a text among the choices, from 0.
Positions(choices, text) == {i \in 0..(Len(choices) - 1) : choices[i + 1] = text}

\* idForValue: the first of them counts, and an answer that is none has no id.
IdForValue(choices, text, labeling) ==
  LET at == Positions(choices, text) IN
  IF at = {} THEN NoId
  ELSE IndexToLabel(CHOOSE i \in at : \A j \in at : i <= j, labeling)

\* DetectChoiceLabeling, of the ids of the answers the model returns
DetectChoiceLabeling(ids) ==
  IF ids # <<>> /\ IsDigit(ids[1]) THEN "number" ELSE "letter"

\* InferChoiceLabeling: the first id that is not empty decides.
InferChoiceLabeling(ids) ==
  IF \E k \in 1..Len(ids) : /\ IsDigit(ids[k])
                            /\ \A j \in 1..(k - 1) : ids[j] = NoId
  THEN "number" ELSE "letter"

\* assignChoiceIDs
ChoiceIds(choices, labeling) ==
  [k \in 1..Len(choices) |-> LabelFor(k - 1, labeling)]

-----------------------------------------------------------------------------
(* Types and drafts *)

InferQuestionType(choices) ==
  IF Len(choices) = 0 THEN "free_response" ELSE "multiple_choice"

AnswersSubsetOfChoices(answers, choices) ==
  \A k \in 1..Len(answers) : \E j \in 1..Len(choices) : answers[k] = choices[j]

\* Mutant of ValidateDraft: nothing is asked of a free response.
ValidateDraftLax(choices, answers, type) ==
  /\ Len(answers) >= 1
  /\ type = "multiple_choice" =>
       Len(choices) >= 2 /\ AnswersSubsetOfChoices(answers, choices)

\* The text of a question, which is not in the model, is not empty either.
ValidateDraft(choices, answers, type) ==
  /\ Len(answers) >= 1
  /\ type = "multiple_choice" =>
       Len(choices) >= 2 /\ AnswersSubsetOfChoices(answers, choices)
  /\ type = "free_response" => Len(choices) = 0

\* Mutant of ResolveVerifiedAnswers: an empty verdict counts as an answer.
ResolveAlways(marked, verdict, confident) ==
  IF marked # <<>> /\ ~confident THEN marked ELSE verdict

ResolveVerifiedAnswers(marked, verdict, confident) ==
  IF verdict = <<>> \/ (marked # <<>> /\ ~confident) THEN marked ELSE verdict

-----------------------------------------------------------------------------
(* The sheet and the run that reads it *)

\* What a sheet prints before a choice: a letter or a number, as a column of a
\* spreadsheet has it.  The model repeats it for a marked answer, and has no id
\* for an answer that is none of the choices.
Sheets == [choices : ChoiceLists, style : Labelings,
           answers : AnswerLists \cup {<<>>}]

SheetIds(s) ==
  [k \in 1..Len(s.answers) |-> IdForValue(s.choices, s.answers[k], s.style)]

NoSheet == [choices |-> <<>>, style |-> "letter", answers |-> <<>>]

Init ==
  /\ RetryInit
  /\ row = [id |-> 0, status |-> "absent", choices |-> <<>>, answers |-> <<>>,
            labeling |-> "letter", type |-> "multiple_choice",
            linked |-> FALSE, by |-> "pipeline"]
  /\ run = "extract"
  /\ sheet = NoSheet
  /\ target = 0 /\ created = FALSE
  /\ boots = 1

Extracting ==
  /\ run = "extract" /\ RetryStep
  /\ UNCHANGED <<row, run, sheet, target, created, boots>>

Go(from, to) == run = from /\ run' = to

ReadsSheet ==
  /\ pc = "found"
  /\ Go("extract", "exact")
  /\ sheet' \in Sheets
  /\ UNCHANGED <<retryVars, row, target, created, boots>>

FindExact ==
  /\ \/ Present  /\ Go("exact", "link")
     \/ ~Present /\ Go("exact", "create")
  /\ target' = IF Present THEN row.id ELSE 0
  /\ UNCHANGED <<retryVars, row, sheet, created, boots>>

Insert(status, choices, answers, labeling, type, by) ==
  /\ ~Present /\ row.id < MaxInserts
  /\ row' = [id |-> row.id + 1, status |-> status, choices |-> choices,
             answers |-> answers, labeling |-> labeling, type |-> type,
             linked |-> FALSE, by |-> by]

\* The labels are not stored.  What they are like is, found out twice: from the
\* answers for the choices, and from the choices for the row.
ExtractedLabeling(s) ==
  InferChoiceLabeling(ChoiceIds(s.choices, DetectChoiceLabeling(SheetIds(s))))

Create ==
  /\ Go("create", "linkNew")
  /\ Insert("moderation", sheet.choices, sheet.answers, ExtractedLabeling(sheet),
            InferQuestionType(sheet.choices), "pipeline")
  /\ target' = row.id + 1 /\ created' = TRUE
  /\ UNCHANGED <<retryVars, sheet, boots>>

\* Somebody else has inserted the question meanwhile; the run fails.
CreateLosesRace ==
  /\ Present /\ Go("create", "over")
  /\ UNCHANGED <<retryVars, row, sheet, target, created, boots>>

\* handleExtractionFailure: the run's question is a placeholder for the image, of
\* the type multiple_choice although it has no choices.  Create names every column,
\* so the CHECK on choice_labeling sees what the program leaves in it and refuses
\* the empty string; then, or when the placeholder is there from an earlier run,
\* the error is logged and the run is over.  The labeling is a parameter so that
\* nothing that is said of a row rests on this refusal.
StorePlaceholder ==
  /\ pc = "nothing"
  /\ IF ~Present /\ PlaceholderLabeling \in Labelings
     THEN /\ Go("extract", "link")
          /\ Insert("error", <<>>, <<>>, PlaceholderLabeling, "multiple_choice",
                    "pipeline")
          /\ target' = row.id + 1
     ELSE Go("extract", "over") /\ UNCHANGED <<row, target>>
  /\ UNCHANGED <<retryVars, sheet, created, boots>>

\* A row that is gone cannot be linked, and the run fails; without a placeholder to
\* link it only logs that.
Link ==
  LET there == Present /\ row.id = target IN
  /\ \/ there  /\ Go("link", "over")
     \/ there  /\ Go("linkNew", "verify")
     \/ ~there /\ run \in {"link", "linkNew"} /\ run' = "over"
  /\ row' = IF there THEN [row EXCEPT !.linked = TRUE] ELSE row
  /\ UNCHANGED <<retryVars, sheet, target, created, boots>>

\* UpdateFromVerification, if the verifier answers and the row is still there.
StoreVerdict ==
  /\ Go("verify", "over")
  /\ \/ /\ Present /\ row.id = target
        /\ \E verdict \in AnswerLists \cup {<<>>}, confident \in BOOLEAN :
             row' = [row EXCEPT !.answers =
                       ResolveVerifiedAnswers(sheet.answers, verdict, confident)]
     \/ UNCHANGED row
  /\ UNCHANGED <<retryVars, sheet, target, created, boots>>

-----------------------------------------------------------------------------
(* Experts, imports and migrations *)

others == <<retryVars, run, sheet, target, created>>

\* Mutant of Put: the type is not stored.
PutKeepsType(choices, answers, type, status) ==
  /\ Present /\ ValidateDraft(choices, answers, type)
  /\ row' = [row EXCEPT !.choices = choices, !.answers = answers,
                        !.status = status, !.by = "expert"]
  /\ UNCHANGED <<others, boots>>

\* UpdateByExpert keeps the labeling.
Put(choices, answers, type, status) ==
  /\ Present /\ ValidateDraft(choices, answers, type)
  /\ row' = [row EXCEPT !.choices = choices, !.answers = answers, !.type = type,
                        !.status = status, !.by = "expert"]
  /\ UNCHANGED <<others, boots>>

\* Mutant of Post: what the request leaves out is stored as it is.
PostAsAsked(choices, answers, type, asked) ==
  /\ ValidateDraft(choices, answers, type)
  /\ Insert("verified", choices, answers, asked, type, "expert")
  /\ UNCHANGED <<others, boots>>

Post(choices, answers, type, asked) ==
  /\ ValidateDraft(choices, answers, type)
  /\ Insert("verified", choices, answers,
            IF asked = "" THEN "letter" ELSE asked, type, "expert")
  /\ UNCHANGED <<others, boots>>

\* An unresolved row, or one without links.
Delete ==
  /\ Present /\ (row.status = "error" \/ ~row.linked)
  /\ row' = [row EXCEPT !.status = "absent", !.choices = <<>>, !.answers = <<>>,
                        !.labeling = "letter", !.type = "multiple_choice",
                        !.linked = FALSE, !.by = "pipeline"]
  /\ UNCHANGED <<others, boots>>

\* Mutant of Overwrite: the file's labeling, always "letter", is stored too.
OverwriteLabeling(choices, answers) ==
  row' = [row EXCEPT !.choices = choices, !.answers = answers,
                     !.type = InferQuestionType(choices), !.labeling = "letter",
                     !.status = "verified", !.by = "import"]

\* The update arm of UpsertFromImport
Overwrite(choices, answers) ==
  row' = [row EXCEPT !.choices = choices, !.answers = answers,
                     !.type = InferQuestionType(choices),
                     !.status = "verified", !.by = "import"]

Import(choices, answers) ==
  /\ ValidateDraft(choices, answers, InferQuestionType(choices))
  /\ \/ Present /\ Overwrite(choices, answers)
     \/ Insert("verified", choices, answers, "letter",
               InferQuestionType(choices), "import")
  /\ UNCHANGED <<others, boots>>

\* RunMigrations: of all the files only 0005 writes a row that exists.
Boot ==
  /\ boots < MaxBoots
  /\ boots' = boots + 1
  /\ row' = IF Present /\ Len(row.choices) = 0 /\ row.status # "error"
            THEN [row EXCEPT !.type = "free_response"] ELSE row
  /\ UNCHANGED others

-----------------------------------------------------------------------------
RunStep ==
  \/ Extracting \/ StorePlaceholder \/ ReadsSheet \/ FindExact
  \/ Create \/ CreateLosesRace \/ Link \/ StoreVerdict

Next ==
  \/ RunStep
  \/ \E c \in ChoiceLists, a \in AnswerLists :
       \/ \E t \in Types, s \in Reviews : Put(c, a, t, s)
       \/ \E t \in Types, l \in Labelings \cup {""} : Post(c, a, t, l)
       \/ Import(c, a)
  \/ Delete \/ Boot

Spec == Init /\ [][Next]_vars

-----------------------------------------------------------------------------
(* What a row's content promises *)

RunPcs == {"extract", "exact", "create", "link", "linkNew", "verify", "over"}

\* The values the variables take.
TypeOK ==
  /\ pc \in RetryPcs /\ attempt \in Nat
  /\ row \in Rows
  /\ run \in RunPcs
  /\ sheet \in [choices : Seq(Texts), style : Labelings, answers : Seq(Texts)]
  /\ target \in Nat /\ created \in BOOLEAN
  /\ boots \in Nat

\* What handleExtractionFailure has written, and nobody since.
IsPlaceholder == row.status = "error" /\ row.by = "pipeline"

\* A question is a free response exactly when it has no choices, whoever wrote it
\* last: the pipeline and the importer infer the type, an expert's must fit.  A
\* placeholder is none: without choices it is and stays multiple_choice, also
\* through the backfill (0005_add_question_type.sql:8-10), until an expert or an
\* import makes a question of it.
TypeFollowsChoices ==
  Present => row.type = IF IsPlaceholder THEN "multiple_choice"
                                         ELSE InferQuestionType(row.choices)

\* migrations.go runs every migration at every start: the backfill of 0005, which
\* was meant for the rows of its day, never changes a question written since.
BootKeepsContent == [][boots' # boots => row' = row]_vars

\* Answers that were marked on the sheet are shown with the labels the sheet has
\* for them as long as the choices are the sheet's, although labels are never
\* stored and a verdict, an expert or an import may have rewritten the answers.
\* (Of equal choices the first one's label is shown; and the model must do as the
\* skill says, and mark choices only.)
MarkedIdsSurvive ==
  LET distinct == \A c \in Texts : \A i, j \in Positions(sheet.choices, c) : i = j
      shown(k) == IdForValue(row.choices, row.answers[k], row.labeling) IN
  /\ created /\ Present /\ row.id = target
  /\ row.choices = sheet.choices /\ distinct
  /\ AnswersSubsetOfChoices(sheet.answers, sheet.choices)
  => \A k \in 1..Len(row.answers), m \in 1..Len(sheet.answers) :
       row.answers[k] = sheet.answers[m] => shown(k) = SheetIds(sheet)[m]

\* Two answers that are different choices are shown with different labels, also
\* beyond the last letter of the alphabet.
LabelsTellApart ==
  \A i, j \in 0..(Len(row.choices) - 1) :
    i # j => IndexToLabel(i, row.labeling) # IndexToLabel(j, row.labeling)

\* While only the pipeline has written a row, a verdict never takes away the last
\* answer it has, whatever the verifier returns and however sure it is.
VerdictsKeepAnswers ==
  [][row.by = "pipeline" /\ row'.by = "pipeline" /\ row'.id = row.id
     /\ row.answers # <<>> /\ row'.status # "absent" => row'.answers # <<>>]_vars
=============================================================================
