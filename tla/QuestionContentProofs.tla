------------------------ MODULE QuestionContentProofs -----------------------
(***************************************************************************)
(* Proofs about QuestionContent for every set of texts, all lists of       *)
(* choices and answers, every alphabet and every number of attempts.  What *)
(* a recursive label says of its number is proved from the least number    *)
(* of which it would not hold.                                             *)
(***************************************************************************)
EXTENDS QuestionContent, RecursionLemmas, SequenceTheorems

-----------------------------------------------------------------------------
(* The inductive invariant *)

\* Ids are counted upwards, and the run knows one only once it has found or
\* created the row.
IdsInv ==
  /\ target <= row.id
  /\ run \in {"extract", "exact", "create"} => ~created

\* The row that the run has created has the labeling it was created with.
LabelingInv ==
  created /\ Present /\ row.id = target =>
    row.labeling = ExtractedLabeling(sheet)

\* Until the verdict the answers are those that were marked, or somebody else has
\* written the row.
MarkedInv ==
  /\ run \in {"linkNew", "verify"} /\ Present
  /\ row.id = target /\ row.by = "pipeline"
  => row.answers = sheet.answers

ContentInv ==
  TypeOK /\ TypeFollowsChoices /\ IdsInv /\ LabelingInv /\ MarkedInv

-----------------------------------------------------------------------------
(* Facts about the operators *)

LEMMA ListTypes ==
  /\ <<>> \in Seq(Texts)
  /\ \A c \in ChoiceLists : c \in Seq(Texts) /\ Len(c) \in Nat
  /\ \A a \in AnswerLists : a \in Seq(Texts) /\ Len(a) \in Nat
  BY ContentAssumption

LEMMA LabelingTypes ==
  ASSUME NEW s
  PROVE  ExtractedLabeling(s) \in Labelings
  BY DEF ExtractedLabeling, InferChoiceLabeling, Labelings

LEMMA InferredTypes ==
  ASSUME NEW c
  PROVE  InferQuestionType(c) \in Types
  BY DEF InferQuestionType, Types

\* What passes the validation has the type the pipeline would have inferred.
LEMMA ValidTypes ==
  ASSUME NEW c \in Seq(Texts), NEW a, NEW t \in Types, ValidateDraft(c, a, t)
  PROVE  t = InferQuestionType(c)
  BY DEF ValidateDraft, InferQuestionType, Types

\* A resolved list is one of the two, and it is empty only if both are.
LEMMA ResolvedFacts ==
  ASSUME NEW marked \in Seq(Texts), NEW verdict \in AnswerLists \cup {<<>>},
         NEW confident \in BOOLEAN
  PROVE  /\ ResolveVerifiedAnswers(marked, verdict, confident) \in Seq(Texts)
         /\ marked # <<>> =>
              ResolveVerifiedAnswers(marked, verdict, confident) # <<>>
  BY ListTypes DEF ResolveVerifiedAnswers

\* The labeling found from an answer that was marked is the sheet's.
LEMMA LabelingIsStyle ==
  ASSUME NEW s \in [choices : Seq(Texts), style : Labelings, answers : Seq(Texts)],
         AnswersSubsetOfChoices(s.answers, s.choices), Len(s.answers) > 0
  PROVE  ExtractedLabeling(s) = s.style
<1> DEFINE ids == SheetIds(s)
           found == DetectChoiceLabeling(ids)
<1>1. ASSUME NEW i, NEW l \in Labelings
      PROVE  /\ IsDigit(IndexToLabel(i, l)) <=> l = "number"
             /\ IsDigit(LabelFor(i, l)) <=> l = "number"
             /\ LabelFor(i, l) # NoId
  BY <1>1 DEF IsDigit, IndexToLabel, LabelFor, Labelings, NoId
<1>2. PICK j \in 1..Len(s.choices) : s.answers[1] = s.choices[j]
  BY DEF AnswersSubsetOfChoices
<1>3. IsDigit(ids[1]) <=> s.style = "number"
  <2>1. j - 1 \in Positions(s.choices, s.answers[1])
    BY <1>2 DEF Positions
  <2>2. ids[1] = IdForValue(s.choices, s.answers[1], s.style)
    BY DEF SheetIds
  <2>3. \E i : ids[1] = IndexToLabel(i, s.style)
    BY <2>1, <2>2 DEF IdForValue
  <2> QED BY <1>1, <2>3
<1>4. ids # <<>>
  <2>1. Len(ids) = Len(s.answers)  BY DEF SheetIds
  <2> QED BY <2>1
<1>5. found = s.style
  BY <1>3, <1>4 DEF DetectChoiceLabeling, Labelings
<1> HIDE DEF found, ids
<1> DEFINE labels == ChoiceIds(s.choices, s.style)
<1>6. Len(s.choices) \in Nat /\ Len(s.choices) > 0  BY <1>2
<1>7. Len(labels) = Len(s.choices)  BY <1>6 DEF ChoiceIds
<1>8. \A k \in 1..Len(s.choices) : labels[k] = LabelFor(k - 1, s.style)
  BY DEF ChoiceIds
<1> HIDE DEF labels
<1>9. \A k \in 1..Len(labels) : IsDigit(labels[k]) <=> s.style = "number"
  BY <1>1, <1>7, <1>8
<1>10. InferChoiceLabeling(labels) = s.style
  <2>1. CASE s.style = "number"
    <3>1. 1 \in 1..Len(labels) /\ \A m \in 1..(1 - 1) : labels[m] = NoId
      BY <1>6, <1>7
    <3> QED BY <1>9, <2>1, <3>1 DEF InferChoiceLabeling
  <2>2. CASE s.style = "letter"
    BY <1>9, <2>2 DEF InferChoiceLabeling
  <2> QED BY <2>1, <2>2 DEF Labelings
<1> QED BY <1>5, <1>10 DEF ExtractedLabeling, labels, found, ids

-----------------------------------------------------------------------------
(* Steps *)

LEMMA InsertKeepsInv ==
  ASSUME ContentInv, NEW status \in Reviews, NEW c \in Seq(Texts),
         NEW a \in Seq(Texts), NEW l \in Labelings, NEW t \in Types,
         NEW by \in Writers, Insert(status, c, a, l, t, by)
  PROVE  /\ row' \in Rows /\ row'.id = row.id + 1 /\ row'.id > target
         /\ row'.status # "absent" /\ row'.choices = c /\ row'.type = t
         /\ row'.by = by /\ row'.labeling = l /\ row'.answers = a
<1>1. row.id \in Nat /\ target \in Nat /\ target <= row.id
  BY DEF ContentInv, TypeOK, IdsInv, Rows
<1> QED BY <1>1 DEF Insert, Rows, Reviews

LEMMA InvInit == Init => ContentInv
<1> SUFFICES ASSUME Init PROVE ContentInv  OBVIOUS
<1>1. TypeOK
  BY ListTypes
  DEF Init, RetryInit, TypeOK, RetryPcs, Rows, Statuses, Labelings, Types,
      Writers, RunPcs, NoSheet
<1> QED
  BY <1>1
  DEF Init, ContentInv, TypeFollowsChoices, IdsInv, LabelingInv, MarkedInv, Present

\* The loop of attempts touches none of the rows.
LEMMA ExtractingKeepsInv == ContentInv /\ Extracting => ContentInv'
<1> SUFFICES ASSUME ContentInv, Extracting PROVE ContentInv'  OBVIOUS
<1>1. pc' \in RetryPcs /\ attempt' \in Nat
  BY DEF ContentInv, TypeOK, RetryPcs, Extracting, RetryStep, StartExtraction,
         ExtractReturns, ExtractBacksOff, WakesUp, ExtractionCanceled
<1>2. UNCHANGED <<row, run, sheet, target, created, boots>>  BY DEF Extracting
<1> QED
  BY <1>1, <1>2
  DEF ContentInv, TypeOK, TypeFollowsChoices, IdsInv, LabelingInv, MarkedInv,
      Present, IsPlaceholder

\* The placeholder, where the CHECK admits it, is a row the run has not created as
\* a question, and is multiple_choice.
LEMMA PlaceholderKeepsInv == ContentInv /\ StorePlaceholder => ContentInv'
<1> SUFFICES ASSUME ContentInv, StorePlaceholder PROVE ContentInv'  OBVIOUS
<1>0. /\ TypeOK /\ TypeFollowsChoices /\ IdsInv /\ LabelingInv /\ MarkedInv
      /\ row.id \in Nat
  BY DEF ContentInv, TypeOK, Rows
<1>1. /\ run = "extract" /\ ~created /\ run' \in {"link", "over"}
      /\ UNCHANGED <<pc, attempt, wait, sheet, created, boots>>
  BY <1>0 DEF StorePlaceholder, Go, IdsInv, retryVars
<1>2. CASE ~Present /\ PlaceholderLabeling \in Labelings
  <2>1. Insert("error", <<>>, <<>>, PlaceholderLabeling, "multiple_choice", "pipeline")
    BY <1>2 DEF StorePlaceholder
  <2>2. /\ "error" \in Reviews /\ "pipeline" \in Writers
        /\ "multiple_choice" \in Types /\ <<>> \in Seq(Texts)
    BY ListTypes DEF Reviews, Statuses, Writers, Types
  <2>3. /\ row' \in Rows /\ row'.id = row.id + 1 /\ row'.by = "pipeline"
        /\ row'.type = "multiple_choice"
    BY <1>2, <2>1, <2>2, InsertKeepsInv
  <2>4. row'.status = "error"  BY <2>1 DEF Insert
  <2>5. target' = row.id + 1  BY <1>2 DEF StorePlaceholder
  <2> QED
    BY <1>0, <1>1, <2>3, <2>4, <2>5
    DEF ContentInv, TypeOK, TypeFollowsChoices, IsPlaceholder, IdsInv, LabelingInv,
        MarkedInv, RunPcs
<1>3. CASE ~(~Present /\ PlaceholderLabeling \in Labelings)
  <2>1. UNCHANGED <<row, target>>  BY <1>3 DEF StorePlaceholder
  <2> QED
    BY <1>0, <1>1, <2>1
    DEF ContentInv, TypeOK, TypeFollowsChoices, IsPlaceholder, IdsInv, LabelingInv,
        MarkedInv, RunPcs, Present
<1> QED BY <1>2, <1>3

LEMMA RunStepKeepsInv == ContentInv /\ RunStep => ContentInv'
<1> SUFFICES ASSUME ContentInv, RunStep PROVE ContentInv'  OBVIOUS
<1>0. TypeOK /\ TypeFollowsChoices /\ IdsInv /\ LabelingInv /\ MarkedInv
  BY DEF ContentInv
<1>00. row \in Rows /\ row.id \in Nat /\ target \in Nat
  BY <1>0 DEF TypeOK, Rows
<1> USE DEF Go, RunPcs, Present, IsPlaceholder
<1>1. CASE ReadsSheet
  <2>1. sheet' \in [choices : Seq(Texts), style : Labelings, answers : Seq(Texts)]
    BY <1>1, ListTypes DEF ReadsSheet, Sheets
  <2> QED
    BY <1>0, <1>1, <2>1
    DEF ReadsSheet, ContentInv, TypeOK, TypeFollowsChoices, IdsInv, LabelingInv,
        MarkedInv, retryVars
<1>2. CASE FindExact
  BY <1>0, <1>00, <1>2
  DEF FindExact, ContentInv, TypeOK, TypeFollowsChoices, IdsInv, LabelingInv,
      MarkedInv, retryVars
<1>3. CASE Create
  <2>1. Insert("moderation", sheet.choices, sheet.answers, ExtractedLabeling(sheet),
               InferQuestionType(sheet.choices), "pipeline")
    BY <1>3 DEF Create
  <2>2. /\ row' \in Rows /\ row'.id = row.id + 1 /\ row'.status # "absent"
        /\ row'.choices = sheet.choices
        /\ row'.type = InferQuestionType(sheet.choices)
        /\ row'.labeling = ExtractedLabeling(sheet)
        /\ row'.answers = sheet.answers
        /\ row'.status = "moderation"
    <3>1. /\ "moderation" \in Reviews /\ "pipeline" \in Writers
          /\ sheet.choices \in Seq(Texts) /\ sheet.answers \in Seq(Texts)
      BY <1>0 DEF Reviews, Statuses, Writers, TypeOK
    <3>2. row'.status = "moderation"  BY <2>1 DEF Insert
    <3> QED BY <2>1, <3>1, <3>2, LabelingTypes, InferredTypes, InsertKeepsInv
  <2>3. /\ run' = "linkNew" /\ target' = row.id + 1 /\ created' = TRUE
        /\ UNCHANGED <<pc, attempt, wait, sheet, boots>>
    BY <1>3 DEF Create, retryVars
  <2>4. TypeOK'  BY <1>0, <1>00, <2>2, <2>3 DEF TypeOK
  <2> QED
    BY <1>00, <2>2, <2>3, <2>4
    DEF ContentInv, TypeFollowsChoices, IdsInv, LabelingInv, MarkedInv
<1>4. CASE CreateLosesRace
  BY <1>0, <1>4
  DEF CreateLosesRace, ContentInv, TypeOK, TypeFollowsChoices, IdsInv, LabelingInv,
      MarkedInv, retryVars
<1>5. CASE Link
  <2>1. /\ row' \in Rows /\ row'.id = row.id /\ row'.status = row.status
        /\ row'.choices = row.choices /\ row'.answers = row.answers
        /\ row'.labeling = row.labeling /\ row'.type = row.type
        /\ row'.by = row.by
    BY <1>00, <1>5 DEF Link, Rows
  <2>2. /\ run' \in {"over", "verify"}
        /\ run' = "verify" => run = "linkNew"
        /\ UNCHANGED <<pc, attempt, wait, sheet, target, created, boots>>
    BY <1>5 DEF Link, retryVars
  <2> QED
    BY <1>0, <2>1, <2>2
    DEF ContentInv, TypeOK, TypeFollowsChoices, IdsInv, LabelingInv, MarkedInv
<1>6. CASE StoreVerdict
  <2>1. /\ row' \in Rows /\ row'.id = row.id /\ row'.status = row.status
        /\ row'.choices = row.choices /\ row'.labeling = row.labeling
        /\ row'.type = row.type /\ row'.by = row.by
    <3>1. ASSUME NEW verdict \in AnswerLists \cup {<<>>}, NEW confident \in BOOLEAN
          PROVE  ResolveVerifiedAnswers(sheet.answers, verdict, confident)
                   \in Seq(Texts)
      BY <1>0, ResolvedFacts DEF TypeOK
    <3> QED BY <1>00, <1>6, <3>1 DEF StoreVerdict, Rows
  <2>2. run' = "over" /\ UNCHANGED <<pc, attempt, wait, sheet, target, created, boots>>
    BY <1>6 DEF StoreVerdict, retryVars
  <2> QED
    BY <1>0, <2>1, <2>2
    DEF ContentInv, TypeOK, TypeFollowsChoices, IdsInv, LabelingInv, MarkedInv
<1> QED
  BY <1>1, <1>2, <1>3, <1>4, <1>5, <1>6, ExtractingKeepsInv, PlaceholderKeepsInv
  DEF RunStep

\* What somebody else writes keeps the id and the labeling, or is a row the run
\* does not know; and it is never the pipeline's.
LEMMA OthersKeepInv ==
  ASSUME ContentInv, row' \in Rows, boots' \in Nat, UNCHANGED others,
         TypeFollowsChoices',
         \/ /\ row'.id = row.id /\ row'.labeling = row.labeling
            /\ Present' => Present
            /\ \/ row'.by # "pipeline"
               \/ row'.answers = row.answers /\ row'.by = row.by
         \/ row'.id > row.id
         \/ row'.id = row.id /\ ~Present'
  PROVE  ContentInv'
<1>1. row.id \in Nat /\ row'.id \in Nat /\ target \in Nat
  BY DEF ContentInv, TypeOK, Rows
<1>2. UNCHANGED <<pc, attempt, wait, run, sheet, target, created>>
  BY DEF others, retryVars
<1>3. TypeOK'  BY <1>2 DEF ContentInv, TypeOK
<1>4. IdsInv'  BY <1>1, <1>2 DEF ContentInv, IdsInv
<1>5. row'.id > row.id => row'.id # target'
  BY <1>1, <1>2 DEF ContentInv, IdsInv
<1>6. LabelingInv'  BY <1>2, <1>5 DEF ContentInv, LabelingInv
<1>7. MarkedInv'  BY <1>2, <1>5 DEF ContentInv, MarkedInv
<1> QED BY <1>3, <1>4, <1>6, <1>7 DEF ContentInv

LEMMA PutKeepsInv ==
  ASSUME ContentInv, NEW c \in ChoiceLists, NEW a \in AnswerLists,
         NEW t \in Types, NEW s \in Reviews, Put(c, a, t, s)
  PROVE  ContentInv'
<1>1. /\ row \in Rows /\ boots \in Nat
      /\ c \in Seq(Texts) /\ a \in Seq(Texts)
  BY ListTypes DEF ContentInv, TypeOK
<1>2. /\ row' \in Rows /\ row'.id = row.id /\ row'.labeling = row.labeling
      /\ row'.by = "expert" /\ row'.type = t /\ row'.choices = c
      /\ Present
  BY <1>1 DEF Put, Rows, Reviews, Writers, Types
<1>3. t = InferQuestionType(c)  BY <1>1, ValidTypes DEF Put
<1>4. TypeFollowsChoices'  BY <1>2, <1>3 DEF TypeFollowsChoices, IsPlaceholder
<1>5. UNCHANGED others /\ boots' = boots  BY DEF Put
<1> QED BY <1>1, <1>2, <1>4, <1>5, OthersKeepInv

\* A row that somebody else inserts is none the run knows.
LEMMA OtherInsertKeepsInv ==
  ASSUME ContentInv, boots' = boots, UNCHANGED others,
         NEW c \in Seq(Texts), NEW a \in Seq(Texts), NEW l \in Labelings,
         NEW by \in Writers,
         Insert("verified", c, a, l, InferQuestionType(c), by)
  PROVE  ContentInv'
<1>1. row.id \in Nat /\ boots \in Nat /\ "verified" \in Reviews
  BY DEF ContentInv, TypeOK, Rows, Reviews, Statuses
<1>2. /\ row' \in Rows /\ row'.id = row.id + 1 /\ row'.choices = c
      /\ row'.type = InferQuestionType(c)
  BY <1>1, InferredTypes, InsertKeepsInv
<1>3. TypeFollowsChoices'
  <2>1. row'.status = "verified"  BY DEF Insert
  <2> QED BY <1>2, <2>1 DEF TypeFollowsChoices, IsPlaceholder
<1>4. row'.id > row.id  BY <1>1, <1>2
<1> QED BY <1>1, <1>2, <1>3, <1>4, OthersKeepInv

LEMMA PostKeepsInv ==
  ASSUME ContentInv, NEW c \in ChoiceLists, NEW a \in AnswerLists,
         NEW t \in Types, NEW asked \in Labelings \cup {""}, Post(c, a, t, asked)
  PROVE  ContentInv'
<1> DEFINE l == IF asked = "" THEN "letter" ELSE asked
<1>1. /\ c \in Seq(Texts) /\ a \in Seq(Texts) /\ l \in Labelings
      /\ "expert" \in Writers
  BY ListTypes DEF Labelings, Writers
<1>2. Insert("verified", c, a, l, t, "expert")  BY DEF Post
<1>3. t = InferQuestionType(c)  BY <1>1, ValidTypes DEF Post
<1>4. UNCHANGED others /\ boots' = boots  BY DEF Post
<1> HIDE DEF l
<1> QED BY <1>1, <1>2, <1>3, <1>4, OtherInsertKeepsInv

LEMMA ImportKeepsInv ==
  ASSUME ContentInv, NEW c \in ChoiceLists, NEW a \in AnswerLists, Import(c, a)
  PROVE  ContentInv'
<1>1. /\ row \in Rows /\ boots \in Nat
      /\ c \in Seq(Texts) /\ a \in Seq(Texts)
      /\ "letter" \in Labelings /\ "import" \in Writers
      /\ InferQuestionType(c) \in Types
  BY ListTypes, InferredTypes DEF ContentInv, TypeOK, Labelings, Writers
<1>2. UNCHANGED others /\ boots' = boots  BY DEF Import
<1>3. CASE Present /\ Overwrite(c, a)
  <2>1. /\ row' \in Rows /\ row'.id = row.id /\ row'.labeling = row.labeling
        /\ row'.by = "import" /\ row'.choices = c
        /\ row'.type = InferQuestionType(c)
    BY <1>1, <1>3 DEF Overwrite, Rows, Statuses
  <2>2. TypeFollowsChoices'  BY <2>1 DEF TypeFollowsChoices, IsPlaceholder
  <2> QED BY <1>1, <1>2, <1>3, <2>1, <2>2, OthersKeepInv
<1>4. CASE Insert("verified", c, a, "letter", InferQuestionType(c), "import")
  BY <1>1, <1>2, <1>4, OtherInsertKeepsInv
<1> QED BY <1>3, <1>4 DEF Import

LEMMA DeleteKeepsInv == ContentInv /\ Delete => ContentInv'
<1> SUFFICES ASSUME ContentInv, Delete PROVE ContentInv'  OBVIOUS
<1>1. row \in Rows /\ boots \in Nat  BY DEF ContentInv, TypeOK
<1>2. row' \in Rows /\ row'.id = row.id /\ row'.status = "absent"
  BY <1>1, ListTypes DEF Delete, Rows, Statuses, Labelings, Types, Writers
<1>3. UNCHANGED others /\ boots' = boots  BY DEF Delete
<1>4. ~Present' /\ TypeFollowsChoices'  BY <1>2 DEF Present, TypeFollowsChoices
<1> QED BY <1>1, <1>2, <1>3, <1>4, OthersKeepInv

\* The backfill finds nothing to do: a row without choices is a free response, or a
\* placeholder, whose status the backfill excepts.
LEMMA BootWritesNothing == ContentInv /\ Boot => row' = row
<1> SUFFICES ASSUME ContentInv, Boot, Present, Len(row.choices) = 0,
                    row.status # "error"
             PROVE  [row EXCEPT !.type = "free_response"] = row
  BY DEF Boot
<1>1. row \in Rows  BY DEF ContentInv, TypeOK
<1>2. row.type = "free_response"
  BY DEF ContentInv, TypeFollowsChoices, IsPlaceholder, InferQuestionType
<1> QED BY <1>1, <1>2 DEF Rows

LEMMA BootKeepsInv == ContentInv /\ Boot => ContentInv'
<1> SUFFICES ASSUME ContentInv, Boot PROVE ContentInv'  OBVIOUS
<1>1. row' = row  BY BootWritesNothing
<1>2. row \in Rows /\ boots' \in Nat /\ UNCHANGED others
  BY DEF ContentInv, TypeOK, Boot
<1>3. TypeFollowsChoices' /\ (Present' => Present)
  BY <1>1 DEF ContentInv, TypeFollowsChoices, IsPlaceholder, Present
<1> QED BY <1>1, <1>2, <1>3, OthersKeepInv

LEMMA InvStep == ContentInv /\ [Next]_vars => ContentInv'
<1>1. ContentInv /\ UNCHANGED vars => ContentInv'
  BY DEF vars, retryVars, ContentInv, TypeOK, TypeFollowsChoices, IdsInv,
         LabelingInv, MarkedInv, Present, IsPlaceholder
<1> QED
  BY <1>1, RunStepKeepsInv, PutKeepsInv, PostKeepsInv, ImportKeepsInv,
     DeleteKeepsInv, BootKeepsInv
  DEF Next

-----------------------------------------------------------------------------
(* Labels of letters *)

\* The number that the letters but the last one write, and the last letter.
Quotient(n) == (n - 1) \div Letters
Rest(n)     == (n - 1) % Letters

LEMMA QuotientFacts ==
  ASSUME NEW n \in Nat \ {0}
  PROVE  /\ Quotient(n) \in Nat /\ Quotient(n) < n
         /\ Rest(n) \in Nat
         /\ n - 1 = Letters * Quotient(n) + Rest(n)
<1>1. Letters \in Nat /\ Letters > 1 /\ n - 1 \in Nat  BY ContentAssumption
<1>2. /\ Quotient(n) \in Int /\ Rest(n) \in 0..(Letters - 1)
      /\ n - 1 = Letters * Quotient(n) + Rest(n)
  BY <1>1 DEF Quotient, Rest
<1>3. Quotient(n) \in Nat /\ Quotient(n) < n
  <2> DEFINE q == Quotient(n)
             r == Rest(n)
  <2>1. q \in Int /\ r \in 0..(Letters - 1) /\ n - 1 = Letters * q + r  BY <1>2
  <2> HIDE DEF q, r
  <2>2. q >= 0
    <3> SUFFICES ASSUME q <= -1 PROVE FALSE  BY <2>1
    <3>1. Letters * q <= Letters * (-1)  BY <1>1, <2>1
    <3> QED BY <1>1, <2>1, <3>1
  <2>3. q < n
    <3> SUFFICES ASSUME q >= n PROVE FALSE  BY <2>1
    <3>1. Letters * q >= q  BY <1>1, <2>1, <2>2
    <3> QED BY <1>1, <2>1, <3>1
  <2> QED BY <2>1, <2>2, <2>3 DEF q
<1>4. Rest(n) \in Nat  BY <1>1, <1>2
<1> QED BY <1>2, <1>3, <1>4

LEMMA ColumnExists ==
  \E f : f = [n \in Nat |-> IF n = 0 THEN <<>> ELSE Append(f[Quotient(n)], Rest(n))]
<1> DEFINE rank == [n \in Nat |-> n]
           p    == [n \in Nat |-> IF n = 0 THEN 0 ELSE Quotient(n)]
           step == [z \in Nat \X Seq(Nat) |->
                      IF z[1] = 0 THEN <<>> ELSE Append(z[2], Rest(z[1]))]
<1>1. p \in [Nat -> Nat] /\ \A n \in Nat \ {0} : rank[p[n]] < rank[n]
  BY QuotientFacts
<1>2. step \in [Nat \X Seq(Nat) -> Seq(Nat)]
  <2>1. ASSUME NEW z \in Nat \X Seq(Nat) PROVE step[z] \in Seq(Nat)
    <3>1. CASE z[1] = 0  BY <3>1
    <3>2. CASE z[1] # 0
      <4>1. z[1] \in Nat \ {0} /\ z[2] \in Seq(Nat)  BY <3>2
      <4>2. Rest(z[1]) \in Nat  BY <4>1, QuotientFacts
      <4> QED BY <3>2, <4>1, <4>2
    <3> QED BY <3>1, <3>2
  <2> QED BY <2>1
<1>3. IsRecursion(Nat, Seq(Nat), rank, {0}, <<>>, p, step)
  <2>1. rank \in [Nat -> Nat] /\ <<>> \in Seq(Nat)  OBVIOUS
  <2> HIDE DEF rank, p, step
  <2> QED BY <1>1, <1>2, <2>1 DEF IsRecursion
<1>4. PICK f \in [Nat -> Seq(Nat)] : Solves(f, Nat, {0}, <<>>, p, step)
  <2> HIDE DEF rank, p, step
  <2> QED BY <1>3, RecursionExists
<1>5. ASSUME NEW n \in Nat
      PROVE  f[n] = IF n = 0 THEN <<>> ELSE Append(f[Quotient(n)], Rest(n))
  <2>1. CASE n = 0  BY <1>4, <2>1 DEF Solves, Step
  <2>2. CASE n # 0
    <3>1. Quotient(n) \in Nat /\ p[n] = Quotient(n)  BY <2>2, QuotientFacts
    <3>2. f[Quotient(n)] \in Seq(Nat)  BY <3>1
    <3>3. step[<<n, f[Quotient(n)]>>] = Append(f[Quotient(n)], Rest(n))
      BY <2>2, <3>2
    <3>4. f[n] = step[<<n, f[p[n]]>>]
      <4> HIDE DEF p, step
      <4> QED BY <1>4, <2>2 DEF Solves, Step
    <3> QED BY <2>2, <3>1, <3>3, <3>4
  <2> QED BY <2>1, <2>2
<1>6. f = [n \in Nat |-> f[n]]  OBVIOUS
<1>7. f = [n \in Nat |-> IF n = 0 THEN <<>> ELSE Append(f[Quotient(n)], Rest(n))]
  BY <1>5, <1>6, Zenon
<1> QED BY <1>7

LEMMA ColumnFacts ==
  /\ Column[0] = <<>>
  /\ \A n \in Nat \ {0} : Column[n] = Append(Column[Quotient(n)], Rest(n))
<1>1. Column = [n \in Nat |-> IF n = 0 THEN <<>>
                              ELSE Append(Column[Quotient(n)], Rest(n))]
  BY ColumnExists, Zenon DEF Column, Quotient, Rest
<1>2. \A n \in Nat : Column[n] = IF n = 0 THEN <<>>
                              ELSE Append(Column[Quotient(n)], Rest(n))
  BY <1>1
<1> HIDE DEF Column
<1> QED BY <1>2

LEMMA AppendFacts ==
  \A s, t \in Seq(Nat), a, b \in Nat :
    /\ Append(s, a) \in Seq(Nat) /\ Append(s, a) # <<>>
    /\ Append(s, a) = Append(t, b) => s = t /\ a = b
<1> TAKE s, t \in Seq(Nat), a, b \in Nat
<1>1. Append(s, a) \in Seq(Nat) /\ Append(s, a) # <<>>  BY AppendProperties
<1>2. Append(s, a) = Append(t, b) <=> s = t /\ a = b  BY AppendInjective
<1> QED BY <1>1, <1>2

LEMMA ColumnTypes == \A n \in Nat : Column[n] \in Seq(Nat)
<1> DEFINE Bad == {n \in Nat : Column[n] \notin Seq(Nat)}
<1> SUFFICES ASSUME Bad # {} PROVE FALSE  OBVIOUS
<1>1. PICK n \in Bad : \A m \in Bad : n <= m
  <2>1. Bad \in SUBSET Nat  OBVIOUS
  <2> HIDE DEF Bad
  <2> QED BY <2>1, LeastNatural
<1>2. n # 0
  <2>1. Column[0] \in Seq(Nat)  BY ColumnFacts
  <2> QED BY <2>1
<1>3. Quotient(n) \in Nat /\ Quotient(n) < n /\ Rest(n) \in Nat
  BY <1>2, QuotientFacts
<1>4. Column[Quotient(n)] \in Seq(Nat)  BY <1>1, <1>3
<1>5. Column[n] = Append(Column[Quotient(n)], Rest(n))  BY <1>2, ColumnFacts
<1>6. Column[n] \in Seq(Nat)  BY <1>3, <1>4, <1>5, AppendFacts
<1> QED BY <1>6

\* Different numbers are written differently.
LEMMA ColumnTellsApart ==
  ASSUME NEW i \in Nat, NEW j \in Nat, Column[i] = Column[j]
  PROVE  i = j
<1> DEFINE Bad == {n \in Nat : \E m \in Nat : m # n /\ Column[m] = Column[n]}
<1> SUFFICES ASSUME i # j PROVE FALSE  OBVIOUS
<1>1. PICK n \in Bad : \A m \in Bad : n <= m
  <2>1. Bad \in SUBSET Nat /\ i \in Bad  OBVIOUS
  <2> HIDE DEF Bad
  <2> QED BY <2>1, LeastNatural
<1>2. PICK m \in Nat : m # n /\ Column[m] = Column[n]  OBVIOUS
<1>3. ASSUME NEW k \in Nat \ {0} PROVE Column[k] # <<>>
  <2>1. Column[Quotient(k)] \in Seq(Nat) /\ Rest(k) \in Nat
    BY QuotientFacts, ColumnTypes
  <2>2. Column[k] = Append(Column[Quotient(k)], Rest(k))  BY ColumnFacts
  <2>3. Append(Column[Quotient(k)], Rest(k)) # <<>>  BY <2>1, AppendFacts
  <2> QED BY <2>2, <2>3
<1>4. n \in Nat \ {0} /\ m \in Nat \ {0}
  BY <1>2, <1>3, ColumnFacts
<1>5. /\ Quotient(n) \in Nat /\ Quotient(n) < n /\ Quotient(m) \in Nat
      /\ Rest(n) \in Nat /\ Rest(m) \in Nat
      /\ n - 1 = Letters * Quotient(n) + Rest(n)
      /\ m - 1 = Letters * Quotient(m) + Rest(m)
  BY <1>4, QuotientFacts
<1>6. Column[Quotient(n)] = Column[Quotient(m)] /\ Rest(n) = Rest(m)
  <2> DEFINE s == Column[Quotient(n)]
             t == Column[Quotient(m)]
  <2>1. s \in Seq(Nat) /\ t \in Seq(Nat)  BY <1>5, ColumnTypes
  <2>2. Append(s, Rest(n)) = Append(t, Rest(m))  BY <1>2, <1>4, ColumnFacts
  <2>3. Rest(n) \in Nat /\ Rest(m) \in Nat  BY <1>5
  <2> HIDE DEF Bad, s, t
  <2>4. s = t /\ Rest(n) = Rest(m)  BY <2>1, <2>2, <2>3, AppendInjective
  <2> QED BY <2>4 DEF s, t
<1>7. Quotient(n) # Quotient(m)
  <2> SUFFICES ASSUME Quotient(n) = Quotient(m) PROVE FALSE  OBVIOUS
  <2>1. n - 1 = m - 1  BY <1>5, <1>6
  <2> QED BY <1>2, <1>4, <2>1
<1>8. Quotient(n) \in Bad  BY <1>5, <1>6, <1>7
<1> QED BY <1>1, <1>5, <1>8

-----------------------------------------------------------------------------
(* The back-off *)

RetryInv ==
  /\ pc \in {"try", "sleep"} => attempt \in 1..ExtractMaxAttempts
  /\ pc = "sleep" => attempt < ExtractMaxAttempts /\ wait = Backoff(attempt)

LEMMA RetryInvInit == Init => RetryInv
  BY DEF Init, RetryInit, RetryInv

LEMMA RetryInvStep == ContentInv /\ RetryInv /\ [Next]_vars => RetryInv'
<1> SUFFICES ASSUME ContentInv, RetryInv, [Next]_vars PROVE RetryInv'  OBVIOUS
<1>1. CASE UNCHANGED retryVars  BY <1>1 DEF RetryInv, retryVars
<1>2. CASE RetryStep
  <2>1. CASE StartExtraction
    BY <2>1, RetryAssumption DEF StartExtraction, RetryInv
  <2>2. CASE ExtractReturns  BY <2>2 DEF ExtractReturns, RetryInv
  <2>3. CASE ExtractBacksOff  BY <2>3 DEF ExtractBacksOff, RetryInv
  <2>4. CASE WakesUp
    BY <2>4, RetryAssumption DEF WakesUp, RetryInv
  <2>5. CASE ExtractionCanceled  BY <2>5 DEF ExtractionCanceled, RetryInv
  <2> QED BY <1>2, <2>1, <2>2, <2>3, <2>4, <2>5 DEF RetryStep
<1>3. RunStep => RetryStep \/ UNCHANGED retryVars
  BY DEF RunStep, Extracting, StorePlaceholder, ReadsSheet, FindExact, Create,
         CreateLosesRace, Link, StoreVerdict
<1>4. ASSUME NEW c, NEW a
      PROVE  /\ \A t, r : Put(c, a, t, r) => UNCHANGED retryVars
             /\ \A t, l : Post(c, a, t, l) => UNCHANGED retryVars
             /\ Import(c, a) => UNCHANGED retryVars
  BY DEF Put, Post, Import, others, vars
<1>5. Delete \/ Boot \/ UNCHANGED vars => UNCHANGED retryVars
  BY DEF Delete, Boot, others, vars
<1> QED BY <1>1, <1>2, <1>3, <1>4, <1>5 DEF Next

LEMMA HighestBit ==
  ASSUME BaseBits # {}
  PROVE  \E b \in BaseBits : \A c \in BaseBits : c <= b
<1> DEFINE Room == {WordBits - b : b \in BaseBits}
<1>1. /\ WordBits \in Nat /\ BaseBits \subseteq Nat
      /\ \A b \in BaseBits : WordBits - b \in Nat
  BY RetryAssumption
<1>2. PICK n \in Room : \A m \in Room : n <= m
  <2>1. Room \in SUBSET Nat /\ Room # {}  BY <1>1
  <2> HIDE DEF Room
  <2> QED BY <2>1, LeastNatural
<1>3. PICK b \in BaseBits : n = WordBits - b  OBVIOUS
<1>4. \A c \in BaseBits : WordBits - c \in Room  OBVIOUS
<1> HIDE DEF Room
<1> QED BY <1>1, <1>2, <1>3, <1>4

\* As long as no bit is lost the shift doubles, up to the cap.
LEMMA BackoffDoubles ==
  ASSUME NEW k \in 0..CapShift
  PROVE  Backoff(k + 1) = Shifted(BaseBits, k)
<1> DEFINE d == Shifted(BaseBits, k)
<1>0. /\ WordBits \in Nat /\ CapShift \in Nat /\ k \in Nat /\ k <= CapShift
      /\ \A b \in BaseBits : b \in Nat /\ b + CapShift <= WordBits - 2
  BY RetryAssumption
<1>1. d = {b + k : b \in BaseBits} /\ Cap = {b + CapShift : b \in BaseBits}
  BY <1>0 DEF Shifted, Cap
<1>2. ~Negative(d)
  <2>1. \A b \in BaseBits : b + k # WordBits - 1  BY <1>0
  <2> QED BY <1>1, <2>1 DEF Negative
<1>3. ~Exceeds(d, Cap)
  <2> SUFFICES ASSUME NEW b \in d \ Cap, \A c \in Cap \ d : c < b PROVE FALSE
    BY DEF Exceeds
  <2>1. BaseBits # {}  BY <1>1
  <2>2. PICK g \in BaseBits : \A c \in BaseBits : c <= g  BY <2>1, HighestBit
  <2>3. k < CapShift  BY <1>0, <1>1
  <2>4. g + CapShift \in Cap  BY <1>1
  <2>5. \A c \in d : c <= g + k /\ c \in Nat  BY <1>0, <1>1, <2>2
  <2>6. g + CapShift \notin d  BY <1>0, <2>3, <2>5
  <2>7. g + CapShift < b  BY <2>4, <2>6
  <2> HIDE DEF d
  <2> QED BY <1>0, <2>3, <2>5, <2>7
<1>4. Backoff(k + 1) = LET s == Shifted(BaseBits, k) IN
                       IF Negative(s) \/ Exceeds(s, Cap) THEN Cap ELSE s
  <2>1. (k + 1) - 1 = k  BY <1>0
  <2> QED BY <2>1 DEF Backoff
<1> QED BY <1>2, <1>3, <1>4

\* Some bit is shifted beyond the cap's and not yet out of the word.
BitBeyondCap(k) ==
  \E b \in BaseBits : b + k < WordBits /\ \A c \in BaseBits : c + CapShift < b + k

LEMMA BackoffStaysCapped ==
  ASSUME NEW k \in Nat, BitBeyondCap(k)
  PROVE  Backoff(k + 1) = Cap
<1> DEFINE d == Shifted(BaseBits, k)
<1>1. PICK b \in BaseBits : b + k < WordBits /\ \A c \in BaseBits : c + CapShift < b + k
  BY DEF BitBeyondCap
<1>2. b + k \in d  BY <1>1, RetryAssumption DEF Shifted
<1>3. \A c \in Cap : c < b + k  BY <1>1 DEF Cap, Shifted
<1>4. b + k \notin Cap  BY <1>3, RetryAssumption
<1>5. Exceeds(d, Cap)
  <2> HIDE DEF d
  <2> QED BY <1>2, <1>3, <1>4 DEF Exceeds
<1>6. (k + 1) - 1 = k  OBVIOUS
<1> QED BY <1>5, <1>6 DEF Backoff

-----------------------------------------------------------------------------
(* The theorems *)

\* The inductive invariant.
THEOREM ContentInvCorrect == Spec => []ContentInv
<1> QED BY InvInit, InvStep, PTL DEF Spec

\* The types alone, of every variable in every reachable state.
THEOREM ContentTypesCorrect == Spec => []TypeOK
<1>1. ContentInv => TypeOK  BY DEF ContentInv
<1> QED BY <1>1, ContentInvCorrect, PTL

\* Whoever wrote a question last, its type is the one its choices imply, and a
\* placeholder stays what it is: for every labeling that handleExtractionFailure
\* might leave in it, hence also if the CHECK admitted it.
THEOREM TypesFollowChoices == Spec => []TypeFollowsChoices
<1>1. ContentInv => TypeFollowsChoices  BY DEF ContentInv
<1> QED BY <1>1, ContentInvCorrect, PTL

\* Applying every migration at every start is harmless to the questions.
THEOREM BootsKeepContent == Spec => BootKeepsContent
<1>1. ContentInv /\ [Next]_vars => [boots' # boots => row' = row]_vars
  <2> SUFFICES ASSUME ContentInv, Next, boots' # boots PROVE row' = row
    BY DEF vars
  <2>1. Boot
    BY DEF Next, RunStep, Extracting, StorePlaceholder, ReadsSheet, FindExact,
           Create, CreateLosesRace, Link, StoreVerdict, Put, Post, Import, Delete
  <2> QED BY <2>1, BootWritesNothing
<1> QED BY <1>1, ContentInvCorrect, PTL DEF Spec, BootKeepsContent

\* What was marked is shown with the sheet's labels: the labeling that the run has
\* guessed from an answer and guessed again from the choices is the sheet's.
THEOREM MarkedIdsAlwaysSurvive == Spec => []MarkedIdsSurvive
<1>1. ContentInv => MarkedIdsSurvive
  <2> SUFFICES ASSUME ContentInv, created, Present, row.id = target,
                      row.choices = sheet.choices,
                      AnswersSubsetOfChoices(sheet.answers, sheet.choices),
                      NEW k \in 1..Len(row.answers), NEW m \in 1..Len(sheet.answers),
                      row.answers[k] = sheet.answers[m]
               PROVE  IdForValue(row.choices, row.answers[k], row.labeling)
                        = SheetIds(sheet)[m]
    BY DEF MarkedIdsSurvive
  <2>1. sheet \in [choices : Seq(Texts), style : Labelings, answers : Seq(Texts)]
    BY DEF ContentInv, TypeOK
  <2>2. Len(sheet.answers) > 0  BY <2>1
  <2>3. row.labeling = sheet.style
    BY <2>1, <2>2, LabelingIsStyle DEF ContentInv, LabelingInv
  <2>4. SheetIds(sheet)[m] = IdForValue(sheet.choices, sheet.answers[m], sheet.style)
    BY DEF SheetIds
  <2> QED BY <2>3, <2>4
<1> QED BY <1>1, ContentInvCorrect, PTL

\* A verdict replaces the answers that were marked only by answers: whatever the
\* verifier returns, a row of the pipeline that has answers keeps some.
THEOREM VerdictsKeepSomeAnswers == Spec => VerdictsKeepAnswers
<1> DEFINE Keeps == /\ row.by = "pipeline" /\ row'.by = "pipeline"
                    /\ row'.id = row.id
                    /\ row.answers # <<>> /\ row'.status # "absent"
                    => row'.answers # <<>>
<1>1. ContentInv /\ [Next]_vars => [Keeps]_vars
  <2> SUFFICES ASSUME ContentInv, Next, row.by = "pipeline", row'.by = "pipeline",
                      row'.id = row.id, row.answers # <<>>, row'.status # "absent"
               PROVE  row'.answers # <<>>
    OBVIOUS
  <2>0. row \in Rows /\ row.id \in Nat  BY DEF ContentInv, TypeOK, Rows
  <2>1. CASE StoreVerdict
    <3>1. CASE UNCHANGED row  BY <3>1
    <3>2. ASSUME Present, row.id = target,
                 NEW verdict \in AnswerLists \cup {<<>>}, NEW confident \in BOOLEAN,
                 row' = [row EXCEPT !.answers =
                           ResolveVerifiedAnswers(sheet.answers, verdict, confident)]
          PROVE  row'.answers # <<>>
      <4>1. sheet.answers \in Seq(Texts) /\ sheet.answers # <<>>
        BY <2>1, <3>2 DEF StoreVerdict, Go, ContentInv, MarkedInv, TypeOK
      <4>2. row'.answers = ResolveVerifiedAnswers(sheet.answers, verdict, confident)
        BY <2>0, <3>2 DEF Rows
      <4> QED BY <4>1, <4>2, ResolvedFacts
    <3> QED BY <2>1, <3>1, <3>2 DEF StoreVerdict
  <2>2. CASE Link  BY <2>0, <2>2 DEF Link, Rows
  <2>3. CASE Boot  BY <2>3, BootWritesNothing
  <2>4. CASE Create  BY <2>0, <2>4 DEF Create, Insert
  <2>5. CASE Extracting \/ ReadsSheet \/ FindExact \/ CreateLosesRace
    BY <2>5 DEF Extracting, ReadsSheet, FindExact, CreateLosesRace
  <2>6. CASE Delete  BY <2>0, <2>6 DEF Delete, Rows
  <2>7. ASSUME NEW c \in ChoiceLists, NEW a \in AnswerLists, NEW t \in Types,
               NEW s \in Reviews, Put(c, a, t, s)
        PROVE  FALSE
    BY <2>0, <2>7 DEF Put, Rows
  <2>8. ASSUME NEW c \in ChoiceLists, NEW a \in AnswerLists, NEW t \in Types,
               NEW asked \in Labelings \cup {""}, Post(c, a, t, asked)
        PROVE  FALSE
    BY <2>0, <2>8 DEF Post, Insert
  <2>9. ASSUME NEW c \in ChoiceLists, NEW a \in AnswerLists, Import(c, a)
        PROVE  FALSE
    <3>1. CASE Overwrite(c, a)  BY <2>0, <3>1 DEF Overwrite, Rows
    <3>2. CASE Insert("verified", c, a, "letter", InferQuestionType(c), "import")
      BY <2>0, <3>2 DEF Insert
    <3> QED BY <2>9, <3>1, <3>2 DEF Import
  <2>10. CASE StorePlaceholder  BY <2>0, <2>10 DEF StorePlaceholder, Insert
  <2> QED
    BY <2>1, <2>2, <2>3, <2>4, <2>5, <2>6, <2>7, <2>8, <2>9, <2>10
    DEF Next, RunStep
<1> QED BY <1>1, ContentInvCorrect, PTL DEF Spec, VerdictsKeepAnswers

\* In every alphabet two different choices have different labels: a label of
\* letters determines its number.
THEOREM LabelsAlwaysTellApart == Spec => []LabelsTellApart
<1>1. ContentInv => LabelsTellApart
  <2> SUFFICES ASSUME ContentInv,
                      NEW i \in 0..(Len(row.choices) - 1),
                      NEW j \in 0..(Len(row.choices) - 1), i # j
               PROVE  IndexToLabel(i, row.labeling) # IndexToLabel(j, row.labeling)
    BY DEF LabelsTellApart
  <2>1. i + 1 \in Nat /\ j + 1 \in Nat /\ i + 1 # j + 1
    BY DEF ContentInv, TypeOK, Rows
  <2>2. Column[i + 1] # Column[j + 1]  BY <2>1, ColumnTellsApart
  <2> QED BY <2>1, <2>2 DEF IndexToLabel
<1> QED BY <1>1, ContentInvCorrect, PTL

\* The back-off doubles up to the cap and stays there, for as many attempts as
\* some bit of the base is between the cap and the end of the word.
THEOREM BackoffStaysAtCap ==
  ASSUME \A k \in (CapShift + 1)..(ExtractMaxAttempts - 2) : BitBeyondCap(k)
  PROVE  Spec => []BackoffIsCapped
<1>1. RetryInv => BackoffIsCapped
  <2> SUFFICES ASSUME RetryInv, pc = "sleep"
               PROVE  wait = Shifted(BaseBits, IF attempt - 1 < CapShift
                                               THEN attempt - 1 ELSE CapShift)
    BY DEF BackoffIsCapped
  <2> DEFINE k == attempt - 1
  <2>1. /\ k \in 0..(ExtractMaxAttempts - 2) /\ attempt = k + 1
        /\ CapShift \in Nat /\ ExtractMaxAttempts \in Int
        /\ wait = Backoff(k + 1)
    BY RetryAssumption DEF RetryInv
  <2> HIDE DEF k
  <2>2. CASE k <= CapShift
    <3>1. wait = Shifted(BaseBits, k)  BY <2>1, <2>2, BackoffDoubles
    <3> QED BY <2>1, <2>2, <3>1
  <2>3. CASE k > CapShift
    <3>1. k \in (CapShift + 1)..(ExtractMaxAttempts - 2) /\ k \in Nat
      BY <2>1, <2>3
    <3>2. wait = Cap  BY <2>1, <3>1, BackoffStaysCapped
    <3> QED BY <2>1, <2>3, <3>2 DEF Cap
  <2> QED BY <2>1, <2>2, <2>3
<1> QED BY <1>1, RetryInvInit, RetryInvStep, ContentInvCorrect, PTL DEF Spec

\* The numbers of pipeline.go: an int64, a base of 10^9 nanoseconds, a cap of
\* eight times that.
IsInt64Second ==
  /\ WordBits = 64 /\ CapShift = 3
  /\ BaseBits = {9, 11, 14, 15, 17, 19, 20, 23, 24, 25, 27, 28, 29}

\* With them the comment on defaultBackoff is true of every sleep of up to 56
\* attempts, although the product has overflown long before ...
THEOREM BackoffOfPipeline ==
  ASSUME IsInt64Second, ExtractMaxAttempts <= 56
  PROVE  Spec => []BackoffIsCapped
<1>1. ASSUME NEW k \in 4..54 PROVE BitBeyondCap(k)
  <2>1. \E b \in BaseBits : b + k < 64 /\ 32 < b + k
    <3>1. CASE k <= 34   BY <3>1 DEF IsInt64Second
    <3>2. CASE k \in 35..38  BY <3>2 DEF IsInt64Second
    <3>3. CASE k \in 39..43  BY <3>3 DEF IsInt64Second
    <3>4. CASE k \in 44..48  BY <3>4 DEF IsInt64Second
    <3>5. CASE k \in 49..54  BY <3>5 DEF IsInt64Second
    <3> QED BY <3>1, <3>2, <3>3, <3>4, <3>5
  <2>2. \A c \in BaseBits : c + CapShift <= 32  BY DEF IsInt64Second
  <2>3. BaseBits \subseteq Nat /\ CapShift \in Nat /\ WordBits = 64
    BY DEF IsInt64Second
  <2> QED BY <2>1, <2>2, <2>3 DEF BitBeyondCap
<1>2. \A k \in (CapShift + 1)..(ExtractMaxAttempts - 2) : k \in 4..54
  BY RetryAssumption DEF IsInt64Second
<1> QED BY <1>1, <1>2, BackoffStaysAtCap

\* ... and of none after it: from the 56th attempt on there is no back-off.
THEOREM BackoffEndsAtZero ==
  ASSUME IsInt64Second, NEW n \in Nat, n >= 56
  PROVE  Backoff(n) = {}
<1>1. Shifted(BaseBits, n - 1) = {}  BY DEF Shifted, IsInt64Second
<1>2. ~Negative({}) /\ ~Exceeds({}, Cap)  BY DEF Negative, Exceeds
<1> QED BY <1>1, <1>2 DEF Backoff
=============================================================================
