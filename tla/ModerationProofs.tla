-------------------------- MODULE ModerationProofs --------------------------
(***************************************************************************)
(* Proofs about Moderation for every set of experts, images, texts and     *)
(* workers.  Questions can be deleted here, so what PipelineProofs says of *)
(* links is lost, and RunInv is what its runs still keep.                  *)
(***************************************************************************)
EXTENDS Moderation, PipelineProofs, RecursionLemmas

-----------------------------------------------------------------------------
(* The inductive invariant *)

\* What a request works on, and that a PUT lists images only while they show its
\* question.
RequestInv ==
  \A e \in Experts :
    /\ epc[e] # "idle" => subject[e] \in Texts \X Nat
    /\ epc[e] = "put" =>
         /\ status[e] \in Reviews
         /\ \A i \in todo[e] : <<i, subject[e][1]>> \in links

\* A row that was posted or imported is not one a run wants to verify, and never
\* becomes one, because ids are not used again.
ManualInv ==
  \A m \in manual :
    /\ m[2] <= row[m[1]].id
    /\ \A w \in Workers : m \notin newQs[w]

\* Nothing has been read off an image, and no expert has come across it.
Untouched(i) ==
  /\ original[i]
  /\ \A q \in Texts : <<i, q>> \notin links
  /\ \A e \in Experts : i \notin todo[e] \cup cleaned[e] /\ want[e] # i

\* An image that was tried once has one run, and is untouched until the run has
\* stored the enhanced bytes.
FirstRunInv ==
  \A i \in Images :
    /\ tries[i] = 0 => Untouched(i) /\ \A w \in Workers : img[w] # i
    /\ tries[i] <= 1 =>
         \A w \in Workers : img[w] = i =>
           /\ \A v \in Workers : img[v] = i => v = w
           /\ pc[w] \in {"load", "enhance"} => Untouched(i)

ReviewInv ==
  /\ RunInv /\ ReviewTypeOK /\ RequestInv
  /\ ManualInv /\ ManualAnswersStay
  /\ ReopeningKeepsBytes
  /\ FirstRunInv /\ CleanedStaysClean

-----------------------------------------------------------------------------
(* What a run does to rows and links *)

\* A row is left alone, inserted, or given a verdict by the run that created it.
LEMMA RunStepRows ==
  ASSUME RunInv, NEW w \in Workers, RunStep(w)
  PROVE  /\ \A t \in Texts :
              \/ row'[t] = row[t]
              \/ ~Present(t) /\ row'[t].id = row[t].id + 1
              \/ /\ <<t, row[t].id>> \in newQs[w] /\ Present(t)
                 /\ row'[t].id = row[t].id /\ row'[t].status = row[t].status
         /\ \A v \in Workers : \A q \in newQs'[v] :
              q \in newQs[v] \/ q[2] = row[q[1]].id + 1
         /\ \A l \in links' \ links : Present(l[2])
<1>0. TypeOK /\ StoreTypeOK /\ InPlace(w)  BY DEF RunInv, TypeOK
<1>1. newQs \in [Workers -> SUBSET (Texts \X Nat)]  BY <1>0 DEF TypeOK
<1> DEFINE Goal == /\ \A t \in Texts :
                        \/ row'[t] = row[t]
                        \/ ~Present(t) /\ row'[t].id = row[t].id + 1
                        \/ /\ <<t, row[t].id>> \in newQs[w] /\ Present(t)
                           /\ row'[t].id = row[t].id /\ row'[t].status = row[t].status
                   /\ \A v \in Workers : \A q \in newQs'[v] :
                        q \in newQs[v] \/ q[2] = row[q[1]].id + 1
                   /\ \A l \in links' \ links : Present(l[2])
<1>2. CASE Create(w)
  <2> DEFINE t == Text(w)
  <2>1. t \in Texts /\ target[w][3] \in BOOLEAN
    BY <1>0, <1>2, TextType, TargetTypes DEF Create, InLoop, Goto
  <2>2. /\ ~Present(t) /\ row'[t].id = row[t].id + 1
        /\ \A u \in Texts \ {t} : row'[u] = row[u]
    BY <1>0, <1>2, <2>1, InsertFacts, ExtractedTypes DEF Create, InsertQuestion
  <2>3. newQs' = [newQs EXCEPT ![w] = newQs[w] \cup {<<t, row[t].id + 1>>}]
    BY <1>2, <2>2 DEF Create
  <2>4. links' = links  BY <1>2 DEF Create
  <2> HIDE DEF t
  <2>5. \A v \in Workers : \A q \in newQs'[v] :
          q \in newQs[v] \/ q[2] = row[q[1]].id + 1
    BY <1>1, <2>3
  <2> QED BY <2>2, <2>4, <2>5
<1>3. CASE CreateErrsAfterInsert(w)
  <2>1. Text(w) \in Texts /\ target[w][3] \in BOOLEAN
    BY <1>0, <1>3, TextType, TargetTypes DEF CreateErrsAfterInsert, InLoop, Goto
  <2>2. /\ ~Present(Text(w)) /\ row'[Text(w)].id = row[Text(w)].id + 1
        /\ \A u \in Texts \ {Text(w)} : row'[u] = row[u]
    BY <1>0, <1>3, <2>1, InsertFacts, ExtractedTypes
    DEF CreateErrsAfterInsert, InsertQuestion
  <2>3. newQs' = newQs /\ links' = links
    BY <1>3 DEF CreateErrsAfterInsert, localVars
  <2> QED BY <2>2, <2>3
<1>4. CASE StoreVerdict(w)
  <2>1. PICK q \in newQs[w] :
          /\ \/ \E by \in {"extractor", "verifier"} : WriteVerdict(q[1], q[2], by)
             \/ UNCHANGED row
          /\ newQs' = [newQs EXCEPT ![w] = newQs[w] \ {q}]
    BY <1>4 DEF StoreVerdict
  <2>2. links' = links  BY <1>4 DEF StoreVerdict
  <2>3. \A v \in Workers : newQs'[v] \subseteq newQs[v]  BY <1>1, <2>1
  <2>4. ASSUME NEW by \in {"extractor", "verifier"}, WriteVerdict(q[1], q[2], by)
        PROVE  Goal
    <3>1. q[1] \in Texts /\ q = <<q[1], q[2]>>  BY <1>1
    <3>2. Present(q[1]) /\ row[q[1]].id = q[2]  BY <2>4 DEF WriteVerdict, HasId
    <3>3. row' = [row EXCEPT ![q[1]].by = by]  BY <2>4 DEF WriteVerdict
    <3>4. /\ \A t \in Texts \ {q[1]} : row'[t] = row[t]
          /\ row'[q[1]].id = row[q[1]].id /\ row'[q[1]].status = row[q[1]].status
      BY <1>0, <3>1, <3>3 DEF StoreTypeOK, Rows
    <3>5. <<q[1], row[q[1]].id>> \in newQs[w]  BY <3>1, <3>2
    <3> QED BY <2>2, <2>3, <3>2, <3>4, <3>5
  <2>5. CASE UNCHANGED row  BY <2>2, <2>3, <2>5
  <2> QED BY <2>1, <2>4, <2>5
<1>5. CASE Link(w)
  <2>1. /\ row' = row /\ newQs' = newQs
        /\ links' = links \cup {<<img[w], target[w][1]>>} /\ Present(target[w][1])
    BY <1>5 DEF Link, LinkQuestion, HasId
  <2> QED BY <2>1
<1>6. CASE Verify(w)
  <2>1. row' = row /\ links' = links /\ \A v \in Workers : newQs'[v] \subseteq newQs[v]
    BY <1>1, <1>6 DEF Verify, Verdicts, storeVars
  <2> QED BY <2>1
<1>7. CASE Complete(w) \/ Fail(w) \/ Vanish(w)
  <2>1. row' = row /\ links' = links /\ newQs' = [newQs EXCEPT ![w] = {}]
    BY <1>7 DEF Complete, Fail, Settle, Vanish, Forget, storeVars
  <2>2. \A v \in Workers : newQs'[v] \subseteq newQs[v]  BY <1>1, <2>1
  <2> QED BY <2>1, <2>2
<1>8. CASE Load(w) \/ Enhance(w) \/ Extract(w) \/ FindExact(w) \/ FindSemantic(w)
           \/ CreateLosesRace(w) \/ CreatePlaceholder(w) \/ StatementErrs(w)
  <2>1. row' = row /\ links' = links /\ newQs' = newQs
    BY <1>8
    DEF Load, Enhance, Extract, FindExact, FindSemantic, CreateLosesRace,
        CreatePlaceholder, StatementErrs, storeVars, localVars
  <2> QED BY <2>1
<1> QED BY <1>2, <1>3, <1>4, <1>5, <1>6, <1>7, <1>8 DEF RunStep

-----------------------------------------------------------------------------
(* What every step keeps *)

\* A question goes on existing, as the same row, where it is linked.
Survives(t) ==
  /\ row'[t].status # "absent" /\ row'[t].id = row[t].id
  /\ \A i \in Images : <<i, t>> \in links => <<i, t>> \in links'

\* No request sees the question it is updating disappear.
RequestTypes ==
  /\ epc \in [Experts -> ExpertPcs]
  /\ subject \in [Experts -> (Texts \X Nat) \cup {Nothing}]
  /\ status \in [Experts -> QuestionStatuses]
  /\ todo \in [Experts -> SUBSET Images] /\ cleaned \in [Experts -> SUBSET Images]
  /\ want \in [Experts -> Images \cup {NoImage}]

\* One expert's share of the invariant.
RequestOK(e) ==
  /\ epc[e] # "idle" => subject[e] \in Texts \X Nat
  /\ epc[e] = "put" =>
       /\ HasId(subject[e][1], subject[e][2])
       /\ status[e] \in Reviews
       /\ \A i \in todo[e] : <<i, subject[e][1]>> \in links
  /\ epc[e] # "put" => todo[e] \cup cleaned[e] = {} /\ want[e] = NoImage
  /\ cleaned[e] # {} \/ want[e] # NoImage => status[e] = "verified"

RowsOK ==
  /\ StoreTypeOK
  /\ manual \subseteq Texts \X Nat
  /\ \A l \in links : Present(l[2])
  /\ ManualInv /\ ManualAnswersStay

LEMMA ReviewInvParts ==
  ReviewInv <=> /\ RunInv /\ RowsOK
                /\ RequestTypes /\ \A e \in Experts : RequestOK(e)
                /\ FirstRunInv /\ CleanedStaysClean
  BY DEF ReviewInv, ReviewTypeOK, RequestInv, ReopeningKeepsBytes, RowsOK,
         RequestTypes, RequestOK

LEMMA ReviewInvAfter ==
  ASSUME RunInv', RowsOK', RequestTypes', \A e \in Experts : RequestOK(e)',
         FirstRunInv', CleanedStaysClean'
  PROVE  ReviewInv'
  BY DEF ReviewInv, ReviewTypeOK, RequestInv, ReopeningKeepsBytes, RowsOK,
         RequestTypes, RequestOK

LEMMA ReviewInvInit == ReviewInit => ReviewInv
<1> SUFFICES ASSUME ReviewInit PROVE ReviewInv  OBVIOUS
<1>1. RunInv  BY InvInit DEF ReviewInit, PipelineInv
<1> USE PipelineAssumption DEF ReviewInit, ReviewRequestsInit, Init, StoreInit
<1>2. RowsOK
  BY <1>1 DEF RunInv, TypeOK, RowsOK, ManualInv, ManualAnswersStay
<1>3. RequestTypes
  BY DEF RequestTypes, ExpertPcs, QuestionStatuses, Nothing
<1>4. \A e \in Experts : RequestOK(e)  BY DEF RequestOK
<1>5. FirstRunInv /\ CleanedStaysClean
  BY DEF FirstRunInv, Untouched, CleanedStaysClean
<1> QED BY <1>1, <1>2, <1>3, <1>4, <1>5, ReviewInvParts

\* A step of the experts leaves every run as it is.
LEMMA RunsKept ==
  ASSUME RunInv, StoreTypeOK', UNCHANGED <<queueVars, localVars, pc, faults>>,
         \A t \in Texts : row'[t].id >= row[t].id
  PROVE  RunInv'
<1>1. TypeOK'  BY DEF RunInv, TypeOK, queueVars, localVars
<1>2. TriesLeft'  BY DEF RunInv, TriesLeft, queueVars
<1>3. \A v \in Workers : InPlace(v)'
  BY DEF RunInv, InPlace, InLoop, Text, Covers, localVars
<1>4. CreatedOnce' /\ VerdictsDontCollide'
  <2>1. \A v \in Workers : newQs'[v] \subseteq newQs[v]  BY DEF localVars
  <2> QED BY <2>1, NewQsFrame DEF RunInv
<1> QED BY <1>1, <1>2, <1>3, <1>4 DEF RunInv

\* Whoever does not move keeps his request; whoever is answered has none.
LEMMA RequestsKept ==
  ASSUME RequestTypes, \A f \in Experts : RequestOK(f),
         \/ UNCHANGED requestVars
         \/ \E e \in Experts : Respond(e),
         \A t \in LockedQuestions : Survives(t)
  PROVE  RequestTypes' /\ \A f \in Experts : RequestOK(f)'
<1>1. RequestTypes'
  BY DEF RequestTypes, requestVars, Respond, ExpertPcs, QuestionStatuses
<1>2. ASSUME NEW f \in Experts PROVE RequestOK(f)'
  <2>1. CASE /\ epc'[f] = "idle" /\ todo'[f] = {} /\ cleaned'[f] = {}
             /\ want'[f] = NoImage
    BY <2>1 DEF RequestOK
  <2>2. CASE /\ epc'[f] = epc[f] /\ subject'[f] = subject[f] /\ status'[f] = status[f]
             /\ todo'[f] = todo[f] /\ want'[f] = want[f] /\ cleaned'[f] = cleaned[f]
    <3>1. epc[f] = "put" => Survives(subject[f][1])
      BY DEF LockedQuestions
    <3>2. \A i \in todo[f] : i \in Images  BY DEF RequestTypes
    <3>3. epc[f] = "put" =>
            /\ HasId(subject[f][1], subject[f][2])'
            /\ \A i \in todo'[f] : <<i, subject'[f][1]>> \in links'
      BY <2>2, <3>1, <3>2 DEF RequestOK, Survives, HasId, Present
    <3> QED BY <2>2, <3>3 DEF RequestOK
  <2>3. CASE UNCHANGED requestVars  BY <2>2, <2>3 DEF requestVars
  <2>4. ASSUME NEW e \in Experts, Respond(e) PROVE RequestOK(f)'
    <3>1. CASE f = e  BY <2>1, <2>4, <3>1 DEF Respond, RequestTypes
    <3>2. CASE f # e  BY <2>2, <2>4, <3>2 DEF Respond, RequestTypes
    <3> QED BY <3>1, <3>2
  <2> QED BY <2>3, <2>4
<1> QED BY <1>1, <1>2

\* Rows: none that was entered by hand is somebody's to verify, and it changes
\* only for good.
LEMMA RowsKept ==
  ASSUME RunInv, RowsOK, StoreTypeOK',
         \A t \in Texts :
           /\ row'[t].id >= row[t].id
           /\ \/ row'[t].status = "absent"
              \/ row'[t].id = row[t].id /\ row'[t].status = row[t].status
                   /\ row'[t].by = row[t].by
              \/ row'[t].by = "expert",
         \A l \in links' : row'[l[2]].status # "absent",
         newQs' = newQs,
         \A m \in manual' \ manual :
           m \in Texts \X Nat /\ m[2] = row[m[1]].id + 1 /\ row'[m[1]].id = m[2]
  PROVE  RowsOK'
<1>0. StoreTypeOK /\ TypeOK /\ CreatedOnce /\ ManualInv /\ ManualAnswersStay
  BY DEF RunInv, RowsOK, TypeOK
<1>1. \A t \in Texts : row[t].id \in Nat /\ row'[t].id \in Nat
  BY <1>0 DEF StoreTypeOK, Rows
<1>2. manual \subseteq Texts \X Nat /\ manual' \subseteq Texts \X Nat  BY DEF RowsOK
<1>3. \A l \in links' : Present(l[2])'  BY DEF Present
<1>4. ASSUME NEW m \in manual'
      PROVE  /\ m[2] <= row'[m[1]].id
             /\ \A w \in Workers : m \notin newQs'[w]
             /\ HasId(m[1], m[2])' => row'[m[1]].by = "expert"
  <2>1. m[1] \in Texts /\ m[2] \in Nat  BY <1>2
  <2>2. CASE m \in manual
    <3>1. m[2] <= row[m[1]].id /\ \A w \in Workers : m \notin newQs[w]
      BY <1>0, <2>2 DEF ManualInv
    <3>2. m[2] <= row'[m[1]].id  BY <1>1, <2>1, <3>1
    <3>3. ASSUME HasId(m[1], m[2])' PROVE row'[m[1]].by = "expert"
      <4>1. row'[m[1]].status # "absent" /\ row'[m[1]].id = m[2]
        BY <3>3 DEF HasId, Present
      <4>2. CASE /\ row'[m[1]].id = row[m[1]].id /\ row'[m[1]].status = row[m[1]].status
                 /\ row'[m[1]].by = row[m[1]].by
        BY <1>0, <2>2, <4>1, <4>2 DEF ManualAnswersStay, HasId, Present
      <4> QED BY <2>1, <4>1, <4>2
    <3> QED BY <3>1, <3>2, <3>3
  <2>3. CASE m \notin manual
    <3>1. m[2] = row[m[1]].id + 1 /\ row'[m[1]].id = m[2]  BY <2>3
    <3>2. \A w \in Workers : m \notin newQs[w]
      <4>1. ASSUME NEW w \in Workers, m \in newQs[w] PROVE FALSE
        <5>1. m[2] <= row[m[1]].id  BY <1>0, <4>1 DEF CreatedOnce
        <5> QED BY <1>1, <2>1, <3>1, <5>1
      <4> QED BY <4>1
    <3>3. row'[m[1]].status # "absent" => row'[m[1]].by = "expert"
      BY <1>1, <2>1, <3>1
    <3> QED BY <1>1, <2>1, <3>1, <3>2, <3>3 DEF HasId, Present
  <2> QED BY <2>2, <2>3
<1>5. ManualInv' /\ ManualAnswersStay'
  BY <1>4 DEF ManualInv, ManualAnswersStay
<1> QED BY <1>2, <1>3, <1>5 DEF RowsOK

\* Bytes: a step of the experts cleans what it cleans altogether.
LEMMA BytesKept ==
  ASSUME FirstRunInv, CleanedStaysClean, UNCHANGED <<queueVars, localVars, pc>>,
         \A i \in Images : Untouched(i) => Untouched(i)',
         \A i \in Images : \/ original'[i] = original[i] /\ enhanced'[i] = enhanced[i]
                           \/ ~enhanced'[i]
  PROVE  FirstRunInv' /\ CleanedStaysClean'
<1>1. FirstRunInv'  BY DEF FirstRunInv, queueVars, localVars
<1>2. CleanedStaysClean'  BY DEF CleanedStaysClean, queueVars
<1> QED BY <1>1, <1>2

-----------------------------------------------------------------------------
(* The experts' steps *)

\* A request that moves on without touching a row.
LEMMA LocalStep ==
  ASSUME ReviewInv, UNCHANGED <<vars, manual>>,
         RequestTypes', \A e \in Experts : RequestOK(e)',
         \A i \in Images : Untouched(i) => Untouched(i)'
  PROVE  ReviewInv'
<1>1. RunInv /\ RowsOK /\ FirstRunInv /\ CleanedStaysClean  BY ReviewInvParts
<1>2. RunInv'  BY <1>1, StutterKeepsInv
<1>3. RowsOK'
  BY <1>1 DEF RowsOK, StoreTypeOK, ManualInv, ManualAnswersStay, HasId, Present,
              vars, storeVars, localVars
<1>4. UNCHANGED <<queueVars, localVars, pc>> /\ UNCHANGED <<original, enhanced>>
  BY DEF vars, storeVars
<1>5. FirstRunInv' /\ CleanedStaysClean'  BY <1>1, <1>4, BytesKept
<1> QED BY <1>2, <1>3, <1>5, ReviewInvAfter

\* A request that is answered without touching a row.
LEMMA AnswerStep ==
  ASSUME ReviewInv, NEW e \in Experts, Respond(e), UNCHANGED <<vars, manual>>
  PROVE  ReviewInv'
<1>1. RequestTypes /\ \A f \in Experts : RequestOK(f)  BY ReviewInvParts
<1>2. UNCHANGED <<row, links, original>>  BY DEF vars, storeVars
<1>3. \A t \in LockedQuestions : Survives(t)
  BY <1>1, <1>2 DEF LockedQuestions, RequestOK, HasId, Present, Survives
<1>4. RequestTypes' /\ \A f \in Experts : RequestOK(f)'
  BY <1>1, <1>3, RequestsKept
<1>5. \A i \in Images : Untouched(i) => Untouched(i)'
  BY <1>1, <1>2, PipelineAssumption DEF Untouched, Respond, RequestTypes
<1> QED BY <1>4, <1>5, LocalStep

\* What a question is taken up with.
LEMMA RowTypes ==
  ASSUME ReviewInv, NEW q \in Texts
  PROVE  /\ <<q, row[q].id>> \in Texts \X Nat /\ <<q, 0>> \in Texts \X Nat
         /\ row[q].status \in QuestionStatuses
<1>1. row \in [Texts -> Rows]  BY ReviewInvParts DEF RowsOK, StoreTypeOK
<1> QED BY <1>1 DEF Rows

LEMMA PutSteps ==
  ASSUME ReviewInv, NEW e \in Experts,
         \/ \E q \in Texts, s \in Reviews : UpdateByExpert(e, q, s)
         \/ \E i \in Images : CountImage(e, i)
         \/ CleanImage(e)
  PROVE  ReviewInv'
<1>0. RequestTypes /\ \A f \in Experts : RequestOK(f)  BY ReviewInvParts
<1>1. UNCHANGED <<vars, manual>> /\ UNCHANGED <<row, links, original>>
  BY DEF UpdateByExpert, CountImage, CleanImage, vars, storeVars
<1>2. ASSUME NEW q \in Texts, NEW s \in Reviews, UpdateByExpert(e, q, s)
      PROVE  /\ RequestTypes' /\ \A f \in Experts : RequestOK(f)'
             /\ \A i \in Images : Untouched(i) => Untouched(i)'
  <2> DEFINE listed == {i \in Images : <<i, q>> \in links}
  <2>1. <<q, row[q].id>> \in Texts \X Nat  BY RowTypes
  <2>2. /\ epc[e] = "idle" /\ epc' = [epc EXCEPT ![e] = "put"]
        /\ subject' = [subject EXCEPT ![e] = <<q, row[q].id>>]
        /\ status' = [status EXCEPT ![e] = s]
        /\ todo' = [todo EXCEPT ![e] = listed]
        /\ UNCHANGED <<want, cleaned>>
        /\ Present(q)
    BY <1>2 DEF UpdateByExpert
  <2>3. listed \subseteq Images /\ \A i \in listed : <<i, q>> \in links  OBVIOUS
  <2>4. cleaned[e] = {} /\ want[e] = NoImage
    BY <1>0, <2>2 DEF RequestOK
  <2> HIDE DEF listed
  <2>5. RequestTypes'
    BY <1>0, <2>1, <2>2, <2>3
    DEF RequestTypes, ExpertPcs, Reviews, QuestionStatuses
  <2>6. ASSUME NEW f \in Experts PROVE RequestOK(f)'
    <3>1. CASE f = e
      <4>1. /\ epc'[e] = "put" /\ subject'[e] = <<q, row[q].id>> /\ status'[e] = s
            /\ todo'[e] = listed /\ cleaned'[e] = {} /\ want'[e] = NoImage
        BY <1>0, <2>2, <2>4 DEF RequestTypes
      <4> QED
        BY <1>1, <2>1, <2>2, <2>3, <3>1, <4>1 DEF RequestOK, HasId, Present
    <3>2. CASE f # e
      BY <1>0, <1>1, <2>2, <3>2 DEF RequestOK, RequestTypes, HasId, Present
    <3> QED BY <3>1, <3>2
  <2>7. ASSUME NEW i \in Images, Untouched(i) PROVE Untouched(i)'
    <3>1. i \notin listed  BY <2>3, <2>7 DEF Untouched
    <3> QED BY <1>0, <1>1, <2>2, <2>7, <3>1 DEF Untouched, RequestTypes
  <2> QED BY <2>5, <2>6, <2>7
<1>3. ASSUME NEW i \in Images, CountImage(e, i)
      PROVE  /\ RequestTypes' /\ \A f \in Experts : RequestOK(f)'
             /\ \A k \in Images : Untouched(k) => Untouched(k)'
  <2>1. /\ epc[e] = "put" /\ i \in todo[e] /\ want[e] = NoImage
        /\ todo' = [todo EXCEPT ![e] = todo[e] \ {i}]
        /\ want' = [want EXCEPT ![e] = IF Unresolved(e, i) = {} THEN i ELSE NoImage]
        /\ UNCHANGED <<epc, subject, status, cleaned>>
    BY <1>3 DEF CountImage
  <2>2. RequestTypes'  BY <1>0, <2>1 DEF RequestTypes
  \* The question itself is one of those that are counted.
  <2>3. Unresolved(e, i) = {} => status[e] = "verified"
    <3>1. /\ subject[e] \in Texts \X Nat /\ <<i, subject[e][1]>> \in links
          /\ status[e] \in Reviews
      BY <1>0, <2>1 DEF RequestOK
    <3>2. StatusSeenBy(e, subject[e][1]) = status[e]  BY DEF StatusSeenBy
    <3>3. subject[e][1] \in Texts  BY <3>1
    <3>4. status[e] \in {"moderation", "error"}
          => subject[e][1] \in Unresolved(e, i)
      BY <3>1, <3>2, <3>3 DEF Unresolved
    <3> QED BY <3>1, <3>4 DEF Reviews
  <2>4. ASSUME NEW f \in Experts PROVE RequestOK(f)'
    <3>1. CASE f = e
      <4>1. want'[e] # NoImage => status[e] = "verified"
        BY <1>0, <2>1, <2>3 DEF RequestTypes
      <4>2. todo'[e] \subseteq todo[e]  BY <1>0, <2>1 DEF RequestTypes
      <4> QED
        BY <1>0, <1>1, <2>1, <3>1, <4>1, <4>2 DEF RequestOK, HasId, Present
    <3>2. CASE f # e
      BY <1>0, <1>1, <2>1, <3>2 DEF RequestOK, RequestTypes, HasId, Present
    <3> QED BY <3>1, <3>2
  <2>5. ASSUME NEW k \in Images, Untouched(k) PROVE Untouched(k)'
    <3>1. k # i /\ k # NoImage  BY <2>1, <2>5, PipelineAssumption DEF Untouched
    <3> QED BY <1>0, <1>1, <2>1, <2>5, <3>1 DEF Untouched, RequestTypes
  <2> QED BY <2>2, <2>4, <2>5
<1>4. CASE CleanImage(e)
  <2>1. /\ epc[e] = "put" /\ want[e] \in Images
        /\ cleaned' = [cleaned EXCEPT ![e] = cleaned[e] \cup {want[e]}]
        /\ want' = [want EXCEPT ![e] = NoImage]
        /\ UNCHANGED <<epc, subject, status, todo>>
    BY <1>4 DEF CleanImage
  <2>2. RequestTypes'  BY <1>0, <2>1 DEF RequestTypes
  <2>3. status[e] = "verified"
    BY <1>0, <2>1, PipelineAssumption DEF RequestOK
  <2>4. \A f \in Experts : RequestOK(f)'
    BY <1>0, <1>1, <2>1, <2>3 DEF RequestOK, RequestTypes, HasId, Present
  <2>5. ASSUME NEW k \in Images, Untouched(k) PROVE Untouched(k)'
    <3>1. k # want[e] /\ k # NoImage  BY <2>5, PipelineAssumption DEF Untouched
    <3> QED BY <1>0, <1>1, <2>1, <2>5, <3>1 DEF Untouched, RequestTypes
  <2> QED BY <1>1, <2>2, <2>4, <2>5, LocalStep
<1> QED BY <1>1, <1>2, <1>3, <1>4, LocalStep

LEMMA LookSteps ==
  ASSUME ReviewInv, NEW e \in Experts,
         \/ \E t \in Texts : PostLooks(e, t)
         \/ \E q \in Texts : DeleteFinds(e, q)
         \/ DeleteCounts(e)
  PROVE  ReviewInv'
<1>0. RequestTypes /\ \A f \in Experts : RequestOK(f)  BY ReviewInvParts
<1>1. UNCHANGED <<vars, manual>> /\ UNCHANGED <<row, links, original>>
  BY DEF PostLooks, DeleteFinds, DeleteCounts, vars, storeVars
<1>2. ASSUME NEW to \in {"posting", "found", "counted"}, epc[e] # "put",
             epc' = [epc EXCEPT ![e] = to],
             NEW s \in Texts \X Nat, subject' = [subject EXCEPT ![e] = s],
             status' \in [Experts -> QuestionStatuses],
             \A f \in Experts \ {e} : status'[f] = status[f],
             UNCHANGED <<todo, want, cleaned>>
      PROVE  ReviewInv'
  <2>1. RequestTypes'  BY <1>0, <1>2 DEF RequestTypes, ExpertPcs
  <2>2. \A f \in Experts : RequestOK(f)'
    BY <1>0, <1>1, <1>2 DEF RequestOK, RequestTypes, HasId, Present
  <2>3. \A i \in Images : Untouched(i) => Untouched(i)'
    BY <1>1, <1>2 DEF Untouched
  <2> QED BY <1>1, <2>1, <2>2, <2>3, LocalStep
<1>3. status \in [Experts -> QuestionStatuses] /\ subject \in [Experts -> (Texts \X Nat) \cup {Nothing}]
  BY <1>0 DEF RequestTypes
<1>4. ASSUME NEW t \in Texts, PostLooks(e, t) PROVE ReviewInv'
  BY <1>2, <1>3, <1>4, RowTypes DEF PostLooks
<1>5. ASSUME NEW q \in Texts, DeleteFinds(e, q) PROVE ReviewInv'
  BY <1>2, <1>3, <1>5, RowTypes DEF DeleteFinds
<1>6. CASE DeleteCounts(e)
  <2>1. CASE Respond(e)  BY <1>1, <2>1, AnswerStep
  <2>2. CASE epc' = [epc EXCEPT ![e] = "counted"]
             /\ UNCHANGED <<subject, status, todo, want, cleaned>>
    <3>1. epc[e] = "found" /\ subject[e] \in Texts \X Nat
      BY <1>0, <1>6 DEF DeleteCounts, RequestOK
    <3>2. subject' = [subject EXCEPT ![e] = subject[e]]  BY <1>3, <2>2
    <3> QED BY <1>2, <1>3, <2>2, <3>1, <3>2
  <2> QED BY <1>6, <2>1, <2>2 DEF DeleteCounts
<1> QED BY <1>4, <1>5, <1>6

\* The steps that write rows, one expert's answer each, and the import's.
LEMMA WritingStep ==
  ASSUME ReviewInv, StoreTypeOK',
         UNCHANGED <<queueVars, localVars, pc, faults>>,
         \/ UNCHANGED requestVars
         \/ \E e \in Experts : Respond(e),
         links' \subseteq links,
         \A t \in Texts :
           /\ row'[t].id >= row[t].id
           /\ \/ row'[t].status = "absent"
              \/ row'[t].id = row[t].id /\ row'[t].status = row[t].status
                   /\ row'[t].by = row[t].by
              \/ row'[t].by = "expert",
         \A l \in links' : row'[l[2]].status # "absent",
         \A m \in manual' \ manual :
           m \in Texts \X Nat /\ m[2] = row[m[1]].id + 1 /\ row'[m[1]].id = m[2],
         \A t \in LockedQuestions : Survives(t),
         \A i \in Images : Untouched(i) => original'[i],
         \A i \in Images : \/ original'[i] = original[i] /\ enhanced'[i] = enhanced[i]
                           \/ ~enhanced'[i]
  PROVE  ReviewInv'
<1>0. /\ RunInv /\ RowsOK /\ FirstRunInv /\ CleanedStaysClean
      /\ RequestTypes /\ \A f \in Experts : RequestOK(f)
  BY ReviewInvParts
<1>1. RunInv'  BY <1>0, RunsKept
<1>2. RequestTypes' /\ \A f \in Experts : RequestOK(f)'  BY <1>0, RequestsKept
<1>3. RowsOK'
  <2>1. newQs' = newQs  BY DEF localVars
  <2> QED BY <1>0, <2>1, RowsKept
<1>4. FirstRunInv' /\ CleanedStaysClean'
  <2>1. ASSUME NEW i \in Images, Untouched(i) PROVE Untouched(i)'
    <3>1. \A f \in Experts : i \notin todo'[f] \cup cleaned'[f] /\ want'[f] # i
      BY <1>0, <2>1, PipelineAssumption
      DEF Untouched, requestVars, Respond, RequestTypes
    <3>2. original'[i] /\ \A q \in Texts : <<i, q>> \notin links'
      BY <2>1 DEF Untouched
    <3> QED BY <3>1, <3>2 DEF Untouched
  <2>2. UNCHANGED <<queueVars, localVars, pc>>  OBVIOUS
  <2> QED BY <1>0, <2>1, <2>2, BytesKept
<1> QED BY <1>1, <1>2, <1>3, <1>4, ReviewInvAfter

\* A locked question is there, and linked only from images of the store.
LEMMA LockedIsThere ==
  ASSUME ReviewInv, NEW t \in LockedQuestions
  PROVE  t \in Texts /\ Present(t)
<1>1. PICK e \in Experts : epc[e] = "put" /\ t = subject[e][1]
  BY DEF LockedQuestions
<1>2. RequestOK(e)  BY ReviewInvParts
<1> QED BY <1>1, <1>2 DEF RequestOK, HasId

LEMMA CommitStep ==
  ASSUME ReviewInv, NEW e \in Experts, CommitUpdate(e)
  PROVE  ReviewInv'
<1>0. RowsOK /\ RequestTypes /\ StoreTypeOK /\ RequestOK(e)
  BY ReviewInvParts DEF RowsOK
<1> DEFINE q == subject[e][1]
<1>1. q \in Texts /\ status[e] \in Reviews /\ Present(q)
  BY <1>0 DEF CommitUpdate, RequestOK, HasId
<1>2. row' = [row EXCEPT ![q].status = status[e], ![q].by = "expert"]
  BY DEF CommitUpdate, WriteReview
<1> HIDE DEF q
<1>3. /\ row' \in [Texts -> Rows]
      /\ \A t \in Texts \ {q} : row'[t] = row[t]
      /\ row'[q].id = row[q].id /\ row'[q].by = "expert" /\ row'[q].status = status[e]
      /\ \A t \in Texts : row[t].id \in Nat
  BY <1>0, <1>1, <1>2
  DEF StoreTypeOK, Rows, Reviews, QuestionStatuses, Authors
<1>4. /\ links' = links /\ manual' = manual /\ Respond(e)
      /\ UNCHANGED <<queueVars, localVars, pc, faults>>
      /\ original' = [i \in Images |-> original[i] /\ i \notin cleaned[e]]
      /\ enhanced' = [i \in Images |-> enhanced[i] /\ i \notin cleaned[e]]
  BY DEF CommitUpdate
<1>5. StoreTypeOK'
  <2>1. original' \in [Images -> BOOLEAN] /\ enhanced' \in [Images -> BOOLEAN]
    BY <1>4
  <2> QED BY <1>0, <1>3, <1>4, <2>1 DEF StoreTypeOK
<1>6. \A t \in Texts :
        /\ row'[t].id >= row[t].id
        /\ \/ row'[t].id = row[t].id /\ row'[t].status = row[t].status
                /\ row'[t].by = row[t].by
           \/ row'[t].by = "expert"
  BY <1>3
<1>7. \A t \in Texts : Present(t) => row'[t].status # "absent" /\ row'[t].id = row[t].id
  BY <1>1, <1>3 DEF Present, Reviews
<1>8. \A l \in links' : row'[l[2]].status # "absent"
  BY <1>0, <1>4, <1>7 DEF RowsOK, StoreTypeOK
<1>9. \A t \in LockedQuestions : Survives(t)
  BY <1>4, <1>7, LockedIsThere DEF Survives
<1>10. ASSUME NEW i \in Images
       PROVE  /\ Untouched(i) => original'[i]
              /\ \/ original'[i] = original[i] /\ enhanced'[i] = enhanced[i]
                 \/ ~enhanced'[i]
  BY <1>0, <1>4, <1>10 DEF Untouched, StoreTypeOK
<1> QED BY <1>4, <1>5, <1>6, <1>8, <1>9, <1>10, WritingStep

\* Inserting a row for an expert.
LEMMA InsertStep ==
  ASSUME ReviewInv, NEW t \in Texts, NEW embedded \in BOOLEAN,
         InsertQuestion(t, "verified", "expert", embedded),
         manual' = manual \cup {<<t, row'[t].id>>},
         UNCHANGED <<links, original, enhanced, queueVars, localVars, pc, faults>>,
         \/ UNCHANGED requestVars
         \/ \E e \in Experts : Respond(e)
  PROVE  ReviewInv'
<1>0. RowsOK /\ StoreTypeOK  BY ReviewInvParts DEF RowsOK
<1>1. /\ row' \in [Texts -> Rows]
      /\ row'[t].id = row[t].id + 1 /\ row[t].id \in Nat /\ row'[t].by = "expert"
      /\ \A u \in Texts \ {t} : row'[u] = row[u]
      /\ \A u \in Texts : row'[u].id >= row[u].id
  BY <1>0, InsertFacts DEF QuestionStatuses, Authors
<1>2. StoreTypeOK'  BY <1>0, <1>1 DEF StoreTypeOK
<1>3. ~Present(t)  BY DEF InsertQuestion
<1>4. \A u \in Texts : Present(u) => row'[u].status # "absent" /\ row'[u].id = row[u].id
  BY <1>1, <1>3 DEF Present
<1>5. \A l \in links' : row'[l[2]].status # "absent"
  BY <1>0, <1>4 DEF RowsOK, StoreTypeOK
<1>6. \A u \in LockedQuestions : Survives(u)
  BY <1>4, LockedIsThere DEF Survives
<1>7. \A u \in Texts :
        /\ row'[u].id >= row[u].id
        /\ \/ row'[u].id = row[u].id /\ row'[u].status = row[u].status
                /\ row'[u].by = row[u].by
           \/ row'[u].by = "expert"
  BY <1>1
<1>8. \A m \in manual' \ manual :
        m \in Texts \X Nat /\ m[2] = row[m[1]].id + 1 /\ row'[m[1]].id = m[2]
  <2>1. ASSUME NEW m \in manual' \ manual
        PROVE  m \in Texts \X Nat /\ m[2] = row[m[1]].id + 1 /\ row'[m[1]].id = m[2]
    <3>1. m = <<t, row'[t].id>> /\ row'[t].id \in Nat  BY <1>1, <2>1
    <3> QED BY <1>1, <3>1
  <2> QED BY <2>1
<1>9. \A i \in Images : /\ Untouched(i) => original'[i]
                        /\ original'[i] = original[i] /\ enhanced'[i] = enhanced[i]
  BY DEF Untouched
<1> QED BY <1>2, <1>5, <1>6, <1>7, <1>8, <1>9, WritingStep

LEMMA PostStep ==
  ASSUME ReviewInv, NEW e \in Experts, PostInserts(e)
  PROVE  ReviewInv'
<1> DEFINE t == subject[e][1]
<1>1. t \in Texts
  BY ReviewInvParts DEF PostInserts, RequestOK
<1>2. PICK embedded \in BOOLEAN : InsertQuestion(t, "verified", "expert", embedded)
  BY DEF PostInserts
<1>3. /\ manual' = manual \cup {<<t, row'[t].id>>} /\ Respond(e)
      /\ UNCHANGED <<links, original, enhanced, queueVars, localVars, pc, faults>>
  BY DEF PostInserts
<1> HIDE DEF t
<1> QED BY <1>1, <1>2, <1>3, InsertStep

LEMMA ImportStep ==
  ASSUME ReviewInv, NEW t \in Texts, NEW embedded \in BOOLEAN, ImportRow(t, embedded)
  PROVE  ReviewInv'
<1>0. RowsOK /\ StoreTypeOK  BY ReviewInvParts DEF RowsOK
<1>1. UNCHANGED <<links, original, enhanced, queueVars, localVars, pc, faults, requestVars>>
  BY DEF ImportRow
<1>2. CASE /\ InsertQuestion(t, "verified", "expert", embedded)
           /\ manual' = manual \cup {<<t, row'[t].id>>}
  BY <1>1, <1>2, InsertStep
<1>3. CASE /\ Present(t) /\ t \notin LockedQuestions /\ manual' = manual
           /\ row' = [row EXCEPT ![t].status = "verified", ![t].by = "expert",
                                 ![t].embedded = @ \/ embedded]
  <2>1. row[t] \in Rows /\ (row[t].embedded \/ embedded) \in BOOLEAN
    BY <1>0 DEF StoreTypeOK, Rows
  <2>2. /\ row' \in [Texts -> Rows]
        /\ row'[t].id = row[t].id /\ row'[t].by = "expert" /\ row'[t].status = "verified"
        /\ \A u \in Texts \ {t} : row'[u] = row[u]
        /\ \A u \in Texts : row[u].id \in Nat
    BY <1>0, <1>3, <2>1 DEF StoreTypeOK, Rows, QuestionStatuses, Authors
  <2>3. StoreTypeOK'  BY <1>0, <1>1, <2>2 DEF StoreTypeOK
  <2>4. \A u \in Texts : Present(u) => row'[u].status # "absent" /\ row'[u].id = row[u].id
    BY <2>2 DEF Present
  <2>5. \A l \in links' : row'[l[2]].status # "absent"
    BY <1>0, <1>1, <2>4 DEF RowsOK, StoreTypeOK
  <2>6. \A u \in LockedQuestions : Survives(u)
    BY <1>1, <2>4, LockedIsThere DEF Survives
  <2>7. \A u \in Texts :
          /\ row'[u].id >= row[u].id
          /\ \/ row'[u].id = row[u].id /\ row'[u].status = row[u].status
                  /\ row'[u].by = row[u].by
             \/ row'[u].by = "expert"
    BY <2>2
  <2>8. \A i \in Images : /\ Untouched(i) => original'[i]
                          /\ original'[i] = original[i] /\ enhanced'[i] = enhanced[i]
    BY <1>1 DEF Untouched
  <2> QED BY <1>1, <1>3, <2>3, <2>5, <2>6, <2>7, <2>8, WritingStep
<1> QED BY <1>2, <1>3 DEF ImportRow

LEMMA DeleteStep ==
  ASSUME ReviewInv, NEW e \in Experts, DeleteRuns(e)
  PROVE  ReviewInv'
<1>0. RowsOK /\ StoreTypeOK  BY ReviewInvParts DEF RowsOK
<1> DEFINE q == subject[e][1]
<1>1. q \in Texts
  BY ReviewInvParts DEF DeleteRuns, RequestOK
<1>2. /\ Respond(e)
      /\ UNCHANGED <<original, enhanced, queueVars, localVars, pc, faults, manual>>
      /\ \/ q \notin LockedQuestions /\ DeleteQuestion(q)
         \/ UNCHANGED <<row, links>>
  BY DEF DeleteRuns
<1> HIDE DEF q
<1>3. CASE UNCHANGED <<row, links>>
  <2>1. UNCHANGED <<vars, manual>>  BY <1>2, <1>3 DEF vars, storeVars
  <2> QED BY <1>2, <2>1, AnswerStep
<1>4. CASE q \notin LockedQuestions /\ DeleteQuestion(q)
  <2>1. [id |-> row[q].id, status |-> "absent", by |-> "nobody", embedded |-> FALSE]
          \in Rows
    BY <1>0, <1>1 DEF StoreTypeOK, Rows, QuestionStatuses, Authors
  <2>2. row' = [row EXCEPT ![q] = [id |-> row[q].id, status |-> "absent",
                                   by |-> "nobody", embedded |-> FALSE]]
    BY <1>4 DEF DeleteQuestion
  <2>3. /\ row' \in [Texts -> Rows]
        /\ row'[q].id = row[q].id /\ row'[q].status = "absent"
        /\ \A t \in Texts \ {q} : row'[t] = row[t]
        /\ \A t \in Texts : row[t].id \in Nat
    BY <1>0, <1>1, <2>1, <2>2 DEF StoreTypeOK, Rows
  <2>4. links' \subseteq links /\ \A l \in links : l \in links' <=> l[2] # q
    BY <1>4 DEF DeleteQuestion
  <2>5. StoreTypeOK'  BY <1>0, <1>2, <2>3, <2>4 DEF StoreTypeOK
  <2>6. \A l \in links' : row'[l[2]].status # "absent"
    BY <1>0, <2>3, <2>4 DEF RowsOK, StoreTypeOK, Present
  <2>7. ASSUME NEW t \in LockedQuestions PROVE Survives(t)
    <3>1. t \in Texts /\ Present(t) /\ t # q  BY <1>4, <2>7, LockedIsThere
    <3>2. row'[t] = row[t]  BY <2>3, <3>1
    <3>3. \A i \in Images : <<i, t>> \in links => <<i, t>> \in links'
      BY <2>4, <3>1
    <3> QED BY <3>1, <3>2, <3>3 DEF Survives, Present
  <2>8. \A t \in Texts :
          /\ row'[t].id >= row[t].id
          /\ \/ row'[t].status = "absent"
             \/ row'[t].id = row[t].id /\ row'[t].status = row[t].status
                  /\ row'[t].by = row[t].by
    BY <2>3
  <2>9. \A i \in Images : /\ Untouched(i) => original'[i]
                          /\ original'[i] = original[i] /\ enhanced'[i] = enhanced[i]
    BY <1>2 DEF Untouched
  <2> QED BY <1>2, <2>4, <2>5, <2>6, <2>7, <2>8, <2>9, WritingStep
<1> QED BY <1>2, <1>3, <1>4

-----------------------------------------------------------------------------
(* The workers' steps *)

LEMMA RunStepBytes ==
  ASSUME TypeOK, NEW w \in Workers, RunStep(w)
  PROVE  /\ original' = original /\ pc[w] # "idle"
         /\ img'[w] \in {img[w], NoImage}
         /\ pc'[w] \in {"load", "enhance"} => pc[w] = "load"
         /\ \A l \in links' \ links : pc[w] = "link" /\ l[1] = img[w]
         /\ \A i \in Images : \/ enhanced'[i] = enhanced[i]
                              \/ pc[w] = "enhance" /\ i = img[w]
<1> USE DEF TypeOK, StoreTypeOK, storeVars, localVars, Goto
<1>1. CASE Load(w) \/ Enhance(w) \/ CreateLosesRace(w) \/ CreatePlaceholder(w)
           \/ CreateErrsAfterInsert(w) \/ Create(w)
  BY <1>1 DEF Load, Enhance, CreateLosesRace, CreatePlaceholder,
              CreateErrsAfterInsert, Create
<1>2. CASE StatementErrs(w)  BY <1>2 DEF StatementErrs, FalliblePcs
<1>3. CASE Extract(w)
  <2>1. pc'[w] \in {"placeholder", "exact"}  BY <1>3 DEF Extract
  <2> QED BY <1>3, <2>1 DEF Extract
<1>4. CASE FindExact(w) \/ FindSemantic(w)  BY <1>4 DEF FindExact, FindSemantic
<1>5. CASE Link(w)
  <2>1. pc'[w] \in {"exact", "verify", "completing"}  BY <1>5 DEF Link, AfterLink
  <2> QED BY <1>5, <2>1 DEF Link, LinkQuestion
<1>6. CASE Verify(w)
  <2>1. pc'[w] \in {"completing", "verdicts"}  BY <1>6 DEF Verify
  <2> QED BY <1>6, <2>1 DEF Verify
<1>7. CASE StoreVerdict(w)
  <2>1. pc'[w] \in {"completing", "verdicts"}  BY <1>7 DEF StoreVerdict
  <2> QED BY <1>7, <2>1 DEF StoreVerdict
<1>8. CASE Complete(w) \/ Fail(w)  BY <1>8 DEF Complete, Fail, Settle, Forget
<1>9. CASE Vanish(w)  BY <1>9 DEF Vanish, Forget
<1> QED BY <1>1, <1>2, <1>3, <1>4, <1>5, <1>6, <1>7, <1>8, <1>9 DEF RunStep

\* A step that changes no request leaves untouched what nobody links.
LEMMA UntouchedFrame ==
  ASSUME NEW i \in Images, Untouched(i), original' = original, UNCHANGED requestVars,
         \A q \in Texts : <<i, q>> \in links' => <<i, q>> \in links
  PROVE  Untouched(i)'
  BY DEF Untouched, requestVars

LEMMA RunStepKeepsBytes ==
  ASSUME ReviewInv, NEW w \in Workers, RunStep(w), UNCHANGED requestVars
  PROVE  FirstRunInv' /\ CleanedStaysClean'
<1>0. TypeOK /\ FirstRunInv /\ CleanedStaysClean  BY ReviewInvParts DEF RunInv
<1>1. /\ original' = original /\ tries' = tries /\ img[w] # NoImage
      /\ img'[w] \in {img[w], NoImage}
      /\ pc'[w] \in {"load", "enhance"} => pc[w] = "load"
      /\ \A l \in links' \ links : pc[w] = "link" /\ l[1] = img[w]
      /\ \A i \in Images : \/ enhanced'[i] = enhanced[i]
                           \/ pc[w] = "enhance" /\ i = img[w]
      /\ \A v \in Workers \ {w} : pc'[v] = pc[v] /\ img'[v] = img[v]
  BY <1>0, RunStepBytes, RunStepFrame DEF TypeOK
<1>2. \A v \in Workers, i \in Images : img'[v] = i => img[v] = i
  BY <1>1, PipelineAssumption
<1>3. ASSUME NEW i \in Images, Untouched(i), img[w] = i => pc[w] # "link"
      PROVE  Untouched(i)'
  BY <1>1, <1>3, UntouchedFrame
<1>4. ASSUME NEW i \in Images
      PROVE  /\ tries'[i] = 0 => Untouched(i)' /\ \A v \in Workers : img'[v] # i
             /\ tries'[i] <= 1 =>
                  \A v \in Workers : img'[v] = i =>
                    /\ \A u \in Workers : img'[u] = i => u = v
                    /\ pc'[v] \in {"load", "enhance"} => Untouched(i)'
  <2>1. CASE tries[i] = 0
    <3>1. Untouched(i) /\ \A v \in Workers : img[v] # i
      BY <1>0, <2>1 DEF FirstRunInv
    <3> QED BY <1>2, <1>3, <3>1
  <2>2. ASSUME tries[i] <= 1, NEW v \in Workers, img'[v] = i
        PROVE  /\ \A u \in Workers : img'[u] = i => u = v
               /\ pc'[v] \in {"load", "enhance"} => Untouched(i)'
    <3>1. /\ img[v] = i /\ \A u \in Workers : img[u] = i => u = v
          /\ pc[v] \in {"load", "enhance"} => Untouched(i)
      BY <1>0, <1>2, <2>2 DEF FirstRunInv
    <3>2. ASSUME pc'[v] \in {"load", "enhance"} PROVE Untouched(i)'
      <4>1. pc[v] \in {"load", "enhance"}  BY <1>1, <3>2
      <4>2. img[w] = i => pc[w] # "link"  BY <3>1, <4>1
      <4> QED BY <1>3, <3>1, <4>1, <4>2
    <3> QED BY <1>2, <3>1, <3>2
  <2> QED BY <1>1, <2>1, <2>2
<1>5. FirstRunInv'  BY <1>4 DEF FirstRunInv
<1>6. CleanedStaysClean'
  <2> SUFFICES ASSUME NEW i \in Images, ~original[i], tries[i] <= 1
               PROVE  ~enhanced'[i]
    BY <1>1 DEF CleanedStaysClean
  <2>1. ~enhanced[i]  BY <1>0 DEF CleanedStaysClean
  <2>2. ~(pc[w] = "enhance" /\ i = img[w])
    BY <1>0 DEF FirstRunInv, Untouched
  <2> QED BY <1>1, <2>1, <2>2
<1> QED BY <1>5, <1>6

LEMMA RunStepKeepsReview ==
  ASSUME ReviewInv, NEW w \in Workers, RunStep(w), UNCHANGED <<requestVars, manual>>
  PROVE  ReviewInv'
<1>0. /\ RunInv /\ RowsOK /\ StoreTypeOK /\ TypeOK /\ ManualInv /\ ManualAnswersStay
      /\ RequestTypes /\ \A f \in Experts : RequestOK(f)
  BY ReviewInvParts DEF RowsOK, RunInv
<1>1. RunInv' /\ StoreTypeOK'  BY <1>0, RunStepKeepsInv DEF RunInv, TypeOK
<1>2. /\ \A t \in Texts :
           \/ row'[t] = row[t]
           \/ ~Present(t) /\ row'[t].id = row[t].id + 1
           \/ /\ <<t, row[t].id>> \in newQs[w] /\ Present(t)
              /\ row'[t].id = row[t].id /\ row'[t].status = row[t].status
      /\ \A v \in Workers : \A q \in newQs'[v] :
           q \in newQs[v] \/ q[2] = row[q[1]].id + 1
      /\ \A l \in links' \ links : Present(l[2])
  BY <1>0, RunStepRows
<1>3. links \subseteq links'  BY <1>0, RunStepFrame
<1>4. \A t \in Texts : row[t].id \in Nat /\ row'[t].id \in Nat
  BY <1>0, <1>1 DEF StoreTypeOK, Rows
<1>5. \A t \in Texts : Present(t) => row'[t].status # "absent" /\ row'[t].id = row[t].id
  BY <1>2 DEF Present
<1>6. \A t \in LockedQuestions : Survives(t)
  BY <1>3, <1>5, LockedIsThere DEF Survives
<1>7. RequestTypes' /\ \A f \in Experts : RequestOK(f)'
  BY <1>0, <1>6, RequestsKept
<1>8. \A l \in links' : Present(l[2])'
  <2>1. \A l \in links' : l[2] \in Texts /\ Present(l[2])
    BY <1>0, <1>1, <1>2 DEF RowsOK, StoreTypeOK
  <2> QED BY <1>5, <2>1 DEF Present
<1>9. ASSUME NEW m \in manual
      PROVE  /\ m[2] <= row'[m[1]].id
             /\ \A v \in Workers : m \notin newQs'[v]
             /\ HasId(m[1], m[2])' => row'[m[1]].by = "expert"
  <2>1. /\ m[1] \in Texts /\ m[2] \in Nat /\ m = <<m[1], m[2]>>
        /\ m[2] <= row[m[1]].id /\ \A v \in Workers : m \notin newQs[v]
    BY <1>0 DEF RowsOK, ManualInv
  <2>2. m[2] <= row'[m[1]].id
    <3>1. \/ row'[m[1]] = row[m[1]]
          \/ row'[m[1]].id = row[m[1]].id + 1
          \/ row'[m[1]].id = row[m[1]].id
      BY <1>2, <2>1
    <3>2. row[m[1]].id \in Nat  BY <1>4, <2>1
    <3> QED BY <2>1, <3>1, <3>2
  <2>3. \A v \in Workers : m \notin newQs'[v]
    <3>1. m[2] # row[m[1]].id + 1  BY <1>4, <2>1
    <3> QED BY <1>2, <2>1, <3>1
  <2>4. ASSUME HasId(m[1], m[2])' PROVE row'[m[1]].by = "expert"
    <3>1. row'[m[1]].id = m[2] /\ row'[m[1]].status # "absent"
      BY <2>4 DEF HasId, Present
    <3>2. row'[m[1]].id # row[m[1]].id + 1  BY <1>4, <2>1, <3>1
    <3>3. row'[m[1]] = row[m[1]]
      <4>1. ~(row'[m[1]].id = row[m[1]].id /\ <<m[1], row[m[1]].id>> \in newQs[w])
        BY <2>1, <3>1
      <4> QED BY <1>2, <2>1, <3>2, <4>1
    <3> QED BY <1>0, <3>1, <3>3 DEF ManualAnswersStay, HasId, Present
  <2> QED BY <2>2, <2>3, <2>4
<1>10. ManualInv' /\ ManualAnswersStay'
  BY <1>9 DEF ManualInv, ManualAnswersStay
<1>11. RowsOK'  BY <1>0, <1>1, <1>8, <1>10 DEF RowsOK
<1>12. FirstRunInv' /\ CleanedStaysClean'  BY RunStepKeepsBytes
<1> QED BY <1>1, <1>7, <1>11, <1>12, ReviewInvAfter

\* Taking up a job: its first run finds the image untouched.
LEMMA ClaimKeepsBytes ==
  ASSUME ReviewInv, NEW w \in Workers, NEW k \in Images, Claim(w, k),
         UNCHANGED requestVars
  PROVE  FirstRunInv' /\ CleanedStaysClean'
<1>0. TypeOK /\ FirstRunInv /\ CleanedStaysClean  BY ReviewInvParts DEF RunInv
<1>1. /\ UNCHANGED <<links, original, enhanced>>
      /\ pc' = [pc EXCEPT ![w] = "load"] /\ img' = [img EXCEPT ![w] = k]
      /\ tries' = [tries EXCEPT ![k] = tries[k] + 1]
  BY DEF Claim, Goto, storeVars
<1>2. pc \in [Workers -> Pcs] /\ img \in [Workers -> Images \cup {NoImage}]
      /\ tries \in [Images -> 0..MaxQueueAttempts]
  BY <1>0 DEF TypeOK
<1>3. \A i \in Images : Untouched(i) => Untouched(i)'
  BY <1>1, UntouchedFrame
<1>4. ASSUME NEW i \in Images
      PROVE  /\ tries'[i] = 0 => Untouched(i)' /\ \A v \in Workers : img'[v] # i
             /\ tries'[i] <= 1 =>
                  \A v \in Workers : img'[v] = i =>
                    /\ \A u \in Workers : img'[u] = i => u = v
                    /\ pc'[v] \in {"load", "enhance"} => Untouched(i)'
  <2>1. CASE i # k
    <3>1. /\ tries'[i] = tries[i] /\ img'[w] # i
          /\ \A v \in Workers \ {w} : img'[v] = img[v] /\ pc'[v] = pc[v]
      BY <1>1, <1>2, <2>1
    <3>2. \A v \in Workers : img'[v] = i => v # w /\ img[v] = i /\ pc'[v] = pc[v]
      BY <3>1
    <3> QED BY <1>0, <1>3, <3>1, <3>2 DEF FirstRunInv
  <2>2. CASE i = k
    <3>1. tries[k] \in Nat /\ tries'[k] = tries[k] + 1  BY <1>1, <1>2, PipelineAssumption
    <3>2. tries'[k] # 0 /\ (tries'[k] <= 1 => tries[k] = 0)  BY <3>1
    <3>3. tries[k] = 0 => Untouched(k)' /\ \A v \in Workers : img[v] # k
      BY <1>0, <1>3 DEF FirstRunInv
    <3>4. \A v \in Workers : img'[v] = k => v = w \/ img[v] = k
      BY <1>1, <1>2
    <3> QED BY <2>2, <3>2, <3>3, <3>4
  <2> QED BY <2>1, <2>2
<1>5. FirstRunInv'  BY <1>4 DEF FirstRunInv
<1>6. CleanedStaysClean'
  <2> SUFFICES ASSUME NEW i \in Images, ~original[i], tries'[i] <= 1
               PROVE  ~enhanced[i]
    BY <1>1 DEF CleanedStaysClean
  <2>1. tries[i] <= 1
    <3>1. tries[i] \in Nat  BY <1>2, PipelineAssumption
    <3>2. tries'[i] = tries[i] \/ tries'[i] = tries[i] + 1  BY <1>1, <1>2
    <3> QED BY <3>1, <3>2
  <2> QED BY <1>0, <2>1 DEF CleanedStaysClean
<1> QED BY <1>5, <1>6

\* What leaves rows, links and requests alone.
LEMMA RestKept ==
  ASSUME ReviewInv, UNCHANGED <<storeVars, newQs, requestVars, manual>>
  PROVE  RowsOK' /\ RequestTypes' /\ \A e \in Experts : RequestOK(e)'
<1>1. RowsOK /\ RequestTypes /\ \A e \in Experts : RequestOK(e)  BY ReviewInvParts
<1>2. RowsOK'
  BY <1>1 DEF RowsOK, StoreTypeOK, ManualInv, ManualAnswersStay, HasId, Present, storeVars
<1>3. \A t \in LockedQuestions : Survives(t)
  BY LockedIsThere DEF Survives, Present, storeVars
<1> QED BY <1>1, <1>2, <1>3, RequestsKept

LEMMA QueueStepKeepsReview ==
  ASSUME ReviewInv, NEW k \in Images,
         Upload(k) \/ Reap(k) \/ \E w \in Workers : Claim(w, k),
         UNCHANGED <<requestVars, manual>>
  PROVE  ReviewInv'
<1>0. RunInv /\ FirstRunInv /\ CleanedStaysClean  BY ReviewInvParts
<1>1. RunInv'  BY <1>0, QueueStepKeepsInv
<1>2. UNCHANGED <<storeVars, newQs>>  BY DEF Upload, Reap, Claim, localVars
<1>3. RowsOK' /\ RequestTypes' /\ \A e \in Experts : RequestOK(e)'  BY <1>2, RestKept
<1>4. CASE Upload(k) \/ Reap(k)
  <2>1. UNCHANGED <<tries, img, pc, links, original, enhanced>>
    BY <1>4 DEF Upload, Reap, storeVars, localVars
  <2>2. \A i \in Images : Untouched(i) => Untouched(i)'  BY <2>1, UntouchedFrame
  <2>3. FirstRunInv' /\ CleanedStaysClean'
    BY <1>0, <2>1, <2>2 DEF FirstRunInv, CleanedStaysClean
  <2> QED BY <1>1, <1>3, <2>3, ReviewInvAfter
<1>5. ASSUME NEW w \in Workers, Claim(w, k) PROVE ReviewInv'
  <2>1. FirstRunInv' /\ CleanedStaysClean'  BY <1>5, ClaimKeepsBytes
  <2> QED BY <1>1, <1>3, <2>1, ReviewInvAfter
<1> QED BY <1>4, <1>5

LEMMA RefusedLinkKeepsReview ==
  ASSUME ReviewInv, NEW w \in Workers, LinkFindsNoRow(w)
  PROVE  ReviewInv'
<1>0. RunInv /\ TypeOK /\ StoreTypeOK /\ FirstRunInv /\ CleanedStaysClean
  BY ReviewInvParts DEF RunInv, RowsOK
<1>1. /\ pc[w] = "link" /\ pc' = [pc EXCEPT ![w] = "failing"]
      /\ UNCHANGED <<row, links, original, enhanced, phase, tries, img, loaded,
                     result, n, target, newQs, faults, requestVars, manual>>
  BY DEF LinkFindsNoRow, Goto, storeVars, queueVars, localVars
<1>2. RunInv'
  <2>1. TypeOK'
    <3>1. StoreTypeOK'  BY <1>0, <1>1 DEF StoreTypeOK
    <3>2. /\ n \in [Workers -> Nat] /\ result \in [Workers -> Extractions]
          /\ \A v \in Workers : n[v] <= Len(result[v]) + 1
          /\ loaded \in [Workers -> BOOLEAN]
          /\ target \in [Workers -> (Texts \X Nat \X BOOLEAN) \cup {NoTarget}]
          /\ newQs \in [Workers -> SUBSET (Texts \X Nat)]
          /\ faults \in 0..MaxFaults /\ "failing" \in Pcs \ {"idle"}
      BY <1>0 DEF TypeOK, Pcs
    <3> QED BY <1>0, <1>1, <3>1, <3>2, TypeFrame
  <2>2. TriesLeft'  BY <1>0, <1>1 DEF RunInv, TriesLeft
  <2>3. ASSUME NEW v \in Workers PROVE InPlace(v)'
    <3>1. CASE v = w
      <4>1. pc'[w] = "failing"  BY <1>0, <1>1 DEF TypeOK
      <4> QED BY <3>1, <4>1, OutsideLoop DEF InLoop, AfterLoop
    <3>2. CASE v # w
      <4>1. pc'[v] = pc[v]  BY <1>0, <1>1, <3>2 DEF TypeOK
      <4> QED BY <1>0, <1>1, <4>1, LoopFrame DEF RunInv
    <3> QED BY <3>1, <3>2
  <2>4. CreatedOnce' /\ VerdictsDontCollide'
    BY <1>0, <1>1 DEF RunInv, CreatedOnce, VerdictsDontCollide
  <2> QED BY <2>1, <2>2, <2>3, <2>4 DEF RunInv
<1>3. RowsOK' /\ RequestTypes' /\ \A e \in Experts : RequestOK(e)'
  BY <1>1, RestKept DEF storeVars
<1>4. \A i \in Images : Untouched(i) => Untouched(i)'  BY <1>1, UntouchedFrame
<1>5. \A v \in Workers : pc'[v] \in {"load", "enhance"} => pc[v] = pc'[v]
  BY <1>0, <1>1 DEF TypeOK
<1>6. FirstRunInv' /\ CleanedStaysClean'
  BY <1>0, <1>1, <1>4, <1>5 DEF FirstRunInv, CleanedStaysClean
<1> QED BY <1>2, <1>3, <1>6, ReviewInvAfter

-----------------------------------------------------------------------------
LEMMA ReviewInvStep == ReviewInv /\ [ReviewNext]_reviewVars => ReviewInv'
<1> SUFFICES ASSUME ReviewInv, [ReviewNext]_reviewVars PROVE ReviewInv'
  OBVIOUS
<1>1. ASSUME NEW i \in Images, QueueStep(i) PROVE ReviewInv'
  BY <1>1, QueueStepKeepsReview DEF QueueStep
<1>2. ASSUME NEW w \in Workers, WorkerStep(w) PROVE ReviewInv'
  BY <1>2, RunStepKeepsReview, QueueStepKeepsReview DEF WorkerStep
<1>3. ASSUME NEW w \in Workers, LinkFindsNoRow(w) PROVE ReviewInv'
  BY <1>3, RefusedLinkKeepsReview
<1>4. ASSUME NEW e \in Experts, ExpertStep(e) PROVE ReviewInv'
  <2>1. CASE DeadlockVictim(e) \/ PostLosesRace(e) \/ Abandon(e)
    BY <2>1, AnswerStep DEF DeadlockVictim, PostLosesRace, Abandon
  <2> QED
    BY <1>4, <2>1, PutSteps, LookSteps, CommitStep, PostStep, DeleteStep
    DEF ExpertStep, UpdateStep
<1>5. ASSUME NEW t \in Texts, NEW embedded \in BOOLEAN, ImportRow(t, embedded)
      PROVE  ReviewInv'
  BY <1>5, ImportStep
<1>6. CASE UNCHANGED reviewVars
  <2>1. UNCHANGED <<vars, manual, requestVars>> /\ UNCHANGED <<storeVars, newQs>>
    BY <1>6 DEF reviewVars, vars, localVars
  <2>2. RequestTypes' /\ \A e \in Experts : RequestOK(e)'  BY <2>1, RestKept
  <2>3. \A i \in Images : Untouched(i) => Untouched(i)'
    BY <2>1, UntouchedFrame DEF storeVars
  <2> QED BY <2>1, <2>2, <2>3, LocalStep
<1> QED BY <1>1, <1>2, <1>3, <1>4, <1>5, <1>6 DEF ReviewNext

-----------------------------------------------------------------------------
(* The theorems *)

\* The inductive invariant, and with it the types, and that every link shows a
\* question and every PUT works on one that is there.
THEOREM ReviewInvCorrect == ReviewSpec => []ReviewInv
<1> QED BY ReviewInvInit, ReviewInvStep, PTL DEF ReviewSpec

THEOREM ReviewTypesCorrect == ReviewSpec => []ReviewTypeOK
<1>1. ReviewInv => ReviewTypeOK  BY DEF ReviewInv
<1> QED BY <1>1, ReviewInvCorrect, PTL

\* A row that was entered by hand is never overwritten by a verdict, whatever is
\* extracted, deleted and posted again while verifiers run.
THEOREM ManualAnswersAlwaysStay == ReviewSpec => []ManualAnswersStay
<1>1. ReviewInv => ManualAnswersStay  BY DEF ReviewInv
<1> QED BY <1>1, ReviewInvCorrect, PTL

\* A PUT cleans bytes only to leave its own question verified, whatever other
\* requests do between the statements of its transaction.
THEOREM ReopeningAlwaysKeepsBytes == ReviewSpec => []ReopeningKeepsBytes
<1>1. ReviewInv => ReopeningKeepsBytes  BY DEF ReviewInv
<1> QED BY <1>1, ReviewInvCorrect, PTL

\* The first run of an image never brings back bytes that were cleaned.
THEOREM CleanedImagesStayClean == ReviewSpec => []CleanedStaysClean
<1>1. ReviewInv => CleanedStaysClean  BY DEF ReviewInv
<1> QED BY <1>1, ReviewInvCorrect, PTL

\* Reviews, deletions and imports leave the life cycle of every job what it is.
THEOREM ReviewImplementsLifecycle == ReviewSpec => ImplementsLifecycle
<1>1. ReviewInit => Lifecycle!Init  BY DEF ReviewInit, Init, Lifecycle!Init
<1>2. ReviewInv /\ ReviewInv' /\ [ReviewNext]_reviewVars
      => [Lifecycle!Next]_(Lifecycle!vars)
  <2> SUFFICES ASSUME ReviewInv, ReviewInv', [ReviewNext]_reviewVars
               PROVE  [Lifecycle!Next]_(Lifecycle!vars)
    OBVIOUS
  <2>1. RunInv /\ RunInv'  BY DEF ReviewInv
  <2>2. Lifecycle!LifecycleTypeOK'  BY <2>1, LifecycleType, PTL
  <2>3. \/ \E i \in Images : Upload(i) \/ Reap(i)
        \/ \E w \in Workers : RunStep(w) \/ \E i \in Images : Claim(w, i)
        \/ UNCHANGED queueVars
    <3>1. \A w \in Workers : LinkFindsNoRow(w) => UNCHANGED queueVars
      BY DEF LinkFindsNoRow
    <3>2. \A e \in Experts : ExpertStep(e) => UNCHANGED queueVars
      BY DEF ExpertStep, UpdateStep, UpdateByExpert, CountImage, CleanImage, CommitUpdate,
             DeadlockVictim, PostLooks, PostInserts, PostLosesRace, DeleteFinds,
             DeleteCounts, DeleteRuns, Abandon, vars
    <3>3. \A t \in Texts, embedded \in BOOLEAN :
            ImportRow(t, embedded) => UNCHANGED queueVars
      BY DEF ImportRow
    <3>4. UNCHANGED reviewVars => UNCHANGED queueVars  BY DEF reviewVars, vars
    <3> QED BY <3>1, <3>2, <3>3, <3>4 DEF ReviewNext, QueueStep, WorkerStep
  <2> QED BY <2>1, <2>2, <2>3, LifecycleStep DEF Lifecycle!Next
<1> QED
  BY <1>1, <1>2, ReviewInvCorrect, PTL
  DEF ReviewSpec, ImplementsLifecycle, Lifecycle!Spec

-----------------------------------------------------------------------------
(* The life of a question *)

LEMMA QuestionType ==
  ASSUME StoreTypeOK
  PROVE  /\ question \in [Texts -> [version : Nat, status : QuestionStatuses,
                                    author : Authors]]
         /\ \A q \in Texts : /\ question[q].version = row[q].id
                             /\ question[q].status = row[q].status
                             /\ question[q].author = row[q].by
  BY DEF question, StoreTypeOK, Rows

\* One row changes: so does one question.
LEMMA OneQuestionChanges ==
  ASSUME StoreTypeOK, NEW q \in Texts, \A t \in Texts \ {q} : row'[t] = row[t]
  PROVE  Life!Becomes(q, row'[q].id, row'[q].status, row'[q].by)
  BY DEF question, Life!Becomes

LEMMA NoQuestionChanges == UNCHANGED row => UNCHANGED question
  BY DEF question

LEMMA OpenShrinks ==
  ASSUME \A w \in Workers : newQs'[w] \subseteq newQs[w]
  PROVE  open' \subseteq open
  BY DEF open

LEMMA OpenStays == UNCHANGED newQs => UNCHANGED open
  BY DEF open

\* A row that is inserted is the next version of its question.
LEMMA InsertIsInserted ==
  ASSUME StoreTypeOK, NEW q \in Texts, NEW s \in QuestionStatuses,
         NEW by \in Authors, NEW embedded \in BOOLEAN,
         InsertQuestion(q, s, by, embedded)
  PROVE  /\ Life!Inserted(q, s, by)
         /\ row'[q].id = row[q].id + 1
<1>1. /\ row[q].status = "absent"
      /\ row' = [row EXCEPT ![q] = [id |-> row[q].id + 1, status |-> s,
                                   by |-> by, embedded |-> embedded]]
  BY DEF InsertQuestion, Present
<1>2. /\ row'[q].id = row[q].id + 1 /\ row'[q].status = s /\ row'[q].by = by
      /\ \A t \in Texts \ {q} : row'[t] = row[t]
  BY <1>1 DEF StoreTypeOK
<1>3. Life!Becomes(q, question[q].version + 1, s, by)
  BY <1>2, OneQuestionChanges, QuestionType
<1> QED BY <1>1, <1>2, <1>3, QuestionType DEF Life!Inserted, Life!Absent

\* A row that is written by an expert is reviewed.
LEMMA ReviewIsReview ==
  ASSUME StoreTypeOK, NEW q \in Texts, Present(q), NEW s \in Reviews,
         row'[q].id = row[q].id, row'[q].status = s, row'[q].by = "expert",
         \A t \in Texts \ {q} : row'[t] = row[t],
         UNCHANGED newQs
  PROVE  Life!Review(q)
<1>1. Life!Becomes(q, question[q].version, s, "expert")
  BY OneQuestionChanges, QuestionType
<1>2. ~Life!Absent(q)  BY QuestionType DEF Life!Absent, Present
<1> QED BY <1>1, <1>2, OpenStays DEF Life!Review, Reviews

\* A verdict settles what is owed for its version and for nothing else, because
\* no other run holds it.
LEMMA VerdictIsJudge ==
  ASSUME ReviewInv, NEW w \in Workers, NEW p \in newQs[w],
         NEW by \in {"extractor", "verifier"}, WriteVerdict(p[1], p[2], by),
         newQs' = [newQs EXCEPT ![w] = newQs[w] \ {p}]
  PROVE  \E q \in Texts : Life!Judge(q)
<1>0. /\ StoreTypeOK /\ VerdictsDontCollide
      /\ newQs \in [Workers -> SUBSET (Texts \X Nat)]
  BY DEF ReviewInv, RunInv, TypeOK
<1> DEFINE q == p[1]
<1>1. q \in Texts /\ p = <<q, p[2]>>  BY <1>0
<1>2. /\ row[q].status # "absent" /\ row[q].id = p[2]
      /\ row' = [row EXCEPT ![q].by = by]
  BY DEF WriteVerdict, HasId, Present
<1> HIDE DEF q
<1>3. /\ row'[q].id = row[q].id /\ row'[q].status = row[q].status /\ row'[q].by = by
      /\ \A t \in Texts \ {q} : row'[t] = row[t]
  BY <1>0, <1>1, <1>2 DEF StoreTypeOK, Rows
<1>4. Life!Becomes(q, question[q].version, question[q].status, by)
  BY <1>0, <1>1, <1>3, OneQuestionChanges, QuestionType
<1>5. Life!Version(q) = p  BY <1>0, <1>1, <1>2, QuestionType DEF Life!Version
<1>6. p \in open  BY DEF open
<1>7. open' = open \ {p}
  <2>1. \A v \in Workers : newQs'[v] = newQs[v] \ {p}
    <3>1. \A v \in Workers : v # w => p \notin newQs[v]
      BY <1>0 DEF VerdictsDontCollide
    <3> QED BY <1>0, <3>1
  <2> QED BY <2>1 DEF open
<1>8. ~Life!Absent(q)  BY <1>0, <1>1, <1>2, QuestionType DEF Life!Absent
<1>9. Life!Judge(q)  BY <1>4, <1>5, <1>6, <1>7, <1>8 DEF Life!Judge
<1> QED BY <1>1, <1>9

LEMMA DropStep ==
  ASSUME UNCHANGED row, \A v \in Workers : newQs'[v] \subseteq newQs[v]
  PROVE  Life!Next
  BY NoQuestionChanges, OpenShrinks DEF Life!Next, Life!Drop

LEMMA RunStepLives ==
  ASSUME ReviewInv, NEW w \in Workers, RunStep(w)
  PROVE  Life!Next
<1>0. TypeOK /\ StoreTypeOK /\ InPlace(w)  BY DEF ReviewInv, RunInv, TypeOK
<1>1. newQs \in [Workers -> SUBSET (Texts \X Nat)]  BY <1>0 DEF TypeOK
<1>2. ASSUME NEW q \in Texts, NEW embedded \in BOOLEAN,
             InsertQuestion(q, "moderation", "extractor", embedded),
             \/ newQs' = newQs
             \/ newQs' = [newQs EXCEPT ![w] = newQs[w] \cup {<<q, row'[q].id>>}]
      PROVE  Life!Next
  <2>1. Life!Inserted(q, "moderation", "extractor") /\ row'[q].id = row[q].id + 1
    BY <1>0, <1>2, InsertIsInserted, ExtractedTypes
  <2>2. question[q].version = row[q].id  BY <1>0, QuestionType
  <2>3. CASE newQs' = newQs
    <3>1. open' = open  BY <2>3, OpenStays
    <3> QED BY <2>1, <3>1 DEF Life!Next, Life!Extract
  <2>4. CASE newQs' = [newQs EXCEPT ![w] = newQs[w] \cup {<<q, row'[q].id>>}]
    <3>1. /\ newQs'[w] = newQs[w] \cup {<<q, row'[q].id>>}
          /\ \A v \in Workers \ {w} : newQs'[v] = newQs[v]
      BY <1>1, <2>4
    <3>2. open' = open \cup {<<q, row'[q].id>>}  BY <3>1 DEF open
    <3>3. open' = open \cup {<<q, question[q].version + 1>>}
      BY <2>1, <2>2, <3>2
    <3> QED BY <2>1, <3>3 DEF Life!Next, Life!Extract
  <2> QED BY <1>2, <2>3, <2>4
<1>3. CASE Create(w)
  <2> DEFINE t == Text(w)
  <2>1. t \in Texts /\ target[w][3] \in BOOLEAN
    BY <1>0, <1>3, TextType, TargetTypes DEF Create, InLoop, Goto
  <2>2. /\ InsertQuestion(t, "moderation", "extractor", target[w][3])
        /\ newQs' = [newQs EXCEPT ![w] = newQs[w] \cup {<<t, row'[t].id>>}]
    BY <1>3 DEF Create
  <2> HIDE DEF t
  <2> QED BY <1>2, <2>1, <2>2
<1>4. CASE CreateErrsAfterInsert(w)
  <2>1. Text(w) \in Texts /\ target[w][3] \in BOOLEAN
    BY <1>0, <1>4, TextType, TargetTypes DEF CreateErrsAfterInsert, InLoop, Goto
  <2>2. /\ InsertQuestion(Text(w), "moderation", "extractor", target[w][3])
        /\ newQs' = newQs
    BY <1>4 DEF CreateErrsAfterInsert, localVars
  <2> QED BY <1>2, <2>1, <2>2
<1>5. CASE StoreVerdict(w)
  <2>1. PICK p \in newQs[w] :
          /\ \/ \E by \in {"extractor", "verifier"} : WriteVerdict(p[1], p[2], by)
             \/ UNCHANGED row
          /\ newQs' = [newQs EXCEPT ![w] = newQs[w] \ {p}]
    BY <1>5 DEF StoreVerdict
  <2>2. CASE UNCHANGED row
    <3>1. \A v \in Workers : newQs'[v] \subseteq newQs[v]  BY <1>1, <2>1
    <3> QED BY <2>2, <3>1, DropStep
  <2>3. CASE \E by \in {"extractor", "verifier"} : WriteVerdict(p[1], p[2], by)
    <3>1. \E q \in Texts : Life!Judge(q)  BY <2>1, <2>3, VerdictIsJudge
    <3> QED BY <3>1 DEF Life!Next
  <2> QED BY <2>1, <2>2, <2>3
<1>6. CASE \/ Load(w) \/ Enhance(w) \/ Extract(w) \/ FindExact(w) \/ FindSemantic(w)
           \/ CreateLosesRace(w) \/ CreatePlaceholder(w) \/ StatementErrs(w)
           \/ Link(w) \/ Verify(w) \/ Complete(w) \/ Fail(w) \/ Vanish(w)
  <2>1. row' = row
    BY <1>6
    DEF Load, Enhance, Extract, FindExact, FindSemantic, CreateLosesRace,
        CreatePlaceholder, StatementErrs, Link, Verify, Complete, Fail, Settle,
        Vanish, storeVars
  <2>2. \/ newQs' = newQs \/ newQs' = [newQs EXCEPT ![w] = {}]
        \/ \E answered \in SUBSET newQs[w] : newQs' = [newQs EXCEPT ![w] = answered]
    BY <1>6
    DEF Load, Enhance, Extract, FindExact, FindSemantic, CreateLosesRace,
        CreatePlaceholder, StatementErrs, Link, Verify, Verdicts, Complete, Fail,
        Settle, Vanish, Forget, localVars
  <2>3. \A v \in Workers : newQs'[v] \subseteq newQs[v]  BY <1>1, <2>2
  <2> QED BY <2>1, <2>3, DropStep
<1> QED BY <1>3, <1>4, <1>5, <1>6 DEF RunStep

LEMMA ExpertStepLives ==
  ASSUME ReviewInv, NEW e \in Experts, ExpertStep(e)
  PROVE  Life!Next
<1>0. StoreTypeOK /\ RequestOK(e)  BY ReviewInvParts DEF RowsOK
<1>1. newQs' = newQs
  BY DEF ExpertStep, UpdateStep, UpdateByExpert, CountImage, CleanImage, CommitUpdate,
         DeadlockVictim, PostLooks, PostInserts, PostLosesRace, DeleteFinds,
         DeleteCounts, DeleteRuns, Abandon, vars, localVars
<1> DEFINE q == subject[e][1]
<1>2. CASE CommitUpdate(e)
  <2>1. q \in Texts /\ status[e] \in Reviews /\ Present(q)
    BY <1>0, <1>2 DEF CommitUpdate, RequestOK, HasId
  <2>2. row' = [row EXCEPT ![q].status = status[e], ![q].by = "expert"]
    BY <1>2 DEF CommitUpdate, WriteReview
  <2> HIDE DEF q
  <2>3. /\ \A t \in Texts \ {q} : row'[t] = row[t]
        /\ row'[q].id = row[q].id /\ row'[q].by = "expert" /\ row'[q].status = status[e]
    BY <1>0, <2>1, <2>2 DEF StoreTypeOK, Rows
  <2>4. Life!Review(q)  BY <1>0, <1>1, <2>1, <2>3, ReviewIsReview
  <2> QED BY <2>1, <2>4 DEF Life!Next
<1>3. CASE PostInserts(e)
  <2>1. q \in Texts  BY <1>0, <1>3 DEF PostInserts, RequestOK
  <2>2. PICK embedded \in BOOLEAN : InsertQuestion(q, "verified", "expert", embedded)
    BY <1>3 DEF PostInserts
  <2> HIDE DEF q
  <2>3. Life!Inserted(q, "verified", "expert")
    BY <1>0, <2>1, <2>2, InsertIsInserted DEF QuestionStatuses, Authors
  <2> QED BY <1>1, <2>1, <2>3, OpenStays DEF Life!Next, Life!Enter
<1>4. CASE DeleteRuns(e)
  <2>1. q \in Texts  BY <1>0, <1>4 DEF DeleteRuns, RequestOK
  <2>2. \/ Present(q) /\ DeleteQuestion(q)
        \/ UNCHANGED row
    BY <1>4 DEF DeleteRuns, HasId
  <2> HIDE DEF q
  <2>3. CASE Present(q) /\ DeleteQuestion(q)
    <3>1. row' = [row EXCEPT ![q] = [id |-> row[q].id, status |-> "absent",
                                     by |-> "nobody", embedded |-> FALSE]]
      BY <2>3 DEF DeleteQuestion
    <3>2. /\ row'[q].id = row[q].id /\ row'[q].status = "absent"
          /\ row'[q].by = "nobody" /\ \A t \in Texts \ {q} : row'[t] = row[t]
      BY <1>0, <2>1, <3>1 DEF StoreTypeOK
    <3>3. Life!Becomes(q, question[q].version, "absent", "nobody")
      BY <1>0, <2>1, <3>2, OneQuestionChanges, QuestionType
    <3>4. ~Life!Absent(q)  BY <1>0, <2>1, <2>3, QuestionType DEF Life!Absent, Present
    <3> QED BY <1>1, <2>1, <3>3, <3>4, OpenStays DEF Life!Next, Life!Remove
  <2>4. CASE UNCHANGED row  BY <1>1, <2>4, DropStep
  <2> QED BY <2>2, <2>3, <2>4
<1>5. CASE \/ \E t \in Texts, s \in Reviews : UpdateByExpert(e, t, s)
           \/ \E i \in Images : CountImage(e, i)
           \/ CleanImage(e) \/ DeadlockVictim(e)
           \/ \E t \in Texts : PostLooks(e, t)
           \/ PostLosesRace(e)
           \/ \E t \in Texts : DeleteFinds(e, t)
           \/ DeleteCounts(e) \/ Abandon(e)
  <2>1. row' = row
    BY <1>5
    DEF UpdateByExpert, CountImage, CleanImage, DeadlockVictim, PostLooks,
        PostLosesRace, DeleteFinds, DeleteCounts, Abandon, vars, storeVars
  <2> QED BY <1>1, <2>1, DropStep
<1> QED BY <1>2, <1>3, <1>4, <1>5 DEF ExpertStep, UpdateStep

LEMMA ImportRowLives ==
  ASSUME ReviewInv, NEW t \in Texts, NEW embedded \in BOOLEAN, ImportRow(t, embedded)
  PROVE  Life!Next
<1>0. StoreTypeOK  BY DEF ReviewInv, ReviewTypeOK
<1>1. newQs' = newQs  BY DEF ImportRow, localVars
<1>2. CASE InsertQuestion(t, "verified", "expert", embedded)
  <2>1. Life!Inserted(t, "verified", "expert")
    BY <1>0, <1>2, InsertIsInserted DEF QuestionStatuses, Authors
  <2> QED BY <1>1, <2>1, OpenStays DEF Life!Next, Life!Enter
<1>3. CASE /\ Present(t)
           /\ row' = [row EXCEPT ![t].status = "verified", ![t].by = "expert",
                                 ![t].embedded = @ \/ embedded]
  <2>1. /\ row'[t].id = row[t].id /\ row'[t].by = "expert" /\ row'[t].status = "verified"
        /\ \A u \in Texts \ {t} : row'[u] = row[u]
    BY <1>0, <1>3 DEF StoreTypeOK, Rows
  <2>2. Life!Review(t)  BY <1>0, <1>1, <1>3, <2>1, ReviewIsReview DEF Reviews
  <2> QED BY <2>2 DEF Life!Next
<1> QED BY <1>2, <1>3 DEF ImportRow

LEMMA ReviewNextLives ==
  ReviewInv /\ [ReviewNext]_reviewVars => [Life!Next]_(Life!vars)
<1> SUFFICES ASSUME ReviewInv, [ReviewNext]_reviewVars PROVE Life!Next
  OBVIOUS
<1>1. ASSUME NEW i \in Images, QueueStep(i) PROVE Life!Next
  BY <1>1, DropStep DEF QueueStep, Upload, Reap, storeVars, localVars
<1>2. ASSUME NEW w \in Workers, WorkerStep(w) PROVE Life!Next
  <2>1. ASSUME NEW i \in Images, Claim(w, i) PROVE Life!Next
    BY <2>1, DropStep DEF Claim, storeVars
  <2> QED BY <1>2, <2>1, RunStepLives DEF WorkerStep
<1>3. ASSUME NEW w \in Workers, LinkFindsNoRow(w) PROVE Life!Next
  BY <1>3, DropStep DEF LinkFindsNoRow, storeVars, localVars
<1>4. CASE UNCHANGED reviewVars
  BY <1>4, DropStep DEF reviewVars, vars, storeVars, localVars
<1> QED
  BY <1>1, <1>2, <1>3, <1>4, ExpertStepLives, ImportRowLives DEF ReviewNext

\* However runs, reviews, deletions and imports interleave, a question only moves
\* along its life.
THEOREM ReviewImplementsQuestionLife == ReviewSpec => ImplementsQuestionLife
<1>1. ReviewInit => Life!Init
  BY DEF ReviewInit, Init, StoreInit, Life!Init, question, open
<1> QED
  BY <1>1, ReviewNextLives, ReviewInvCorrect, PTL
  DEF ReviewSpec, ImplementsQuestionLife, Life!Spec

\* In the abstract: no step of a question's life takes a decided one away from
\* the experts.
LEMMA LifeKeepsDecided ==
  ASSUME [Life!Next]_(Life!vars), NEW q \in Texts, StoreTypeOK, Life!Decided(q)
  PROVE  Life!Decided(q)' \/ Life!Absent(q)'
<1>1. question \in [Texts -> [version : Nat, status : QuestionStatuses,
                              author : Authors]]
  BY QuestionType
<1>2. CASE UNCHANGED Life!vars
  BY <1>2 DEF Life!vars, Life!Decided, Life!Absent, Life!Version
<1>3. CASE Life!Drop
  BY <1>3 DEF Life!Drop, Life!Decided, Life!Absent, Life!Version
<1>4. ASSUME NEW u \in Texts \ {q}, NEW v, NEW s, NEW a, Life!Becomes(u, v, s, a)
      PROVE  question'[q] = question[q]
  BY <1>1, <1>4 DEF Life!Becomes
<1>5. ASSUME NEW u \in Texts, Life!Extract(u) PROVE Life!Decided(q)'
  <2>1. u # q  BY <1>5 DEF Life!Extract, Life!Inserted, Life!Decided
  <2>2. question'[q] = question[q]
    BY <1>4, <1>5, <2>1 DEF Life!Extract, Life!Inserted
  <2>3. \A p \in open' : p \in open \/ p[1] = u  BY <1>5 DEF Life!Extract
  <2> QED
    BY <2>1, <2>2, <2>3 DEF Life!Decided, Life!Absent, Life!Version
<1>6. ASSUME NEW u \in Texts, Life!Enter(u) PROVE Life!Decided(q)'
  <2>1. u # q  BY <1>6 DEF Life!Enter, Life!Inserted, Life!Decided
  <2>2. question'[q] = question[q] /\ open' = open
    BY <1>4, <1>6, <2>1 DEF Life!Enter, Life!Inserted
  <2> QED BY <2>2 DEF Life!Decided, Life!Absent, Life!Version
<1>7. ASSUME NEW u \in Texts, Life!Judge(u) PROVE Life!Decided(q)'
  <2>1. u # q  BY <1>7 DEF Life!Judge, Life!Decided
  <2>2. question'[q] = question[q] /\ open' \subseteq open
    BY <1>4, <1>7, <2>1 DEF Life!Judge
  <2> QED BY <2>2 DEF Life!Decided, Life!Absent, Life!Version
<1>8. ASSUME NEW u \in Texts, Life!Review(u) PROVE Life!Decided(q)'
  <2>1. open' = open  BY <1>8 DEF Life!Review
  <2>2. CASE u # q
    <3>1. question'[q] = question[q]  BY <1>4, <1>8, <2>2 DEF Life!Review
    <3> QED BY <2>1, <3>1 DEF Life!Decided, Life!Absent, Life!Version
  <2>3. CASE u = q
    <3>1. PICK s \in {"moderation", "verified", "error"} :
            question' = [question EXCEPT ![q] =
              [version |-> question[q].version, status |-> s, author |-> "expert"]]
      BY <1>8, <2>3 DEF Life!Review, Life!Becomes
    <3>2. /\ question'[q].version = question[q].version /\ question'[q].status = s
          /\ question'[q].author = "expert"
      BY <1>1, <3>1
    <3> QED BY <2>1, <3>2 DEF Life!Decided, Life!Absent, Life!Version
  <2> QED BY <2>2, <2>3
<1>9. ASSUME NEW u \in Texts, Life!Remove(u)
      PROVE  Life!Decided(q)' \/ Life!Absent(q)'
  <2>1. open' = open  BY <1>9 DEF Life!Remove
  <2>2. CASE u # q
    <3>1. question'[q] = question[q]  BY <1>4, <1>9, <2>2 DEF Life!Remove
    <3> QED BY <2>1, <3>1 DEF Life!Decided, Life!Absent, Life!Version
  <2>3. CASE u = q
    <3>1. question' = [question EXCEPT ![q] =
            [version |-> question[q].version, status |-> "absent", author |-> "nobody"]]
      BY <1>9, <2>3 DEF Life!Remove, Life!Becomes
    <3>2. question'[q].status = "absent"  BY <1>1, <3>1
    <3> QED BY <3>2 DEF Life!Absent
  <2> QED BY <2>2, <2>3
<1> QED
  BY <1>2, <1>3, <1>5, <1>6, <1>7, <1>8, <1>9 DEF Life!Next

\* Once no verdict is on its way, what an expert has decided is changed by
\* experts only, until it is deleted: the life of a question says so.
THEOREM DecidedAlwaysStaysDecided == ReviewSpec => DecidedStaysDecided
<1>1. ReviewInv /\ [ReviewNext]_reviewVars
      => [\A q \in Texts : Life!Decided(q) => Life!Decided(q)' \/ Life!Absent(q)']_(Life!vars)
  BY ReviewNextLives, LifeKeepsDecided DEF ReviewInv, ReviewTypeOK
<1> QED
  BY <1>1, ReviewInvCorrect, PTL
  DEF ReviewSpec, DecidedStaysDecided, Life!DecidedStays

-----------------------------------------------------------------------------
(* Waiting for locks *)

\* What an open transaction still has to count, is about to clean and has cleaned
\* are different images, and no two transactions have cleaned the same one.
LockInv ==
  /\ \A e \in Experts :
       /\ todo[e] \cap cleaned[e] = {}
       /\ want[e] \notin todo[e] \cup cleaned[e]
  /\ \A e, f \in Experts : e # f => cleaned[e] \cap cleaned[f] = {}

LEMMA LockInvInit == ReviewInit => LockInv
  BY DEF ReviewInit, ReviewRequestsInit, LockInv

LEMMA LockInvStep == ReviewInv /\ LockInv /\ [ReviewNext]_reviewVars => LockInv'
<1> SUFFICES ASSUME ReviewInv, LockInv, [ReviewNext]_reviewVars PROVE LockInv'
  OBVIOUS
<1>0. /\ todo \in [Experts -> SUBSET Images] /\ cleaned \in [Experts -> SUBSET Images]
      /\ want \in [Experts -> Images \cup {NoImage}] /\ NoImage \notin Images
      /\ \A e \in Experts :
           epc[e] # "put" => todo[e] = {} /\ cleaned[e] = {} /\ want[e] = NoImage
  BY PipelineAssumption DEF ReviewInv, ReviewTypeOK
<1>1. CASE UNCHANGED <<todo, want, cleaned>>  BY <1>1 DEF LockInv
<1>2. ASSUME NEW e \in Experts, Respond(e) PROVE LockInv'
  BY <1>0, <1>2 DEF Respond, LockInv
<1>3. ASSUME NEW e \in Experts, NEW q \in Texts, NEW s \in Reviews,
             UpdateByExpert(e, q, s)
      PROVE  LockInv'
  <2>1. cleaned[e] = {} /\ want[e] = NoImage  BY <1>0, <1>3 DEF UpdateByExpert
  <2>2. /\ cleaned' = cleaned /\ want' = want /\ todo'[e] \in SUBSET Images
        /\ \A f \in Experts \ {e} : todo'[f] = todo[f]
    BY <1>0, <1>3 DEF UpdateByExpert
  <2> QED BY <1>0, <2>1, <2>2 DEF LockInv
<1>4. ASSUME NEW e \in Experts, NEW i \in Images, CountImage(e, i) PROVE LockInv'
  <2>1. /\ cleaned' = cleaned /\ i \in todo[e]
        /\ todo'[e] = todo[e] \ {i} /\ want'[e] \in {i, NoImage}
        /\ \A f \in Experts \ {e} : todo'[f] = todo[f] /\ want'[f] = want[f]
    BY <1>0, <1>4 DEF CountImage
  <2> QED BY <1>0, <2>1 DEF LockInv
<1>5. ASSUME NEW e \in Experts, CleanImage(e) PROVE LockInv'
  <2>1. /\ want[e] \in Images /\ \A f \in Experts : want[e] \notin cleaned[f]
        /\ todo' = todo /\ cleaned'[e] = cleaned[e] \cup {want[e]}
        /\ want'[e] = NoImage
        /\ \A f \in Experts \ {e} : cleaned'[f] = cleaned[f] /\ want'[f] = want[f]
    BY <1>0, <1>5 DEF CleanImage, LockedImages
  <2> QED BY <1>0, <2>1 DEF LockInv
<1>6. ASSUME NEW e \in Experts, ExpertStep(e) PROVE LockInv'
  <2>1. \A t \in Texts : PostLooks(e, t) \/ DeleteFinds(e, t)
          => UNCHANGED <<todo, want, cleaned>>
    BY DEF PostLooks, DeleteFinds
  <2>2. DeleteCounts(e) => Respond(e) \/ UNCHANGED <<todo, want, cleaned>>
    BY DEF DeleteCounts
  <2>3. CommitUpdate(e) \/ DeadlockVictim(e) \/ PostInserts(e) \/ PostLosesRace(e)
          \/ DeleteRuns(e) \/ Abandon(e) => Respond(e)
    BY DEF CommitUpdate, DeadlockVictim, PostInserts, PostLosesRace, DeleteRuns, Abandon
  <2> QED
    BY <1>1, <1>2, <1>3, <1>4, <1>5, <1>6, <2>1, <2>2, <2>3 DEF ExpertStep, UpdateStep
<1>7. ASSUME NEW t \in Texts, NEW embedded \in BOOLEAN, ImportRow(t, embedded)
      PROVE  UNCHANGED <<todo, want, cleaned>>
  BY <1>7 DEF ImportRow, requestVars
<1>8. ASSUME NEW w \in Workers, WorkerStep(w) \/ LinkFindsNoRow(w)
      PROVE  UNCHANGED <<todo, want, cleaned>>
  BY <1>8 DEF WorkerStep, LinkFindsNoRow, requestVars
<1>9. ASSUME NEW i \in Images, QueueStep(i) PROVE UNCHANGED <<todo, want, cleaned>>
  BY <1>9 DEF QueueStep, requestVars
<1>10. CASE UNCHANGED reviewVars  BY <1>1, <1>10 DEF reviewVars, requestVars
<1> QED BY <1>1, <1>6, <1>7, <1>8, <1>9, <1>10 DEF ReviewNext

\* Among finitely many that all wait for one another, those of a least such set
\* are all waited for too: that is a circle.
LEMMA WaitersInCircle ==
  ASSUME NEW P \in SUBSET Experts, P # {},
         \A x \in P : \E y \in P : WaitsFor(x, y)
  PROVE  \E e \in P : InCircle(e)
<1> DEFINE Closed == {S \in SUBSET P : S # {} /\ \A x \in S : \E y \in S : WaitsFor(x, y)}
<1>1. IsFiniteSet(P)  BY ModerationAssumption, FS_Subset
<1>2. PICK S \in Closed : \A T \in Closed : T \subseteq S => T = S
  <2>1. Closed \in SUBSET (SUBSET P) /\ P \in Closed  OBVIOUS
  <2> HIDE DEF Closed
  <2> QED BY <1>1, <2>1, MinimalSubset
<1> DEFINE T == {y \in S : \E x \in S : WaitsFor(x, y)}
<1>3. T \in Closed
  <2>1. \A x \in S : \E y \in T : WaitsFor(x, y)  OBVIOUS
  <2>2. T \subseteq S /\ S \subseteq P /\ S # {}  OBVIOUS
  <2> QED BY <2>1, <2>2
<1>4. T = S  BY <1>2, <1>3
<1>5. \A x \in S : (\E y \in S : WaitsFor(x, y)) /\ (\E y \in S : WaitsFor(y, x))
  BY <1>4
<1>6. PICK e \in S : TRUE  OBVIOUS
<1>7. S \in SUBSET Experts /\ e \in P  OBVIOUS
<1> QED BY <1>5, <1>6, <1>7 DEF InCircle

\* Whatever PUTs are open, one of them finds its next lock free, or the circle it
\* is in broken by PostgreSQL.
THEOREM NoUpdateIsEverStuck == ReviewSpec => []NoUpdateIsStuck
<1>1. ReviewInv => NoUpdateIsStuck
  <2> SUFFICES ASSUME ReviewInv, \E e \in Experts : epc[e] = "put",
                      \A e \in Experts : epc[e] = "put" => want[e] \in LockedImages
               PROVE  \E e \in Experts : epc[e] = "put" /\ InCircle(e)
    BY DEF NoUpdateIsStuck
  <2> DEFINE P == {e \in Experts : epc[e] = "put"}
  <2>1. \A f \in Experts : cleaned[f] # {} => f \in P
    BY DEF ReviewInv, ReviewTypeOK
  <2>2. ASSUME NEW x \in P PROVE \E y \in P : WaitsFor(x, y)
    <3>1. PICK y \in Experts : want[x] \in cleaned[y]  BY DEF LockedImages
    <3> QED BY <2>1, <3>1 DEF WaitsFor
  <2>3. P \in SUBSET Experts /\ P # {}  OBVIOUS
  <2>4. \E e \in P : InCircle(e)
    <3> HIDE DEF P
    <3> QED BY <2>2, <2>3, WaitersInCircle
  <2> QED BY <2>4
<1> QED BY <1>1, ReviewInvCorrect, PTL

\* A circle is one: whoever waits, waits for exactly one other transaction, and
\* never for his own.
THEOREM OneIsWaitedFor ==
  ReviewSpec => [](\A e, f, g \in Experts :
                     WaitsFor(e, f) => f # e /\ (WaitsFor(e, g) => g = f))
<1>1. LockInv => \A e, f, g \in Experts :
                   WaitsFor(e, f) => f # e /\ (WaitsFor(e, g) => g = f)
  BY DEF LockInv, WaitsFor
<1> QED BY <1>1, LockInvInit, LockInvStep, ReviewInvCorrect, PTL DEF ReviewSpec
=============================================================================
