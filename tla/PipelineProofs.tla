--------------------------- MODULE PipelineProofs ---------------------------
(***************************************************************************)
(* Proofs about Pipeline for every set of images, workers and texts, every *)
(* notion of similarity, and late runs as well as punctual ones.           *)
(***************************************************************************)
EXTENDS Pipeline, SequenceTheorems, TLAPS

-----------------------------------------------------------------------------
(* The inductive invariant *)

\* A job that waits has an attempt left.
TriesLeft ==
  \A i \in Images : phase[i] \in {"absent", "pending"} => tries[i] < MaxQueueAttempts

InLoop == {"exact", "semantic", "create", "link"}
AfterLoop == {"verify", "verdicts", "completing"}

\* The loop is at one of its texts, and its body links a row that covers it.
InPlace(w) ==
  /\ pc[w] \in InLoop => n[w] \in 1..Len(result[w])
  /\ pc[w] = "link" => target[w][1] \in Covers(Text(w))
  /\ pc[w] = "placeholder" => result[w] = <<>>

\* The loop has linked what it has left behind, and in the end everything.
Linked(w) ==
  /\ pc[w] \in InLoop =>
       \A k \in 1..(n[w] - 1) : Shown(img[w], result[w][k])
  /\ pc[w] \in AfterLoop =>
       \A k \in 1..Len(result[w]) : Shown(img[w], result[w][k])

\* The rows a run has created are rows that were there: whoever creates the same
\* text again gets a larger id.
CreatedOnce ==
  \A w \in Workers : \A q \in newQs[w] : q[2] <= row[q[1]].id

\* What stays true when questions may also be deleted.
RunInv ==
  /\ TypeOK /\ TriesLeft
  /\ \A w \in Workers : InPlace(w)
  /\ CreatedOnce /\ VerdictsDontCollide

PipelineInv == RunInv /\ \A w \in Workers : Linked(w)

-----------------------------------------------------------------------------
LEMMA ExtractionTypes ==
  /\ <<>> \in Extractions
  /\ \A r \in Extractions :
       /\ Len(r) \in Nat
       /\ \A k \in 1..Len(r) : r[k] \in Texts
       /\ r # <<>> => Len(r) >= 1
<1> SUFFICES ASSUME NEW r \in Extractions
             PROVE  /\ Len(r) \in Nat
                    /\ \A k \in 1..Len(r) : r[k] \in Texts
                    /\ r # <<>> => Len(r) >= 1
  BY PipelineAssumption
<1>1. r \in Seq(Texts)  BY PipelineAssumption
<1>2. Len(r) \in Nat /\ \A k \in 1..Len(r) : r[k] \in Texts  BY <1>1
<1>3. r # <<>> => Len(r) # 0  BY <1>1, EmptySeq
<1>4. Len(r) # 0 => Len(r) >= 1  BY <1>2
<1> QED BY <1>2, <1>3, <1>4

LEMMA TargetTypes ==
  ASSUME TypeOK, NEW w \in Workers
  PROVE  target[w][3] \in BOOLEAN
<1>1. target[w] \in (Texts \X Nat \X BOOLEAN) \cup {NoTarget}  BY DEF TypeOK
<1>2. ASSUME NEW t \in Texts \X Nat \X BOOLEAN PROVE t[3] \in BOOLEAN  OBVIOUS
<1>3. NoTarget[3] \in BOOLEAN  BY DEF NoTarget
<1> QED BY <1>1, <1>2, <1>3

LEMMA InvInit == Init => PipelineInv
<1> SUFFICES ASSUME Init PROVE PipelineInv  OBVIOUS
<1> USE PipelineAssumption, ExtractionTypes DEF Init
<1>1. TypeOK
  <2>1. StoreTypeOK
    BY DEF StoreInit, StoreTypeOK, Rows, QuestionStatuses, Authors
  <2> QED BY <2>1 DEF TypeOK, Settled, Pcs, FalliblePcs, NoTarget
<1>2. TriesLeft  BY DEF TriesLeft
<1>3. \A w \in Workers : InPlace(w) /\ Linked(w)
  BY DEF InPlace, Linked, InLoop, AfterLoop
<1>4. CreatedOnce /\ VerdictsDontCollide  BY DEF CreatedOnce, VerdictsDontCollide
<1> QED BY <1>1, <1>2, <1>3, <1>4 DEF PipelineInv, RunInv

-----------------------------------------------------------------------------
(* Statements *)

LEMMA InsertFacts ==
  ASSUME StoreTypeOK, NEW q \in Texts, NEW s \in QuestionStatuses,
         NEW by \in Authors, NEW e \in BOOLEAN, InsertQuestion(q, s, by, e)
  PROVE  /\ row' \in [Texts -> Rows]
         /\ row'[q].id = row[q].id + 1 /\ row[q].id \in Nat /\ row'[q].by = by
         /\ \A t \in Texts \ {q} : row'[t] = row[t]
         /\ \A t \in Texts : row'[t].id >= row[t].id
<1>1. row \in [Texts -> Rows]  BY DEF StoreTypeOK
<1>2. row[q].id \in Nat /\ row[q].id + 1 \in Nat  BY <1>1 DEF Rows
<1>3. row' = [row EXCEPT ![q] = [id |-> row[q].id + 1, status |-> s, by |-> by,
                                 embedded |-> e]]
  BY DEF InsertQuestion
<1>4. [id |-> row[q].id + 1, status |-> s, by |-> by, embedded |-> e] \in Rows
  BY <1>2 DEF Rows
<1>5. \A t \in Texts : row[t].id \in Nat  BY <1>1 DEF Rows
<1> QED BY <1>1, <1>2, <1>3, <1>4, <1>5

\* What the pipeline inserts.
LEMMA ExtractedTypes == "moderation" \in QuestionStatuses /\ "extractor" \in Authors
  BY DEF QuestionStatuses, Authors

LEMMA VerdictFacts ==
  ASSUME StoreTypeOK, NEW q \in Texts, NEW id, NEW by \in {"extractor", "verifier"},
         WriteVerdict(q, id, by)
  PROVE  /\ row' \in [Texts -> Rows]
         /\ \A t \in Texts : row'[t].id = row[t].id
<1>1. row \in [Texts -> Rows] /\ by \in Authors  BY DEF StoreTypeOK, Authors
<1>2. [row[q] EXCEPT !.by = by] \in Rows  BY <1>1 DEF Rows
<1>3. row' = [row EXCEPT ![q] = [row[q] EXCEPT !.by = by]]
  BY <1>1 DEF WriteVerdict
<1>4. [row[q] EXCEPT !.by = by].id = row[q].id  BY <1>1 DEF Rows
<1> QED BY <1>1, <1>2, <1>3, <1>4

\* The text that the loop is at.
LEMMA TextType ==
  ASSUME TypeOK, NEW w \in Workers, InPlace(w), pc[w] \in InLoop
  PROVE  /\ Text(w) \in Texts
         /\ n[w] \in 1..Len(result[w]) /\ Len(result[w]) \in Nat
  BY ExtractionTypes DEF TypeOK, InPlace, Text

-----------------------------------------------------------------------------
(* Type correctness *)

\* Statements of the loop: at most the tables, where the run is and what it works
\* on change.
LEMMA TypeFrame ==
  ASSUME TypeOK, StoreTypeOK', NEW w \in Workers, pc[w] # "idle",
         NEW to \in Pcs \ {"idle"}, pc' = [pc EXCEPT ![w] = to],
         UNCHANGED <<phase, tries, img>>,
         loaded' \in [Workers -> BOOLEAN],
         n' \in [Workers -> Nat], result' \in [Workers -> Extractions],
         \A v \in Workers : n'[v] <= Len(result'[v]) + 1,
         target' \in [Workers -> (Texts \X Nat \X BOOLEAN) \cup {NoTarget}],
         newQs' \in [Workers -> SUBSET (Texts \X Nat)],
         faults' \in 0..MaxFaults
  PROVE  TypeOK'
<1>1. pc' \in [Workers -> Pcs]  BY DEF TypeOK
<1>2. \A v \in Workers : img'[v] = NoImage <=> pc'[v] = "idle"  BY DEF TypeOK
<1> QED BY <1>1, <1>2 DEF TypeOK

LEMMA AimType ==
  ASSUME TypeOK, NEW w \in Workers, NEW q \in Texts, NEW e \in BOOLEAN, Aim(w, q, e)
  PROVE  target' \in [Workers -> (Texts \X Nat \X BOOLEAN) \cup {NoTarget}]
<1>1. row[q].id \in Nat  BY DEF TypeOK, StoreTypeOK, Rows
<1>2. <<q, row[q].id, e>> \in Texts \X Nat \X BOOLEAN  BY <1>1
<1> QED BY <1>2 DEF TypeOK, Aim

LEMMA IdleType ==
  ASSUME TypeOK, StoreTypeOK', NEW w \in Workers, pc' = [pc EXCEPT ![w] = "idle"],
         Forget(w), tries' = tries, phase' \in [Images ->
           {"absent", "pending", "processing"} \cup Settled],
         faults' \in 0..MaxFaults
  PROVE  TypeOK'
<1> USE PipelineAssumption, ExtractionTypes DEF TypeOK, Forget
<1>1. pc' \in [Workers -> Pcs]  BY DEF Pcs
<1>2. /\ img' \in [Workers -> Images \cup {NoImage}]
      /\ loaded' \in [Workers -> BOOLEAN]
      /\ result' \in [Workers -> Extractions]
      /\ n' \in [Workers -> Nat]
      /\ target' \in [Workers -> (Texts \X Nat \X BOOLEAN) \cup {NoTarget}]
  OBVIOUS
<1>3. newQs' \in [Workers -> SUBSET (Texts \X Nat)]  OBVIOUS
<1>4. \A v \in Workers : (img'[v] = NoImage <=> pc'[v] = "idle")  OBVIOUS
<1>5. \A v \in Workers : n'[v] <= Len(result'[v]) + 1  OBVIOUS
<1> QED BY <1>1, <1>2, <1>3, <1>4, <1>5

LEMMA RunStepType ==
  ASSUME RunInv, NEW w \in Workers, RunStep(w)
  PROVE  TypeOK'
<1>0. TypeOK /\ StoreTypeOK /\ InPlace(w)  BY DEF RunInv, TypeOK
<1>1. /\ n \in [Workers -> Nat] /\ result \in [Workers -> Extractions]
      /\ \A v \in Workers : n[v] <= Len(result[v]) + 1
      /\ loaded \in [Workers -> BOOLEAN]
      /\ target \in [Workers -> (Texts \X Nat \X BOOLEAN) \cup {NoTarget}]
      /\ newQs \in [Workers -> SUBSET (Texts \X Nat)]
      /\ faults \in 0..MaxFaults
      /\ faults < MaxFaults => faults + 1 \in 0..MaxFaults
  BY <1>0, PipelineAssumption DEF TypeOK
<1> USE DEF Goto, Pcs, FalliblePcs
<1>2. CASE Load(w)
  <2>1. loaded' \in [Workers -> BOOLEAN]
    BY <1>0, <1>2 DEF Load, TypeOK, StoreTypeOK
  <2>2. StoreTypeOK'  BY <1>0, <1>2 DEF Load, StoreTypeOK, storeVars
  <2> QED BY <1>0, <1>1, <1>2, <2>1, <2>2, TypeFrame DEF Load, queueVars
<1>3. CASE Enhance(w)
  <2>1. StoreTypeOK'  BY <1>0, <1>3 DEF Enhance, StoreTypeOK
  <2> QED BY <1>0, <1>1, <1>3, <2>1, TypeFrame DEF Enhance, queueVars, localVars
<1>4. CASE Extract(w)
  <2>1. StoreTypeOK'  BY <1>0, <1>4 DEF Extract, StoreTypeOK, storeVars
  <2>2. PICK r \in Extractions :
          /\ result' = [result EXCEPT ![w] = r]
          /\ pc' = [pc EXCEPT ![w] = IF r = <<>> THEN "placeholder" ELSE "exact"]
    BY <1>4 DEF Extract, Extracted
  <2>3. n' = [n EXCEPT ![w] = 1]  BY <1>4 DEF Extract
  <2>4. /\ n' \in [Workers -> Nat] /\ result' \in [Workers -> Extractions]
        /\ \A v \in Workers : n'[v] <= Len(result'[v]) + 1
    <3>1. n' \in [Workers -> Nat] /\ result' \in [Workers -> Extractions]
      BY <1>1, <2>2, <2>3
    <3>2. Len(result'[w]) \in Nat /\ n'[w] = 1
      BY <1>1, <2>3, <3>1, ExtractionTypes
    <3>3. ASSUME NEW v \in Workers, v # w PROVE n'[v] = n[v] /\ result'[v] = result[v]
      BY <1>1, <2>2, <2>3, <3>3
    <3>4. n'[w] <= Len(result'[w]) + 1  BY <3>2
    <3> QED BY <1>1, <3>1, <3>3, <3>4
  <2>5. pc[w] = "extract" /\ UNCHANGED <<phase, tries, img, loaded, target, newQs, faults>>
    BY <1>4 DEF Extract, queueVars
  <2>6. (IF r = <<>> THEN "placeholder" ELSE "exact") \in Pcs \ {"idle"}  OBVIOUS
  <2> QED BY <1>0, <1>1, <2>1, <2>2, <2>4, <2>5, <2>6, TypeFrame
<1>5. CASE FindExact(w)
  <2>1. StoreTypeOK'  BY <1>0, <1>5 DEF FindExact, StoreTypeOK, storeVars
  <2>2. target' \in [Workers -> (Texts \X Nat \X BOOLEAN) \cup {NoTarget}]
    <3>1. Text(w) \in Texts  BY <1>0, <1>5, TextType DEF FindExact, InLoop
    <3> QED BY <1>0, <1>1, <1>5, <3>1, AimType DEF FindExact
  <2>3. /\ pc[w] = "exact"
        /\ \E to \in {"link", "semantic"} : pc' = [pc EXCEPT ![w] = to]
        /\ UNCHANGED <<phase, tries, img, loaded, result, n, newQs, faults>>
    BY <1>5 DEF FindExact, queueVars
  <2> QED BY <1>0, <1>1, <2>1, <2>2, <2>3, TypeFrame
<1>6. CASE FindSemantic(w)
  <2>1. StoreTypeOK'  BY <1>0, <1>6 DEF FindSemantic, StoreTypeOK, storeVars
  <2>2. target' \in [Workers -> (Texts \X Nat \X BOOLEAN) \cup {NoTarget}]
    <3>1. Text(w) \in Texts  BY <1>0, <1>6, TextType DEF FindSemantic, InLoop
    <3>2. Nearest(Text(w)) \subseteq Texts
      BY <3>1 DEF Nearest, Covers
    <3> QED BY <1>0, <1>6, <3>1, <3>2, AimType DEF FindSemantic
  <2>3. /\ pc[w] = "semantic"
        /\ \E to \in {"link", "create"} : pc' = [pc EXCEPT ![w] = to]
        /\ UNCHANGED <<phase, tries, img, loaded, result, n, newQs, faults>>
    BY <1>6 DEF FindSemantic, queueVars
  <2> QED BY <1>0, <1>1, <2>1, <2>2, <2>3, TypeFrame
<1>7. CASE Create(w)
  <2>1. Text(w) \in Texts /\ target[w][3] \in BOOLEAN
    BY <1>0, <1>7, TextType, TargetTypes DEF Create, InLoop
  <2>2. row' \in [Texts -> Rows]
    BY <1>0, <1>7, <2>1, InsertFacts, ExtractedTypes DEF Create
  <2>3. StoreTypeOK'  BY <1>0, <1>7, <2>2 DEF Create, StoreTypeOK
  <2>4. row'[Text(w)].id \in Nat  BY <2>1, <2>2 DEF Rows
  <2>5. target' \in [Workers -> (Texts \X Nat \X BOOLEAN) \cup {NoTarget}]
    BY <1>1, <1>7, <2>1, <2>4 DEF Create
  <2>6. newQs' \in [Workers -> SUBSET (Texts \X Nat)]
    BY <1>1, <1>7, <2>1, <2>4 DEF Create
  <2> QED
    BY <1>0, <1>1, <1>7, <2>3, <2>5, <2>6, TypeFrame DEF Create, queueVars
<1>8. CASE CreateLosesRace(w)
  <2>1. StoreTypeOK'  BY <1>0, <1>8 DEF CreateLosesRace, StoreTypeOK, storeVars
  <2> QED
    BY <1>0, <1>1, <1>8, <2>1, TypeFrame DEF CreateLosesRace, queueVars, localVars
<1>9. CASE CreateErrsAfterInsert(w)
  <2>1. Text(w) \in Texts /\ target[w][3] \in BOOLEAN
    BY <1>0, <1>9, TextType, TargetTypes DEF CreateErrsAfterInsert, InLoop
  <2>2. StoreTypeOK'
    BY <1>0, <1>9, <2>1, InsertFacts, ExtractedTypes DEF CreateErrsAfterInsert, StoreTypeOK
  <2> QED
    BY <1>0, <1>1, <1>9, <2>2, TypeFrame
    DEF CreateErrsAfterInsert, queueVars, localVars
<1>10. CASE Link(w)
  <2>1. n[w] \in 1..Len(result[w]) /\ Len(result[w]) \in Nat
    BY <1>0, <1>10, TextType DEF Link, InLoop
  <2>2. n' = [n EXCEPT ![w] = n[w] + 1]  BY <1>10 DEF Link
  <2>3. n' \in [Workers -> Nat]  BY <1>1, <2>1, <2>2
  <2>4. \A v \in Workers : n'[v] <= Len(result[v]) + 1
    BY <1>1, <2>1, <2>2
  <2>5. target[w][1] \in Texts
    <3>1. Text(w) \in Texts /\ target[w][1] \in Covers(Text(w))
      BY <1>0, <1>10, TextType DEF Link, InLoop, InPlace
    <3> QED BY <3>1 DEF Covers
  <2>6. StoreTypeOK'
    <3>1. img[w] \in Images  BY <1>0, <1>10 DEF TypeOK, Link
    <3>2. links' = links \cup {<<img[w], target[w][1]>>}
      BY <1>10 DEF Link, LinkQuestion
    <3> QED BY <1>0, <1>10, <2>5, <3>1, <3>2 DEF Link, StoreTypeOK
  <2>7. AfterLink(w) \in {"exact", "verify", "completing"}  BY DEF AfterLink
  <2>8. /\ pc[w] = "link" /\ pc' = [pc EXCEPT ![w] = AfterLink(w)]
        /\ UNCHANGED <<phase, tries, img, loaded, result, target, newQs, faults>>
    BY <1>10 DEF Link, queueVars
  <2> QED BY <1>0, <1>1, <2>3, <2>4, <2>6, <2>7, <2>8, TypeFrame
<1>11. CASE Verify(w)
  <2>1. StoreTypeOK'  BY <1>0, <1>11 DEF Verify, StoreTypeOK, storeVars
  <2>2. PICK answered \in SUBSET newQs[w] :
          /\ newQs' = [newQs EXCEPT ![w] = answered]
          /\ pc' = [pc EXCEPT
               ![w] = IF answered = {} THEN "completing" ELSE "verdicts"]
    BY <1>11 DEF Verify, Verdicts
  <2>3. newQs' \in [Workers -> SUBSET (Texts \X Nat)]  BY <1>1, <2>2
  <2>4. (IF answered = {} THEN "completing" ELSE "verdicts") \in Pcs \ {"idle"}
    OBVIOUS
  <2>5. pc[w] = "verify" /\ UNCHANGED <<phase, tries, img, loaded, result, n, target, faults>>
    BY <1>11 DEF Verify, queueVars
  <2> QED BY <1>0, <1>1, <2>1, <2>2, <2>3, <2>4, <2>5, TypeFrame
<1>12. CASE StoreVerdict(w)
  <2>1. PICK q \in newQs[w] :
          /\ \/ \E by \in {"extractor", "verifier"} :
                  WriteVerdict(q[1], q[2], by) /\ UNCHANGED faults
             \/ UNCHANGED <<row, faults>>
             \/ faults < MaxFaults /\ faults' = faults + 1 /\ UNCHANGED row
          /\ newQs' = [newQs EXCEPT ![w] = newQs[w] \ {q}]
          /\ pc' = [pc EXCEPT
               ![w] = IF newQs[w] = {q} THEN "completing" ELSE "verdicts"]
    BY <1>12 DEF StoreVerdict
  <2>2. q[1] \in Texts  BY <1>1
  <2>3. row' \in [Texts -> Rows]
    BY <1>0, <2>1, <2>2, VerdictFacts DEF StoreTypeOK
  <2>4. StoreTypeOK'  BY <1>0, <1>12, <2>3 DEF StoreVerdict, StoreTypeOK
  <2>5. newQs' \in [Workers -> SUBSET (Texts \X Nat)]  BY <1>1, <2>1
  <2>6. faults' \in 0..MaxFaults  BY <1>1, <2>1
  <2>7. (IF newQs[w] = {q} THEN "completing" ELSE "verdicts") \in Pcs \ {"idle"}
    OBVIOUS
  <2>8. pc[w] = "verdicts" /\ UNCHANGED <<phase, tries, img, loaded, result, n, target>>
    BY <1>12 DEF StoreVerdict, queueVars
  <2> QED BY <1>0, <1>1, <2>1, <2>4, <2>5, <2>6, <2>7, <2>8, TypeFrame
<1>13. CASE CreatePlaceholder(w)
  <2>1. StoreTypeOK'  BY <1>0, <1>13 DEF CreatePlaceholder, StoreTypeOK, storeVars
  <2> QED
    BY <1>0, <1>1, <1>13, <2>1, TypeFrame
    DEF CreatePlaceholder, queueVars, localVars
<1>14. ASSUME NEW from, NEW outcome \in Settled, Settle(w, from, outcome)
       PROVE  TypeOK'
  <2>1. StoreTypeOK'  BY <1>0, <1>14 DEF Settle, StoreTypeOK, storeVars
  <2>2. phase' \in [Images -> {"absent", "pending", "processing"} \cup Settled]
    BY <1>0, <1>14 DEF Settle, TypeOK
  <2> QED BY <1>0, <1>1, <1>14, <2>1, <2>2, IdleType DEF Settle
<1>15. CASE Vanish(w)
  <2>1. StoreTypeOK'  BY <1>0, <1>15 DEF Vanish, StoreTypeOK, storeVars
  <2>2. phase' \in [Images -> {"absent", "pending", "processing"} \cup Settled]
    BY <1>0, <1>15 DEF Vanish, TypeOK, queueVars
  <2> QED BY <1>0, <1>1, <1>15, <2>1, <2>2, IdleType DEF Vanish, queueVars
<1>16. CASE StatementErrs(w)
  <2>1. StoreTypeOK'  BY <1>0, <1>16 DEF StatementErrs, StoreTypeOK, storeVars
  <2> QED
    BY <1>0, <1>1, <1>16, <2>1, TypeFrame DEF StatementErrs, queueVars, localVars
<1> QED
  BY <1>2, <1>3, <1>4, <1>5, <1>6, <1>7, <1>8, <1>9, <1>10, <1>11, <1>12, <1>13,
     <1>14, <1>15, <1>16
  DEF RunStep, Complete, Fail, Settled

-----------------------------------------------------------------------------
(* The loop *)

\* A run that somebody else's step leaves alone.
LEMMA LoopFrame ==
  ASSUME NEW v \in Workers, InPlace(v), pc'[v] = pc[v], img'[v] = img[v],
         result'[v] = result[v], n'[v] = n[v], target'[v] = target[v]
  PROVE  /\ InPlace(v)'
         /\ Linked(v) /\ links \subseteq links' => Linked(v)'
<1>1. InPlace(v)'  BY DEF InPlace, Text, Covers, InLoop
<1>2. ASSUME Linked(v), links \subseteq links' PROVE Linked(v)'
  BY <1>2 DEF Linked, InLoop, AfterLoop, Covers, Shown
<1> QED BY <1>1, <1>2

\* A run that stays inside or after the loop without linking anything.
LEMMA LoopGoesOn ==
  ASSUME NEW w \in Workers, InPlace(w), links' = links, img'[w] = img[w],
         result'[w] = result[w], n'[w] = n[w],
         \/ pc[w] \in InLoop /\ pc'[w] \in InLoop
         \/ pc[w] \in AfterLoop /\ pc'[w] \in AfterLoop,
         pc'[w] = "link" => target'[w][1] \in Covers(Text(w))
  PROVE  InPlace(w)' /\ (Linked(w) => Linked(w)')
<1>1. InPlace(w)'  BY DEF InPlace, InLoop, AfterLoop, Text, Covers
<1>2. ASSUME Linked(w) PROVE Linked(w)'
  BY <1>2 DEF Linked, InLoop, AfterLoop, Covers, Shown
<1> QED BY <1>1, <1>2

LEMMA OutsideLoop ==
  ASSUME NEW w \in Workers, pc'[w] \notin InLoop \cup AfterLoop \cup {"placeholder"}
  PROVE  InPlace(w)' /\ Linked(w)'
  BY DEF InPlace, Linked, InLoop

LEMMA OwnLoopStep ==
  ASSUME RunInv, NEW w \in Workers, RunStep(w)
  PROVE  InPlace(w)' /\ (Linked(w) => Linked(w)')
<1> DEFINE Goal == InPlace(w)' /\ (Linked(w) => Linked(w)')
<1>0. TypeOK /\ StoreTypeOK /\ InPlace(w)  BY DEF RunInv, TypeOK
<1>1. /\ pc \in [Workers -> Pcs] /\ img \in [Workers -> Images \cup {NoImage}]
      /\ n \in [Workers -> Nat] /\ result \in [Workers -> Extractions]
      /\ target \in [Workers -> (Texts \X Nat \X BOOLEAN) \cup {NoTarget}]
  BY <1>0 DEF TypeOK
<1> USE DEF Goto, InLoop, AfterLoop
<1>2. CASE Load(w) \/ Enhance(w)
  BY <1>1, <1>2, OutsideLoop DEF Load, Enhance
<1>3. CASE Extract(w)
  <2>1. PICK r \in Extractions :
          /\ result' = [result EXCEPT ![w] = r]
          /\ pc' = [pc EXCEPT ![w] = IF r = <<>> THEN "placeholder" ELSE "exact"]
    BY <1>3 DEF Extract, Extracted
  <2>2. result'[w] = r /\ n'[w] = 1  BY <1>1, <1>3, <2>1 DEF Extract
  <2>3. CASE r = <<>>
    <3>1. pc'[w] = "placeholder"  BY <1>1, <2>1, <2>3
    <3> QED BY <2>2, <2>3, <3>1 DEF InPlace, Linked
  <2>4. CASE r # <<>>
    <3>1. pc'[w] = "exact" /\ Len(r) \in Nat /\ Len(r) >= 1
      BY <1>1, <2>1, <2>4, ExtractionTypes
    <3>2. n'[w] \in 1..Len(result'[w]) /\ 1..(n'[w] - 1) = {}  BY <2>2, <3>1
    <3> QED BY <3>1, <3>2 DEF InPlace, Linked
  <2> QED BY <2>3, <2>4
<1>4. CASE FindExact(w)
  <2>1. pc[w] = "exact" /\ UNCHANGED <<links, img, result, n>>
    BY <1>4 DEF FindExact, storeVars
  <2>2. CASE pc' = [pc EXCEPT ![w] = "semantic"]
    BY <1>0, <1>1, <2>1, <2>2, LoopGoesOn
  <2>3. CASE pc' = [pc EXCEPT ![w] = "link"] /\ Aim(w, Text(w), FALSE)
    <3>1. target'[w][1] = Text(w)  BY <1>1, <2>3 DEF Aim
    <3>2. Text(w) \in Covers(Text(w))  BY DEF Covers
    <3> QED BY <1>0, <1>1, <2>1, <2>3, <3>1, <3>2, LoopGoesOn
  <2> QED BY <1>4, <2>2, <2>3 DEF FindExact
<1>5. CASE FindSemantic(w)
  <2>1. pc[w] = "semantic" /\ UNCHANGED <<links, img, result, n>>
    BY <1>5 DEF FindSemantic, storeVars
  <2>2. CASE pc' = [pc EXCEPT ![w] = "create"]
    BY <1>0, <1>1, <2>1, <2>2, LoopGoesOn
  <2>3. ASSUME pc' = [pc EXCEPT ![w] = "link"],
               NEW q \in Nearest(Text(w)), Aim(w, q, FALSE)
        PROVE  Goal
    <3>1. target'[w][1] = q  BY <1>1, <2>3 DEF Aim
    <3>2. q \in Covers(Text(w))  BY DEF Nearest, Covers
    <3> QED BY <1>0, <1>1, <2>1, <2>3, <3>1, <3>2, LoopGoesOn
  <2> QED BY <1>5, <2>2, <2>3 DEF FindSemantic
<1>6. CASE Create(w)
  <2>1. /\ pc[w] = "create" /\ pc'[w] = "link"
        /\ UNCHANGED <<links, img, result, n>>
        /\ target'[w][1] = Text(w)
    BY <1>1, <1>6 DEF Create
  <2>2. Text(w) \in Covers(Text(w))  BY DEF Covers
  <2> QED BY <1>0, <2>1, <2>2, LoopGoesOn
<1>7. CASE CreateLosesRace(w) \/ CreateErrsAfterInsert(w)
  BY <1>1, <1>7, OutsideLoop DEF CreateLosesRace, CreateErrsAfterInsert
<1>8. CASE Link(w)
  <2>1. n[w] \in 1..Len(result[w]) /\ Len(result[w]) \in Nat
    BY <1>0, <1>8, TextType DEF Link
  <2>2. /\ pc'[w] = AfterLink(w) /\ n'[w] = n[w] + 1
        /\ links' = links \cup {<<img[w], target[w][1]>>}
        /\ UNCHANGED <<img, result, target>>
    BY <1>1, <1>8 DEF Link, LinkQuestion
  <2>3. \/ pc'[w] = "exact" /\ n[w] < Len(result[w])
        \/ pc'[w] \in {"verify", "completing"} /\ n[w] = Len(result[w])
    <3>1. CASE n[w] < Len(result[w])  BY <2>2, <3>1 DEF AfterLink
    <3>2. CASE n[w] = Len(result[w])  BY <2>1, <2>2, <3>2 DEF AfterLink
    <3> QED BY <2>1, <3>1, <3>2
  <2>4. InPlace(w)'
    <3>1. n[w] < Len(result[w]) => n'[w] \in 1..Len(result'[w])  BY <2>1, <2>2
    <3> QED BY <2>3, <3>1 DEF InPlace
  <2>5. ASSUME Linked(w) PROVE Linked(w)'
    <3> DEFINE NowShown(t) == \E q \in Covers(t) : <<img[w], q>> \in links'
    <3>1. NowShown(result[w][n[w]])
      <4>1. target[w][1] \in Covers(result[w][n[w]])
        BY <1>0, <1>8 DEF Link, InPlace, Text
      <4> QED BY <2>2, <4>1
    <3>2. ASSUME NEW k \in 1..(n[w] - 1) PROVE NowShown(result[w][k])
      <4>1. Shown(img[w], result[w][k])  BY <1>8, <2>5 DEF Link, Linked
      <4> QED BY <2>2, <4>1 DEF Shown
    <3>3. 1..n[w] = 1..(n[w] - 1) \cup {n[w]} /\ n'[w] - 1 = n[w]  BY <2>1, <2>2
    <3>4. \A k \in 1..n[w] : NowShown(result[w][k])  BY <3>1, <3>2, <3>3
    <3> QED BY <2>2, <2>3, <3>3, <3>4 DEF Linked, Shown, Covers
  <2> QED BY <2>4, <2>5
<1>9. CASE Verify(w) \/ StoreVerdict(w)
  <2>1. /\ pc[w] \in {"verify", "verdicts"} /\ pc'[w] \in {"verdicts", "completing"}
        /\ UNCHANGED <<links, img, result, n>>
    BY <1>1, <1>9 DEF Verify, StoreVerdict, storeVars
  <2> QED BY <1>0, <2>1, LoopGoesOn
<1>10. CASE CreatePlaceholder(w)
  <2>1. pc[w] = "placeholder" /\ pc'[w] = "completing" /\ result' = result
    BY <1>1, <1>10 DEF CreatePlaceholder, localVars
  <2>2. result'[w] = <<>>  BY <1>0, <2>1 DEF InPlace
  <2> QED BY <2>1, <2>2 DEF InPlace, Linked
<1>11. CASE Complete(w) \/ Fail(w) \/ Vanish(w) \/ StatementErrs(w)
  BY <1>1, <1>11, OutsideLoop DEF Complete, Fail, Settle, Vanish, StatementErrs
<1> QED
  BY <1>2, <1>3, <1>4, <1>5, <1>6, <1>7, <1>8, <1>9, <1>10, <1>11 DEF RunStep

-----------------------------------------------------------------------------
(* The rows a run has created *)

\* Nobody gets a row to verify that it has not had before.
LEMMA NewQsFrame ==
  ASSUME TypeOK, StoreTypeOK', CreatedOnce, VerdictsDontCollide,
         \A t \in Texts : row'[t].id >= row[t].id,
         \A v \in Workers : newQs'[v] \subseteq newQs[v]
  PROVE  CreatedOnce' /\ VerdictsDontCollide'
<1>1. \A t \in Texts : row[t].id \in Nat /\ row'[t].id \in Nat
  BY DEF TypeOK, StoreTypeOK, Rows
<1>2. ASSUME NEW v \in Workers, NEW q \in newQs'[v]
      PROVE  q[2] <= row'[q[1]].id
  <2>1. q \in newQs[v] /\ q \in Texts \X Nat  BY DEF TypeOK
  <2>2. q[1] \in Texts /\ q[2] \in Nat /\ q[2] <= row[q[1]].id
    BY <2>1 DEF CreatedOnce
  <2>3. row'[q[1]].id >= row[q[1]].id  BY <2>2
  <2> QED BY <1>1, <2>2, <2>3
<1>3. VerdictsDontCollide'  BY DEF VerdictsDontCollide
<1> QED BY <1>2, <1>3 DEF CreatedOnce

LEMMA NewQsStep ==
  ASSUME RunInv, NEW w \in Workers, RunStep(w), TypeOK'
  PROVE  CreatedOnce' /\ VerdictsDontCollide'
<1>0. /\ TypeOK /\ StoreTypeOK /\ InPlace(w) /\ CreatedOnce /\ VerdictsDontCollide
      /\ StoreTypeOK'
  BY DEF RunInv, TypeOK
<1>1. newQs \in [Workers -> SUBSET (Texts \X Nat)]  BY <1>0 DEF TypeOK
<1>2. \A t \in Texts : row[t].id \in Nat  BY <1>0 DEF StoreTypeOK, Rows
<1>3. CASE Create(w)
  <2> DEFINE t == Text(w)
             id == row[t].id + 1
  <2>1. t \in Texts /\ target[w][3] \in BOOLEAN
    BY <1>0, <1>3, TextType, TargetTypes DEF Create, InLoop, Goto
  <2>2. /\ row'[t].id = id /\ row[t].id \in Nat
        /\ \A u \in Texts : row'[u].id >= row[u].id
    BY <1>0, <1>3, <2>1, InsertFacts, ExtractedTypes DEF Create
  <2>3. newQs' = [newQs EXCEPT ![w] = newQs[w] \cup {<<t, id>>}]
    BY <1>3, <2>2 DEF Create
  <2>4. \A v \in Workers : <<t, id>> \notin newQs[v]
    <3>1. ASSUME NEW v \in Workers, <<t, id>> \in newQs[v] PROVE FALSE
      <4>1. <<t, id>>[2] <= row[<<t, id>>[1]].id  BY <1>0, <3>1 DEF CreatedOnce
      <4>2. id <= row[t].id  BY <4>1
      <4> QED BY <2>2, <4>2
    <3> QED BY <3>1
  <2>5. VerdictsDontCollide'
    BY <1>0, <1>1, <2>3, <2>4 DEF VerdictsDontCollide
  <2>6. CreatedOnce'
    <3> SUFFICES ASSUME NEW v \in Workers, NEW q \in newQs'[v]
                 PROVE  q[2] <= row'[q[1]].id
      BY DEF CreatedOnce
    <3>1. CASE q \in newQs[v]
      <4>1. q[1] \in Texts /\ q[2] \in Nat /\ q[2] <= row[q[1]].id
        BY <1>0, <1>1, <3>1 DEF CreatedOnce
      <4>2. row'[q[1]].id >= row[q[1]].id /\ row'[q[1]].id \in Nat
        BY <1>0, <2>2, <4>1 DEF StoreTypeOK, Rows
      <4> QED BY <1>2, <4>1, <4>2
    <3>2. CASE q = <<t, id>>
      <4>1. q[1] = t /\ q[2] = id  BY <3>2
      <4> QED BY <2>2, <4>1
    <3> QED BY <1>1, <2>3, <3>1, <3>2
  <2> QED BY <2>5, <2>6
<1>4. CASE CreateErrsAfterInsert(w)
  <2>1. Text(w) \in Texts /\ target[w][3] \in BOOLEAN
    BY <1>0, <1>4, TextType, TargetTypes DEF CreateErrsAfterInsert, InLoop, Goto
  <2>2. \A u \in Texts : row'[u].id >= row[u].id
    BY <1>0, <1>4, <2>1, InsertFacts, ExtractedTypes DEF CreateErrsAfterInsert
  <2>3. newQs' = newQs  BY <1>4 DEF CreateErrsAfterInsert, localVars
  <2> QED BY <1>0, <2>2, <2>3, NewQsFrame
<1>5. CASE StoreVerdict(w)
  <2>1. PICK q \in newQs[w] :
          /\ \/ \E by \in {"extractor", "verifier"} : WriteVerdict(q[1], q[2], by)
             \/ UNCHANGED row
          /\ newQs' = [newQs EXCEPT ![w] = newQs[w] \ {q}]
    BY <1>5 DEF StoreVerdict
  <2>2. q[1] \in Texts  BY <1>1
  <2>3. \A u \in Texts : row'[u].id >= row[u].id
    <3>1. CASE UNCHANGED row  BY <1>2, <3>1
    <3>2. ASSUME NEW by \in {"extractor", "verifier"}, WriteVerdict(q[1], q[2], by)
          PROVE  \A u \in Texts : row'[u].id >= row[u].id
      BY <1>0, <1>2, <2>2, <3>2, VerdictFacts
    <3> QED BY <2>1, <3>1, <3>2
  <2>4. \A v \in Workers : newQs'[v] \subseteq newQs[v]  BY <1>1, <2>1
  <2> QED BY <1>0, <2>3, <2>4, NewQsFrame
<1>6. ASSUME row' = row, \A v \in Workers : newQs'[v] \subseteq newQs[v]
      PROVE  CreatedOnce' /\ VerdictsDontCollide'
  <2>1. \A u \in Texts : row'[u].id >= row[u].id  BY <1>2, <1>6
  <2> QED BY <1>0, <1>6, <2>1, NewQsFrame
<1>7. CASE Verify(w)
  <2>1. row' = row /\ \A v \in Workers : newQs'[v] \subseteq newQs[v]
    BY <1>1, <1>7 DEF Verify, Verdicts, storeVars
  <2> QED BY <1>6, <2>1
<1>8. CASE Load(w) \/ Enhance(w) \/ Extract(w) \/ FindExact(w) \/ FindSemantic(w)
           \/ CreateLosesRace(w) \/ Link(w) \/ CreatePlaceholder(w)
           \/ StatementErrs(w)
  <2>1. row' = row /\ newQs' = newQs
    BY <1>8
    DEF Load, Enhance, Extract, FindExact, FindSemantic, CreateLosesRace, Link,
        CreatePlaceholder, StatementErrs, storeVars, localVars
  <2> QED BY <1>6, <2>1
<1>9. CASE Complete(w) \/ Fail(w) \/ Vanish(w)
  <2>1. row' = row /\ newQs' = [newQs EXCEPT ![w] = {}]
    BY <1>9 DEF Complete, Fail, Settle, Vanish, Forget, storeVars
  <2>2. \A v \in Workers : newQs'[v] \subseteq newQs[v]  BY <1>1, <2>1
  <2> QED BY <1>6, <2>1, <2>2
<1> QED BY <1>3, <1>4, <1>5, <1>7, <1>8, <1>9 DEF RunStep

-----------------------------------------------------------------------------
(* The queue's side of a step *)

\* What a run's step does to jobs and to other runs.
LEMMA RunStepFrame ==
  ASSUME TypeOK, NEW w \in Workers, RunStep(w)
  PROVE  /\ links \subseteq links' /\ tries' = tries
         /\ \A v \in Workers \ {w} :
              /\ pc'[v] = pc[v] /\ img'[v] = img[v] /\ result'[v] = result[v]
              /\ n'[v] = n[v] /\ target'[v] = target[v]
         /\ \/ phase' = phase
            \/ \E i \in Images, outcome \in Settled :
                 /\ phase[i] = "processing"
                 /\ phase' = [phase EXCEPT ![i] = outcome]
<1> USE DEF TypeOK, storeVars, queueVars, localVars, Goto
<1>1. CASE \/ Load(w) \/ Enhance(w) \/ CreateLosesRace(w)
           \/ CreateErrsAfterInsert(w) \/ CreatePlaceholder(w) \/ StatementErrs(w)
  BY <1>1 DEF Load, Enhance, CreateLosesRace, CreateErrsAfterInsert,
              CreatePlaceholder, StatementErrs
<1>2. CASE Extract(w)  BY <1>2 DEF Extract
<1>3. CASE FindExact(w) \/ FindSemantic(w)
  BY <1>3 DEF FindExact, FindSemantic, Aim
<1>4. CASE Create(w)  BY <1>4 DEF Create
<1>5. CASE Link(w)  BY <1>5 DEF Link, LinkQuestion
<1>6. CASE Verify(w)  BY <1>6 DEF Verify
<1>7. CASE StoreVerdict(w)  BY <1>7 DEF StoreVerdict
<1>8. ASSUME NEW from \in {"completing", "failing"}, NEW outcome \in Settled,
             Settle(w, from, outcome)
      PROVE  /\ links' = links /\ tries' = tries
             /\ \A v \in Workers \ {w} :
                  /\ pc'[v] = pc[v] /\ img'[v] = img[v] /\ result'[v] = result[v]
                  /\ n'[v] = n[v] /\ target'[v] = target[v]
             /\ \/ phase' = phase
                \/ \E i \in Images :
                     /\ phase[i] = "processing"
                     /\ phase' = [phase EXCEPT ![i] = outcome]
  <2>1. img[w] \in Images  BY <1>8 DEF Settle
  <2> QED BY <1>8, <2>1 DEF Settle, Forget
<1>9. CASE Complete(w) \/ Fail(w)
  BY <1>8, <1>9 DEF Complete, Fail, Settled
<1>10. CASE Vanish(w)  BY <1>10 DEF Vanish, Forget
<1> QED
  BY <1>1, <1>2, <1>3, <1>4, <1>5, <1>6, <1>7, <1>9, <1>10 DEF RunStep

LEMMA RunStepKeepsInv ==
  ASSUME RunInv, NEW w \in Workers, RunStep(w)
  PROVE  /\ RunInv'
         /\ (\A v \in Workers : Linked(v)) => \A v \in Workers : Linked(v)'
<1>0. TypeOK /\ TriesLeft /\ \A v \in Workers : InPlace(v)  BY DEF RunInv
<1>1. TypeOK'  BY RunStepType
<1>2. TriesLeft'
  BY <1>0, RunStepFrame DEF TriesLeft, TypeOK, Settled
<1>3. ASSUME NEW v \in Workers PROVE InPlace(v)' /\ (Linked(v) => Linked(v)')
  <2>1. CASE v = w  BY <2>1, OwnLoopStep
  <2>2. CASE v # w  BY <1>0, <2>2, RunStepFrame, LoopFrame
  <2> QED BY <2>1, <2>2
<1>4. CreatedOnce' /\ VerdictsDontCollide'  BY <1>1, NewQsStep
<1> QED BY <1>1, <1>2, <1>3, <1>4 DEF RunInv

LEMMA QueueStepKeepsInv ==
  ASSUME RunInv, NEW i \in Images,
         Upload(i) \/ Reap(i) \/ \E w \in Workers : Claim(w, i)
  PROVE  /\ RunInv'
         /\ (\A v \in Workers : Linked(v)) => \A v \in Workers : Linked(v)'
<1>0. /\ TypeOK /\ TriesLeft /\ CreatedOnce /\ VerdictsDontCollide
      /\ \A v \in Workers : InPlace(v)
  BY DEF RunInv
<1>1. TypeOK' /\ TriesLeft'
  <2> USE PipelineAssumption DEF TypeOK, StoreTypeOK, TriesLeft, storeVars, Settled
  <2>1. CASE Upload(i)  BY <1>0, <2>1 DEF Upload, localVars
  <2>2. CASE Reap(i)  BY <1>0, <2>2 DEF Reap, localVars
  <2>3. ASSUME NEW w \in Workers, Claim(w, i) PROVE TypeOK' /\ TriesLeft'
    <3>1. tries[i] + 1 \in 0..MaxQueueAttempts  BY <1>0, <2>3 DEF Claim
    <3>2. pc' \in [Workers -> Pcs] /\ img' \in [Workers -> Images \cup {NoImage}]
      BY <1>0, <2>3 DEF Claim, Goto, Pcs, FalliblePcs
    <3>3. \A v \in Workers : img'[v] = NoImage <=> pc'[v] = "idle"
      BY <1>0, <2>3 DEF Claim, Goto
    <3>4. tries' \in [Images -> 0..MaxQueueAttempts]  BY <1>0, <2>3, <3>1 DEF Claim
    <3> QED BY <1>0, <2>3, <3>2, <3>3, <3>4 DEF Claim
  <2> QED BY <2>1, <2>2, <2>3
<1>2. UNCHANGED <<row, links, result, n, target, newQs>>
  BY DEF Upload, Reap, Claim, storeVars, localVars
<1>3. ASSUME NEW v \in Workers PROVE InPlace(v)' /\ (Linked(v) => Linked(v)')
  <2>1. CASE pc'[v] = pc[v] /\ img'[v] = img[v]
    BY <1>0, <1>2, <2>1, LoopFrame
  <2>2. CASE pc'[v] = "load"
    BY <2>2, OutsideLoop DEF InLoop, AfterLoop
  <2>3. \/ pc'[v] = pc[v] /\ img'[v] = img[v]
        \/ pc'[v] = "load"
    BY <1>0 DEF TypeOK, Upload, Reap, Claim, Goto, localVars
  <2> QED BY <2>1, <2>2, <2>3
<1>4. CreatedOnce' /\ VerdictsDontCollide'
  BY <1>0, <1>2 DEF CreatedOnce, VerdictsDontCollide
<1> QED BY <1>1, <1>3, <1>4 DEF RunInv

LEMMA StutterKeepsInv ==
  ASSUME RunInv, UNCHANGED vars
  PROVE  /\ RunInv'
         /\ (\A v \in Workers : Linked(v)) => \A v \in Workers : Linked(v)'
<1>1. TypeOK' /\ TriesLeft'
  BY DEF RunInv, TypeOK, StoreTypeOK, TriesLeft, vars, storeVars, queueVars,
         localVars
<1>2. \A v \in Workers : InPlace(v)' /\ (Linked(v) => Linked(v)')
  BY LoopFrame DEF RunInv, vars, storeVars, localVars
<1>3. CreatedOnce' /\ VerdictsDontCollide'
  BY DEF RunInv, CreatedOnce, VerdictsDontCollide, vars, storeVars, localVars
<1> QED BY <1>1, <1>2, <1>3 DEF RunInv

LEMMA InvStep == PipelineInv /\ [Next]_vars => PipelineInv'
  BY RunStepKeepsInv, QueueStepKeepsInv, StutterKeepsInv
  DEF PipelineInv, Next, Quiescent

-----------------------------------------------------------------------------
(* The theorems *)

\* The inductive invariant.
THEOREM PipelineInvCorrect == Spec => []PipelineInv
<1> QED BY InvInit, InvStep, PTL DEF Spec

\* The types alone, of every variable in every reachable state.
THEOREM PipelineTypesCorrect == Spec => []TypeOK
<1>1. PipelineInv => TypeOK  BY DEF PipelineInv, RunInv
<1> QED BY <1>1, PipelineInvCorrect, PTL

\* Nothing that was extracted is lost between the look-ups, the insert and the
\* links, however many runs share the texts.
THEOREM EverythingIsLinked == Spec => []LinkedBeforeComplete
<1>1. PipelineInv => LinkedBeforeComplete
  BY DEF PipelineInv, Linked, AfterLoop, LinkedBeforeComplete
<1> QED BY <1>1, PipelineInvCorrect, PTL

\* A verdict reaches a row only through the run that created it.
THEOREM VerdictsNeverCollide == Spec => []VerdictsDontCollide
<1>1. PipelineInv => VerdictsDontCollide  BY DEF PipelineInv, RunInv
<1> QED BY <1>1, PipelineInvCorrect, PTL

\* Seen from the job alone, a run is a step of the life cycle that JobQueue
\* implements: the two modules promise the uploader the same.
LEMMA LifecycleStep ==
  ASSUME RunInv, NEW k \in Images,
         \/ \E i \in Images : Upload(i) \/ Reap(i)
         \/ \E w \in Workers : RunStep(w) \/ \E i \in Images : Claim(w, i)
         \/ UNCHANGED queueVars
  PROVE  \/ Lifecycle!Stays(k)
         \/ Lifecycle!Submitted(k)
         \/ Lifecycle!Started(k)
         \/ Lifecycle!Returned(k)
         \/ Lifecycle!Ended(k)
<1> DEFINE Goal == \/ Lifecycle!Stays(k)
                   \/ Lifecycle!Submitted(k)
                   \/ Lifecycle!Started(k)
                   \/ Lifecycle!Returned(k)
                   \/ Lifecycle!Ended(k)
<1>0. TypeOK /\ TriesLeft  BY DEF RunInv
<1> USE <1>0 DEF TypeOK, Lifecycle!Stays, Lifecycle!Submitted, Lifecycle!Started,
        Lifecycle!Returned, Lifecycle!Ended, Lifecycle!Settled, Settled
<1>1. ASSUME NEW i \in Images, Upload(i) PROVE Goal  BY <1>1 DEF Upload
<1>2. ASSUME NEW i \in Images, Reap(i) PROVE Goal
  BY <1>2, PipelineAssumption DEF Reap
<1>3. ASSUME NEW w \in Workers, NEW i \in Images, Claim(w, i) PROVE Goal
  BY <1>3 DEF Claim, TriesLeft
<1>4. ASSUME NEW w \in Workers, RunStep(w) PROVE Goal
  BY <1>4, RunStepFrame
<1>5. CASE UNCHANGED queueVars  BY <1>5 DEF queueVars
<1> QED BY <1>1, <1>2, <1>3, <1>4, <1>5

LEMMA LifecycleType == RunInv => Lifecycle!LifecycleTypeOK
  BY DEF RunInv, TypeOK, Lifecycle!LifecycleTypeOK, Lifecycle!Phases,
         Lifecycle!Settled, Settled

\* Zombie runs, lost races and faults included, a job is tried a bounded number
\* of times and done or failed for good.
THEOREM PipelineImplementsLifecycle == Spec => ImplementsLifecycle
<1>1. Init => Lifecycle!Init  BY DEF Init, Lifecycle!Init
<1>2. PipelineInv /\ PipelineInv' /\ [Next]_vars
      => [Lifecycle!Next]_(Lifecycle!vars)
  <2> SUFFICES ASSUME PipelineInv, PipelineInv', [Next]_vars
               PROVE  [Lifecycle!Next]_(Lifecycle!vars)
    OBVIOUS
  <2>1. CASE Next
    <3>1. RunInv /\ RunInv'  BY DEF PipelineInv
    <3>2. Lifecycle!LifecycleTypeOK'  BY <3>1, LifecycleType, PTL
    <3>3. Quiescent => UNCHANGED queueVars  BY DEF Quiescent, vars
    <3> QED BY <2>1, <3>1, <3>2, <3>3, LifecycleStep DEF Next, Lifecycle!Next
  <2>2. CASE UNCHANGED vars
    BY <2>2 DEF vars, queueVars, Lifecycle!vars
  <2> QED BY <2>1, <2>2
<1> QED
  BY <1>1, <1>2, PipelineInvCorrect, PTL DEF Spec, ImplementsLifecycle, Lifecycle!Spec
=============================================================================
