--------------------------- MODULE ImporterProofs ---------------------------
(***************************************************************************)
(* Proofs about Importer for every number of imports, files of every       *)
(* length and chunks of every size.                                        *)
(***************************************************************************)
EXTENDS Importer, RecursionLemmas

-----------------------------------------------------------------------------
(* The inductive invariant *)

\* The vector that a row carries is its own.
OwnVectors ==
  \A m \in Imports : \A k \in 1..Len(Valid(m)) :
    embedded[m][k] \in {Valid(m)[k], NoVector}

Total(rep) == rep.created + rep.updated + rep.failed
Counted(m) == Total(report[m])

\* The report accounts for the rows that were refused and for those the loop has
\* left behind.
Accounted(m) ==
  /\ pc[m] = "idle" => Counted(m) = 0
  /\ pc[m] = "embedding" => Counted(m) = file[m].bad
  /\ pc[m] \in {"upserting", "done"} =>
       /\ next[m] \in 1..(Len(Valid(m)) + 1)
       /\ Counted(m) = file[m].bad + next[m] - 1
  /\ pc[m] = "done" /\ ~canceled[m] => next[m] > Len(Valid(m))

ImportInv ==
  /\ TypeOK /\ OwnVectors /\ VectorFollowsText
  /\ \A m \in Imports : Accounted(m)

-----------------------------------------------------------------------------
LEMMA FileFacts ==
  ASSUME NEW f \in Files
  PROVE  /\ Len(f.good) \in Nat /\ f.bad \in Nat
         /\ DOMAIN f.good = 1..Len(f.good)
         /\ \A k \in 1..Len(f.good) : f.good[k] \in Hashes
<1>1. f.good \in UNION {[1..k -> Hashes] : k \in 0..MaxRows} /\ f.bad \in 0..MaxRows
  BY DEF Files
<1>2. PICK k \in 0..MaxRows : f.good \in [1..k -> Hashes]  BY <1>1
<1>3. f.good \in Seq(Hashes)  BY <1>2
<1>4. Len(f.good) \in Nat /\ DOMAIN f.good = 1..Len(f.good)
      /\ \A j \in 1..Len(f.good) : f.good[j] \in Hashes
  BY <1>3
<1> QED BY <1>1, <1>4

LEMMA NoFileIsAFile == NoFile \in Files /\ Len(NoFile.good) = 0 /\ NoFile.bad = 0
<1>1. Len(<<>>) = 0 /\ <<>> \in [1..0 -> Hashes]  OBVIOUS
<1>2. 0 \in 0..MaxRows  BY ImporterAssumption
<1>3. NoFile \in [good : UNION {[1..k -> Hashes] : k \in 0..MaxRows}, bad : 0..MaxRows]
  BY <1>1, <1>2 DEF NoFile
<1>4. Len(NoFile.good) + NoFile.bad <= MaxRows
  BY <1>1, <1>2, ImporterAssumption DEF NoFile
<1> QED BY <1>1, <1>3, <1>4 DEF Files, NoFile

\* What a row does to a report.
LEMMA ErrorFacts ==
  ASSUME NEW rep \in Reports, NEW k \in Nat
  PROVE  /\ WithErrors(rep, k) \in Reports
         /\ Total(WithErrors(rep, k)) = Total(rep) + k
<1> DEFINE kept == IF rep.errors + k < MaxRowErrors THEN rep.errors + k ELSE MaxRowErrors
<1>1. WithErrors(rep, k) = [rep EXCEPT !.failed = rep.failed + k, !.errors = kept]
  BY DEF WithErrors
<1>2. rep.failed + k \in Nat /\ kept \in 0..MaxRowErrors
  BY ImporterAssumption DEF Reports
<1> HIDE DEF kept
<1>3. ASSUME NEW a \in Nat, NEW b \in 0..MaxRowErrors
      PROVE  /\ [rep EXCEPT !.failed = a, !.errors = b] \in Reports
             /\ Total([rep EXCEPT !.failed = a, !.errors = b]) = rep.created + rep.updated + a
  BY DEF Reports, Total
<1>4. Total(rep) + k = rep.created + rep.updated + (rep.failed + k)
  BY DEF Reports, Total
<1> QED BY <1>1, <1>2, <1>3, <1>4

LEMMA SuccessFacts ==
  ASSUME NEW rep \in Reports
  PROVE  /\ CountCreated(rep) \in Reports /\ Total(CountCreated(rep)) = Total(rep) + 1
         /\ CountUpdated(rep) \in Reports /\ Total(CountUpdated(rep)) = Total(rep) + 1
         /\ Total(rep) \in Nat
  BY DEF CountCreated, CountUpdated, Reports, Total

LEMMA SequenceFacts ==
  ASSUME NEW S, NEW k \in Nat, NEW s \in [1..k -> S]
  PROVE  s \in Seq(S) /\ Len(s) = k
  OBVIOUS

LEMMA VectorTypes ==
  ASSUME TypeOK, NEW m \in Imports
  PROVE  /\ embedded[m] \in [1..Len(Valid(m)) -> Hashes \cup {NoVector}]
         /\ Len(Valid(m)) \in Nat
<1>1. embedded[m] \in Seq(Hashes \cup {NoVector}) /\ Len(embedded[m]) = Len(Valid(m))
  BY DEF TypeOK
<1>2. Len(Valid(m)) \in Nat  BY FileFacts DEF TypeOK, Valid
<1> QED BY <1>1, <1>2

LEMMA ImportInvInit == Init => ImportInv
<1> SUFFICES ASSUME Init PROVE ImportInv  OBVIOUS
<1> USE ImporterAssumption DEF Init
<1>1. \A m \in Imports : Valid(m) = <<>> /\ Len(Valid(m)) = 0
  BY NoFileIsAFile DEF Valid, NoFile
<1>2. NoReport \in Reports  BY DEF NoReport, Reports
<1>3. TypeOK
  <2>1. /\ embedded \in [Imports -> Seq(Hashes \cup {NoVector})]
        /\ \A m \in Imports : Len(embedded[m]) = Len(Valid(m))
    BY <1>1
  <2> QED BY <1>2, <2>1, NoFileIsAFile DEF TypeOK, ImportPcs
<1>4. OwnVectors  BY <1>1 DEF OwnVectors
<1>5. VectorFollowsText  BY DEF VectorFollowsText
<1>6. \A m \in Imports : Accounted(m)
  BY DEF Accounted, Counted, Total, NoReport
<1> QED BY <1>3, <1>4, <1>5, <1>6 DEF ImportInv

-----------------------------------------------------------------------------
(* The steps *)

\* An import that another one's step leaves alone.
LEMMA OthersKept ==
  ASSUME NEW m \in Imports, Accounted(m),
         pc'[m] = pc[m], file'[m] = file[m], next'[m] = next[m],
         canceled'[m] = canceled[m], report'[m] = report[m]
  PROVE  Accounted(m)'
  BY DEF Accounted, Counted, Valid

\* The row the upsert loop is at.
LEMMA RowFacts ==
  ASSUME ImportInv, NEW m \in Imports, Working(m)
  PROVE  /\ next[m] \in 1..Len(Valid(m)) /\ Len(Valid(m)) \in Nat
         /\ Hash(m) \in Hashes
         /\ embedded[m][next[m]] \in {Hash(m), NoVector}
<1>1. /\ file[m] \in Files /\ Accounted(m)
      /\ \A k \in 1..Len(Valid(m)) : embedded[m][k] \in {Valid(m)[k], NoVector}
  BY DEF ImportInv, TypeOK, OwnVectors
<1>2. Len(Valid(m)) \in Nat /\ \A k \in 1..Len(Valid(m)) : Valid(m)[k] \in Hashes
  BY <1>1, FileFacts DEF Valid
<1>3. next[m] \in 1..Len(Valid(m))  BY <1>1, <1>2 DEF Working, Accounted
<1> QED BY <1>1, <1>2, <1>3 DEF Hash

LEMMA StoreFacts ==
  ASSUME ImportInv, NEW m \in Imports, Working(m),
         Store(m) \/ UNCHANGED tableVars
  PROVE  /\ vector' \in [Hashes -> Hashes \cup {NoVector}] /\ present' \subseteq Hashes
         /\ VectorFollowsText'
         /\ \A h \in Hashes : vector[h] # NoVector => vector'[h] # NoVector
<1>0. /\ vector \in [Hashes -> Hashes \cup {NoVector}] /\ present \subseteq Hashes
      /\ \A h \in Hashes : vector[h] \in {h, NoVector}
  BY DEF ImportInv, TypeOK, VectorFollowsText
<1>1. CASE UNCHANGED tableVars
  BY <1>0, <1>1 DEF tableVars, VectorFollowsText
<1>2. CASE Store(m)
  <2> DEFINE new == embedded[m][next[m]]
  <2>1. Hash(m) \in Hashes /\ new \in {Hash(m), NoVector}  BY RowFacts
  <2>2. /\ present' = present \cup {Hash(m)}
        /\ vector' = [vector EXCEPT ![Hash(m)] =
                        IF new = NoVector THEN vector[Hash(m)] ELSE new]
    BY <1>2 DEF Store
  <2> HIDE DEF new
  <2>3. \A h \in Hashes : vector'[h] \in {h, NoVector}  BY <1>0, <2>1, <2>2
  <2> QED
    BY <1>0, <2>1, <2>2, <2>3, ImporterAssumption DEF VectorFollowsText
<1> QED BY <1>1, <1>2

LEMMA StepKeepsInv ==
  ASSUME ImportInv, NEW m \in Imports, ImportStep(m)
  PROVE  /\ ImportInv'
         /\ \A h \in Hashes : vector[h] # NoVector => vector'[h] # NoVector
<1> DEFINE VectorsKept == \A h \in Hashes : vector[h] # NoVector => vector'[h] # NoVector
<1>0. /\ TypeOK /\ OwnVectors /\ VectorFollowsText /\ Accounted(m)
      /\ \A x \in Imports : Accounted(x)
  BY DEF ImportInv
<1>1. /\ report[m] \in Reports /\ file[m] \in Files /\ next[m] \in Nat
      /\ \A x \in Imports : Len(Valid(x)) \in Nat /\ DOMAIN Valid(x) = 1..Len(Valid(x))
      /\ \A x \in Imports : \A k \in 1..Len(Valid(x)) : Valid(x)[k] \in Hashes
      /\ file[m].bad \in Nat
  BY <1>0, FileFacts DEF TypeOK, Valid
<1>2. \A x \in Imports :
        embedded[x] \in [1..Len(Valid(x)) -> Hashes \cup {NoVector}]
  BY <1>0, VectorTypes
<1>3. CASE Parse(m)
  <2>1. PICK f \in Files :
          /\ file' = [file EXCEPT ![m] = f]
          /\ embedded' = [embedded EXCEPT ![m] = [k \in DOMAIN f.good |-> NoVector]]
          /\ report' = [report EXCEPT ![m] = WithErrors(report[m], f.bad)]
    BY <1>3 DEF Parse
  <2>2. /\ pc[m] = "idle" /\ pc' = [pc EXCEPT ![m] = "embedding"]
        /\ UNCHANGED <<vector, present, next, canceled, faults>>
    BY <1>3 DEF Parse, tableVars
  <2>3. /\ Len(f.good) \in Nat /\ f.bad \in Nat /\ DOMAIN f.good = 1..Len(f.good)
    BY FileFacts
  <2>4. /\ file'[m] = f /\ pc'[m] = "embedding"
        /\ embedded'[m] = [k \in 1..Len(f.good) |-> NoVector]
        /\ report'[m] = WithErrors(report[m], f.bad)
    <3> DEFINE blank == [k \in DOMAIN f.good |-> NoVector]
               failed == WithErrors(report[m], f.bad)
    <3>1. blank = [k \in 1..Len(f.good) |-> NoVector]  BY <2>3
    <3>2. embedded' = [embedded EXCEPT ![m] = blank] /\ report' = [report EXCEPT ![m] = failed]
      BY <2>1
    <3> HIDE DEF blank, failed
    <3>3. embedded'[m] = blank /\ report'[m] = failed  BY <1>0, <3>2 DEF TypeOK
    <3>4. file'[m] = f /\ pc'[m] = "embedding"  BY <1>0, <2>1, <2>2 DEF TypeOK
    <3> QED BY <3>1, <3>3, <3>4 DEF failed
  <2>5. \A x \in Imports \ {m} :
          /\ pc'[x] = pc[x] /\ file'[x] = file[x] /\ next'[x] = next[x]
          /\ canceled'[x] = canceled[x] /\ report'[x] = report[x]
          /\ embedded'[x] = embedded[x]
    BY <1>0, <2>1, <2>2 DEF TypeOK
  <2>6. report'[m] \in Reports /\ report' \in [Imports -> Reports]
    BY <1>0, <1>1, <2>1, <2>3, ErrorFacts DEF TypeOK
  <2>7. TypeOK'
    <3>1. embedded'[m] \in Seq(Hashes \cup {NoVector}) /\ Len(embedded'[m]) = Len(f.good)
      BY <2>3, <2>4, SequenceFacts
    <3>2. /\ embedded' \in [Imports -> Seq(Hashes \cup {NoVector})]
          /\ \A x \in Imports : Len(embedded'[x]) = Len(Valid(x)')
      BY <1>0, <2>1, <2>4, <2>5, <3>1 DEF TypeOK, Valid
    <3>3. pc' \in [Imports -> ImportPcs] /\ file' \in [Imports -> Files]
      BY <1>0, <2>1, <2>2 DEF TypeOK, ImportPcs
    <3> QED BY <1>0, <2>2, <2>6, <3>2, <3>3 DEF TypeOK
  <2>8. OwnVectors'
    BY <1>0, <2>4, <2>5 DEF OwnVectors, Valid
  <2>9. VectorFollowsText' /\ VectorsKept
    BY <1>0, <2>2 DEF VectorFollowsText
  <2>10. Accounted(m)'
    <3>1. Counted(m) = 0  BY <1>0, <2>2 DEF Accounted
    <3>2. Counted(m)' = Counted(m) + f.bad
      BY <1>1, <2>3, <2>4, ErrorFacts, SuccessFacts DEF Counted
    <3> QED BY <2>3, <2>4, <3>1, <3>2 DEF Accounted
  <2>11. \A x \in Imports : Accounted(x)'
    BY <1>0, <2>5, <2>10, OthersKept
  <2> QED BY <2>7, <2>8, <2>9, <2>11 DEF ImportInv
<1>4. CASE EmbedChunk(m)
  <2>1. /\ embedded' = [embedded EXCEPT ![m] =
             [k \in DOMAIN embedded[m] |->
                IF k \in Chunk(m, next[m]) THEN Valid(m)[k] ELSE embedded[m][k]]]
        /\ next' = [next EXCEPT ![m] = next[m] + ChunkSize]
        /\ pc[m] = "embedding"
        /\ UNCHANGED <<vector, present, pc, file, canceled, report, faults>>
    BY <1>4 DEF EmbedChunk, tableVars
  <2>2. DOMAIN embedded[m] = 1..Len(Valid(m)) /\ Valid(m)' = Valid(m)
    BY <1>2, <2>1 DEF Valid
  <2>3. embedded'[m] = [k \in 1..Len(Valid(m)) |->
                IF k \in Chunk(m, next[m]) THEN Valid(m)[k] ELSE embedded[m][k]]
    <3> DEFINE filled == [k \in DOMAIN embedded[m] |->
                 IF k \in Chunk(m, next[m]) THEN Valid(m)[k] ELSE embedded[m][k]]
    <3>1. embedded' = [embedded EXCEPT ![m] = filled]  BY <2>1
    <3>2. filled = [k \in 1..Len(Valid(m)) |->
            IF k \in Chunk(m, next[m]) THEN Valid(m)[k] ELSE embedded[m][k]]
      BY <2>2
    <3> HIDE DEF filled
    <3>3. embedded'[m] = filled  BY <1>0, <3>1 DEF TypeOK
    <3> QED BY <3>2, <3>3
  <2>4. \A x \in Imports \ {m} : embedded'[x] = embedded[x] /\ next'[x] = next[x]
    BY <1>0, <2>1 DEF TypeOK
  <2>5. TypeOK'
    <3>1. /\ embedded' \in [Imports -> Seq(Hashes \cup {NoVector})]
          /\ \A x \in Imports : Len(embedded'[x]) = Len(Valid(x)')
      <4>1. embedded'[m] \in [1..Len(Valid(m)) -> Hashes \cup {NoVector}]
        BY <1>1, <1>2, <2>3
      <4>2. /\ embedded'[m] \in Seq(Hashes \cup {NoVector})
            /\ Len(embedded'[m]) = Len(Valid(m))
        BY <1>1, <4>1, SequenceFacts
      <4>3. \A x \in Imports : Valid(x)' = Valid(x)  BY <2>1 DEF Valid
      <4>4. DOMAIN embedded' = Imports /\ embedded' = [x \in Imports |-> embedded'[x]]
        BY <1>0, <2>1 DEF TypeOK
      <4> QED BY <1>0, <2>4, <4>2, <4>3, <4>4 DEF TypeOK
    <3>2. next' \in [Imports -> Nat]
      BY <1>0, <2>1, ImporterAssumption DEF TypeOK
    <3> QED BY <1>0, <2>1, <3>1, <3>2 DEF TypeOK
  <2>6. OwnVectors'
    <3> SUFFICES ASSUME NEW x \in Imports, NEW k \in 1..Len(Valid(x)')
                 PROVE  embedded'[x][k] \in {Valid(x)'[k], NoVector}
      BY DEF OwnVectors
    <3>1. CASE x = m  BY <1>0, <2>2, <2>3, <3>1 DEF OwnVectors
    <3>2. CASE x # m  BY <1>0, <2>1, <2>4, <3>2 DEF OwnVectors, Valid
    <3> QED BY <3>1, <3>2
  <2>7. VectorFollowsText' /\ VectorsKept
    BY <1>0, <2>1 DEF VectorFollowsText
  <2>8. Accounted(m)'  BY <1>0, <2>1 DEF Accounted, Counted
  <2>9. \A x \in Imports : Accounted(x)'
    BY <1>0, <2>1, <2>4, <2>8, OthersKept
  <2> QED BY <2>5, <2>6, <2>7, <2>9 DEF ImportInv
<1>5. ASSUME Working(m), Store(m) \/ UNCHANGED tableVars,
             NEW r \in Reports, report' = [report EXCEPT ![m] = r],
             Total(r) = Counted(m) + 1,
             next' = [next EXCEPT ![m] = next[m] + 1],
             UNCHANGED <<pc, file, embedded, canceled>>, faults' \in 0..MaxFaults
      PROVE  ImportInv' /\ VectorsKept
  <2>1. /\ vector' \in [Hashes -> Hashes \cup {NoVector}] /\ present' \subseteq Hashes
        /\ VectorFollowsText' /\ VectorsKept
        /\ next[m] \in 1..Len(Valid(m)) /\ Len(Valid(m)) \in Nat
    BY <1>5, StoreFacts, RowFacts
  <2>2. \A x \in Imports : Valid(x)' = Valid(x)  BY <1>5 DEF Valid
  <2>3. TypeOK'
    <3>1. report' \in [Imports -> Reports] /\ next' \in [Imports -> Nat]
      BY <1>0, <1>1, <1>5 DEF TypeOK
    <3>2. pc' = pc /\ file' = file /\ embedded' = embedded /\ canceled' = canceled
      BY <1>5
    <3> QED BY <1>0, <1>5, <2>1, <2>2, <3>1, <3>2 DEF TypeOK
  <2>4. OwnVectors'  BY <1>0, <1>5, <2>2 DEF OwnVectors
  <2>5. Accounted(m)'
    <3>1. /\ pc[m] = "upserting" /\ pc'[m] = "upserting" /\ next'[m] = next[m] + 1
          /\ file'[m] = file[m]
      BY <1>0, <1>5 DEF Working, TypeOK
    <3>2. Counted(m) = file[m].bad + next[m] - 1  BY <1>0, <3>1 DEF Accounted
    <3>3. Counted(m)' = file'[m].bad + next'[m] - 1
      <4>1. report'[m] = r  BY <1>0, <1>5 DEF TypeOK
      <4>2. Counted(m)' = Counted(m) + 1  BY <1>5, <4>1 DEF Counted
      <4> QED BY <1>1, <2>1, <3>1, <3>2, <4>2
    <3>4. next'[m] \in 1..(Len(Valid(m)') + 1)  BY <2>1, <2>2, <3>1
    <3> QED BY <3>1, <3>3, <3>4 DEF Accounted
  <2>6. \A x \in Imports \ {m} : report'[x] = report[x] /\ next'[x] = next[x]
    BY <1>0, <1>5 DEF TypeOK
  <2>7. \A x \in Imports : Accounted(x)'
    BY <1>0, <1>5, <2>5, <2>6, OthersKept
  <2> QED BY <2>1, <2>3, <2>4, <2>7 DEF ImportInv
<1>6. CASE Upsert(m)
  <2> DEFINE new == IF Hash(m) \in present
                    THEN CountUpdated(report[m]) ELSE CountCreated(report[m])
  <2>1. report' = [report EXCEPT ![m] = new]  BY <1>6 DEF Upsert
  <2>2. new \in Reports /\ Total(new) = Counted(m) + 1
    BY <1>1, SuccessFacts DEF Counted
  <2> HIDE DEF new
  <2>3. faults' = faults  BY <1>6 DEF Upsert
  <2>4. faults' \in 0..MaxFaults  BY <1>0, <2>3 DEF TypeOK
  <2> QED BY <1>5, <1>6, <2>1, <2>2, <2>4 DEF Upsert
<1>7. CASE UpsertErrs(m)
  <2>1. report' = [report EXCEPT ![m] = WithErrors(report[m], 1)]
    BY <1>7 DEF UpsertErrs
  <2>2. /\ WithErrors(report[m], 1) \in Reports
        /\ Total(WithErrors(report[m], 1)) = Counted(m) + 1
    BY <1>1, ErrorFacts DEF Counted
  <2>3. faults' \in 0..MaxFaults
    BY <1>0, <1>7, ImporterAssumption DEF UpsertErrs, TypeOK
  <2> QED BY <1>5, <1>7, <2>1, <2>2, <2>3 DEF UpsertErrs
<1>8. CASE EmbeddingEnds(m) \/ Return(m) \/ Cancel(m)
  <2>1. UNCHANGED <<vector, present, file, embedded, report, faults>>
    BY <1>8 DEF EmbeddingEnds, Return, Cancel, tableVars
  <2>2. \A x \in Imports : Valid(x)' = Valid(x) /\ Counted(x)' = Counted(x)
    BY <2>1 DEF Valid, Counted
  <2>3. /\ pc' \in [Imports -> ImportPcs] /\ next' \in [Imports -> Nat]
        /\ canceled' \in [Imports -> BOOLEAN]
    <3>1. CASE EmbeddingEnds(m)
      BY <1>0, <3>1 DEF EmbeddingEnds, TypeOK, ImportPcs
    <3>2. CASE Return(m)  BY <1>0, <3>2 DEF Return, TypeOK, ImportPcs
    <3>3. CASE Cancel(m)  BY <1>0, <3>3 DEF Cancel, TypeOK, ImportPcs
    <3> QED BY <1>8, <3>1, <3>2, <3>3
  <2>4. TypeOK'  BY <1>0, <2>1, <2>2, <2>3 DEF TypeOK
  <2>5. OwnVectors'  BY <1>0, <2>1, <2>2 DEF OwnVectors
  <2>6. VectorFollowsText' /\ VectorsKept  BY <1>0, <2>1 DEF VectorFollowsText
  <2>7. Accounted(m)'
    <3>1. CASE EmbeddingEnds(m)
      <4>1. pc[m] = "embedding" /\ pc'[m] = "upserting" /\ next'[m] = 1
        BY <1>0, <3>1 DEF EmbeddingEnds, TypeOK
      <4>2. Counted(m)' = file'[m].bad + next'[m] - 1
        BY <1>0, <1>1, <2>1, <2>2, <4>1 DEF Accounted
      <4>3. next'[m] \in 1..(Len(Valid(m)') + 1)  BY <1>1, <2>2, <4>1
      <4> QED BY <4>1, <4>2, <4>3 DEF Accounted
    <3>2. CASE Return(m)
      <4>1. /\ pc[m] = "upserting" /\ pc'[m] = "done"
            /\ canceled[m] \/ next[m] > Len(Valid(m))
            /\ canceled' = canceled /\ next' = next
        BY <1>0, <3>2 DEF Return, TypeOK
      <4> QED BY <1>0, <2>1, <2>2, <4>1 DEF Accounted
    <3>3. CASE Cancel(m)
      <4>1. canceled'[m] /\ pc' = pc /\ next' = next
        BY <1>0, <3>3 DEF Cancel, TypeOK
      <4> QED BY <1>0, <2>1, <2>2, <4>1 DEF Accounted
    <3> QED BY <1>8, <3>1, <3>2, <3>3
  <2>8. \A x \in Imports \ {m} :
          pc'[x] = pc[x] /\ next'[x] = next[x] /\ canceled'[x] = canceled[x]
    BY <1>0, <1>8 DEF EmbeddingEnds, Return, Cancel, TypeOK
  <2>9. \A x \in Imports : Accounted(x)'
    BY <1>0, <2>1, <2>7, <2>8, OthersKept
  <2> QED BY <2>4, <2>5, <2>6, <2>9 DEF ImportInv
<1> QED BY <1>3, <1>4, <1>6, <1>7, <1>8 DEF ImportStep

LEMMA ImportInvStep ==
  ImportInv /\ [Next]_vars =>
    /\ ImportInv'
    /\ [\A h \in Hashes : vector[h] # NoVector => vector'[h] # NoVector]_vars
<1> SUFFICES ASSUME ImportInv, [Next]_vars
             PROVE  /\ ImportInv'
                    /\ [\A h \in Hashes : vector[h] # NoVector => vector'[h] # NoVector]_vars
  OBVIOUS
<1>1. CASE UNCHANGED vars
  <2>1. \A m \in Imports : Accounted(m)'
    BY <1>1, OthersKept DEF ImportInv, vars
  <2>2. TypeOK' /\ OwnVectors' /\ VectorFollowsText'
    BY <1>1 DEF ImportInv, TypeOK, OwnVectors, VectorFollowsText, Valid, vars, tableVars
  <2> QED BY <1>1, <2>1, <2>2 DEF ImportInv
<1> QED BY <1>1, StepKeepsInv DEF Next, AllDone

-----------------------------------------------------------------------------
(* Who created what *)

\* While no upsert has failed, the reports count each question once.
CreatedInv == IsFiniteSet(present) /\ CreatedOnce

Created == [m \in Imports |-> report[m].created]

LEMMA CreatedInvInit == Init => CreatedInv
<1> SUFFICES ASSUME Init PROVE CreatedInv  OBVIOUS
<1>1. IsFiniteSet(present) /\ Cardinality(present) = 0  BY FS_EmptySet DEF Init
<1>2. Created \in [Imports -> Int] /\ \A m \in Imports : Created[m] = 0
  BY DEF Created, Init, NoReport
<1>3. SumFunction(Created) = 0  BY <1>2, SumOfZeros, ImporterAssumption
<1> QED BY <1>1, <1>3 DEF CreatedInv, CreatedOnce, Created

\* A report that grows by d questions grows the sum by d.
LEMMA CreatedGrows ==
  ASSUME TypeOK, NEW m \in Imports, NEW r \in Reports, NEW d \in Nat,
         report' = [report EXCEPT ![m] = r], r.created = report[m].created + d
  PROVE  SumFunction(Created) \in Int /\ SumFunction(Created') = SumFunction(Created) + d
<1>1. \A x \in Imports : report[x].created \in Nat  BY DEF TypeOK, Reports
<1>2. \A x \in Imports : report'[x].created =
        IF x = m THEN report[x].created + d ELSE report[x].created
  BY DEF TypeOK
<1>3. Created \in [Imports -> Int] /\ Created' \in [Imports -> Int]
  BY <1>1, <1>2 DEF Created
<1>4. GrowsAt(Created, Created', m, d, Imports)  BY <1>2 DEF Created, GrowsAt
<1>5. IsFiniteSet(Imports) /\ d \in Int  BY ImporterAssumption
<1> HIDE DEF Created
<1> QED BY <1>3, <1>4, <1>5, SumGrows, Zenon

LEMMA StepKeepsCreated ==
  ASSUME ImportInv, CreatedInv, NEW m \in Imports, ImportStep(m)
  PROVE  CreatedInv'
<1>0. /\ TypeOK /\ report[m] \in Reports /\ IsFiniteSet(present)
      /\ faults = 0 => SumFunction(Created) = Cardinality(present)
  BY DEF ImportInv, TypeOK, CreatedInv, CreatedOnce, Created
<1>1. ASSUME NEW r \in Reports, r.created = report[m].created,
             report' = [report EXCEPT ![m] = r], UNCHANGED <<present, faults>>
      PROVE  CreatedInv'
  <2>0. 0 \in Nat /\ r.created = report[m].created + 0
    BY <1>0, <1>1 DEF Reports
  <2>1. SumFunction(Created) \in Int /\ SumFunction(Created') = SumFunction(Created) + 0
    BY <1>0, <1>1, <2>0, CreatedGrows, Zenon
  <2>2. SumFunction(Created') = SumFunction(Created)  BY <2>1
  <2> QED BY <1>0, <1>1, <2>2 DEF CreatedInv, CreatedOnce, Created
<1>2. CASE Parse(m)
  <2>1. PICK f \in Files : report' = [report EXCEPT ![m] = WithErrors(report[m], f.bad)]
    BY <1>2 DEF Parse
  <2>2. f.bad \in Nat  BY FileFacts
  <2>3. WithErrors(report[m], f.bad) \in Reports  BY <1>0, <2>2, ErrorFacts
  <2>4. WithErrors(report[m], f.bad).created = report[m].created
    BY <1>0 DEF WithErrors, Reports
  <2>5. UNCHANGED <<present, faults>>  BY <1>2 DEF Parse, tableVars
  <2> QED BY <1>1, <2>1, <2>3, <2>4, <2>5
<1>3. CASE EmbedChunk(m) \/ EmbeddingEnds(m) \/ Return(m) \/ Cancel(m)
  <2>1. UNCHANGED <<present, faults, report>>
    BY <1>3 DEF EmbedChunk, EmbeddingEnds, Return, Cancel, tableVars
  <2> QED BY <1>0, <2>1 DEF CreatedInv, CreatedOnce, Created
<1>4. CASE Upsert(m)
  <2>1. present' = present \cup {Hash(m)} /\ faults' = faults
    BY <1>4 DEF Upsert, Store
  <2>2. CASE Hash(m) \in present
    <3>1. report' = [report EXCEPT ![m] = CountUpdated(report[m])]
      BY <1>4, <2>2 DEF Upsert
    <3>2. /\ CountUpdated(report[m]) \in Reports
          /\ CountUpdated(report[m]).created = report[m].created
      BY <1>0, SuccessFacts DEF CountUpdated, Reports
    <3>3. present' = present  BY <2>1, <2>2
    <3> QED BY <1>1, <2>1, <3>1, <3>2, <3>3
  <2>3. CASE Hash(m) \notin present
    <3>1. report' = [report EXCEPT ![m] = CountCreated(report[m])]
      BY <1>4, <2>3 DEF Upsert
    <3>2. /\ CountCreated(report[m]) \in Reports
          /\ CountCreated(report[m]).created = report[m].created + 1
      BY <1>0, SuccessFacts DEF CountCreated, Reports
    <3>3. SumFunction(Created') = SumFunction(Created) + 1
      BY <1>0, <3>1, <3>2, CreatedGrows
    <3>4. IsFiniteSet(present') /\ Cardinality(present') = Cardinality(present) + 1
      BY <1>0, <2>1, <2>3, FS_AddElement
    <3> QED BY <1>0, <2>1, <3>3, <3>4 DEF CreatedInv, CreatedOnce, Created
  <2> QED BY <2>2, <2>3
<1>5. CASE UpsertErrs(m)
  <2>1. faults' # 0  BY <1>0, <1>5 DEF UpsertErrs, TypeOK
  <2>2. present' = present \cup {Hash(m)} \/ present' = present
    BY <1>5 DEF UpsertErrs, Store, tableVars
  <2>3. IsFiniteSet(present')  BY <1>0, <2>2, FS_AddElement
  <2> QED BY <2>1, <2>3 DEF CreatedInv, CreatedOnce
<1> QED BY <1>2, <1>3, <1>4, <1>5 DEF ImportStep

-----------------------------------------------------------------------------
(* The theorems *)

\* The inductive invariant.
THEOREM ImportInvCorrect == Spec => []ImportInv
<1> QED BY ImportInvInit, ImportInvStep, PTL DEF Spec

\* The types alone, of every variable in every reachable state.
THEOREM ImportTypesCorrect == Spec => []TypeOK
<1>1. ImportInv => TypeOK  BY DEF ImportInv
<1> QED BY <1>1, ImportInvCorrect, PTL

\* Whatever fails in the middle, the report of an import that was not canceled
\* accounts for every row of its file.
THEOREM ReportsAddUp == Spec => []ReportAddsUp
<1>1. ImportInv => ReportAddsUp
  <2> SUFFICES ASSUME ImportInv, NEW m \in Imports, pc[m] = "done", ~canceled[m]
               PROVE  report[m].created + report[m].updated + report[m].failed
                        = Len(Valid(m)) + file[m].bad
    BY DEF ReportAddsUp
  <2>1. /\ next[m] \in 1..(Len(Valid(m)) + 1) /\ next[m] > Len(Valid(m))
        /\ report[m].created + report[m].updated + report[m].failed
             = file[m].bad + next[m] - 1
    BY DEF ImportInv, Accounted, Counted, Total
  <2>2. Len(Valid(m)) \in Nat /\ file[m].bad \in Nat
    BY FileFacts DEF ImportInv, TypeOK, Valid
  <2>3. next[m] = Len(Valid(m)) + 1  BY <2>1, <2>2
  <2> QED BY <2>1, <2>2, <2>3
<1> QED BY <1>1, ImportInvCorrect, PTL

\* Chunks of every size, embedded or skipped, give each question its own vector.
THEOREM VectorsFollowTexts == Spec => []VectorFollowsText
<1>1. ImportInv => VectorFollowsText  BY DEF ImportInv
<1> QED BY <1>1, ImportInvCorrect, PTL

\* However many imports run next to each other: while no upsert has failed,
\* their reports count every question there is exactly once as created.
THEOREM CreatedExactlyOnce == Spec => []CreatedOnce
<1>1. ImportInv /\ CreatedInv /\ [Next]_vars => CreatedInv'
  <2> SUFFICES ASSUME ImportInv, CreatedInv, [Next]_vars PROVE CreatedInv'  OBVIOUS
  <2>1. CASE UNCHANGED vars
    BY <2>1 DEF CreatedInv, CreatedOnce, vars, tableVars
  <2> QED BY <2>1, StepKeepsCreated DEF Next, AllDone
<1>2. CreatedInv => CreatedOnce  BY DEF CreatedInv
<1> QED BY <1>1, <1>2, CreatedInvInit, ImportInvCorrect, PTL DEF Spec

\* No import, however many run and fail, takes a question's vector away.
THEOREM VectorsAlwaysStay == Spec => VectorsStay
<1> QED BY ImportInvInit, ImportInvStep, PTL DEF Spec, VectorsStay
=============================================================================
