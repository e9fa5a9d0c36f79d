------------------------------ MODULE Importer ------------------------------
(***************************************************************************)
(* The bulk import of questions: Service.Import of                         *)
(* internal/importer/importer.go, which validates the rows of a file,      *)
(* embeds the valid ones in chunks and upserts them one by one, and        *)
(* UpsertFromImport of internal/storage/postgres/question_import.go.       *)
(*                                                                         *)
(* Imports run one per request, next to each other.  A file is the hashes  *)
(* of the rows that become questions, in order, and the number of those    *)
(* that normalizeRow or buildQuestion refuses, which are reported before   *)
(* anything else happens.  An embedding is named by the question it is the *)
(* embedding of.  An upsert is one transaction; nobody sees it, or can get *)
(* past its row lock, before it commits, so it is one step.                *)
(***************************************************************************)
EXTENDS Integers, Sequences, FiniteSets, Functions

CONSTANTS
  Hashes,        \* the question hashes the files may hold
  NoVector,      \* a NULL embedding
  Imports,       \* the requests
  MaxRows,       \* Service.maxRows: a longer file is refused as a whole
  ChunkSize,     \* embedChunkSize
  MaxRowErrors,  \* maxImportRowErrors
  MaxFaults      \* bound: upserts that fail or lose their answer

ASSUME ImporterAssumption ==
  /\ NoVector \notin Hashes
  /\ MaxRows \in Nat /\ MaxFaults \in Nat
  /\ ChunkSize \in Nat \ {0} /\ MaxRowErrors \in Nat
  /\ IsFiniteSet(Imports)

VARIABLES
  vector,    \* [Hashes -> Hashes \cup {NoVector}], the embedding column
  present,   \* SUBSET Hashes, the questions there are
  pc,        \* [Imports -> ImportPcs]
  file,      \* [Imports -> Files]
  embedded,  \* [Imports -> Seq(Hashes \cup {NoVector})], q.Embedding of the
             \*   valid rows
  next,      \* [Imports -> Nat], the valid row the loop over chunks or over
             \*   rows has come to
  canceled,  \* [Imports -> BOOLEAN], ctx.Err() # nil
  report,    \* [Imports -> Report]
  faults

tableVars == <<vector, present>>
vars == <<tableVars, pc, file, embedded, next, canceled, report, faults>>

\* idle until the handler has read the file, done when it has the report
ImportPcs == {"idle", "embedding", "upserting", "done"}
NoFile    == [good |-> <<>>, bad |-> 0]
NoReport  == [created |-> 0, updated |-> 0, failed |-> 0, errors |-> 0]

Init ==
  /\ vector = [h \in Hashes |-> NoVector]
  /\ present = {}
  /\ pc = [m \in Imports |-> "idle"]
  /\ file = [m \in Imports |-> NoFile]
  /\ embedded = [m \in Imports |-> <<>>]
  /\ next = [m \in Imports |-> 1]
  /\ canceled = [m \in Imports |-> FALSE]
  /\ report = [m \in Imports |-> NoReport]
  /\ faults = 0

Valid(m) == file[m].good

\* Mutant of WithErrors: the cap is not looked at.
WithErrorsUncapped(rep, n) == [rep EXCEPT !.failed = @ + n, !.errors = @ + n]

\* addRowError, n times: every failed row is counted, the first ones are kept.
WithErrors(rep, n) ==
  [rep EXCEPT !.failed = @ + n,
              !.errors = IF @ + n < MaxRowErrors THEN @ + n ELSE MaxRowErrors]

\* What SniffKind, the parsers and the limit on rows let through; every other
\* file is refused as a whole and changes nothing.
Files ==
  {f \in [good : UNION {[1..k -> Hashes] : k \in 0..MaxRows}, bad : 0..MaxRows] :
     Len(f.good) + f.bad <= MaxRows}

\* Mutant of Parse: a row that does not validate is skipped silently.
ParseSkips(m) ==
  /\ pc[m] = "idle"
  /\ \E f \in Files :
       /\ file' = [file EXCEPT ![m] = f]
       /\ embedded' = [embedded EXCEPT ![m] = [k \in DOMAIN f.good |-> NoVector]]
  /\ pc' = [pc EXCEPT ![m] = "embedding"]
  /\ UNCHANGED <<tableVars, next, canceled, report, faults>>

\* The file is parsed and every row is validated.
Parse(m) ==
  /\ pc[m] = "idle"
  /\ \E f \in Files :
       /\ file' = [file EXCEPT ![m] = f]
       /\ embedded' = [embedded EXCEPT ![m] = [k \in DOMAIN f.good |-> NoVector]]
       /\ report' = [report EXCEPT ![m] = WithErrors(@, f.bad)]
  /\ pc' = [pc EXCEPT ![m] = "embedding"]
  /\ UNCHANGED <<tableVars, next, canceled, faults>>

\* The valid rows of the chunk that starts at s.
Chunk(m, s) == {k \in 1..Len(Valid(m)) : s <= k /\ k < s + ChunkSize}

\* Mutant of EmbedChunk: the vectors are assigned from the first row on.
EmbedChunkFromStart(m) ==
  /\ pc[m] = "embedding" /\ ~canceled[m]
  /\ next[m] <= Len(Valid(m))
  /\ embedded' = [embedded EXCEPT ![m] =
       [k \in DOMAIN @ |-> IF k + next[m] - 1 \in Chunk(m, next[m])
                           THEN Valid(m)[k + next[m] - 1] ELSE @[k]]]
  /\ next' = [next EXCEPT ![m] = @ + ChunkSize]
  /\ UNCHANGED <<tableVars, pc, file, canceled, report, faults>>

EmbedChunk(m) ==
  /\ pc[m] = "embedding" /\ ~canceled[m]
  /\ next[m] <= Len(Valid(m))
  /\ embedded' = [embedded EXCEPT ![m] =
       [k \in DOMAIN @ |-> IF k \in Chunk(m, next[m]) THEN Valid(m)[k] ELSE @[k]]]
  /\ next' = [next EXCEPT ![m] = @ + ChunkSize]
  /\ UNCHANGED <<tableVars, pc, file, canceled, report, faults>>

\* The chunks are done, or there is no embedder, or a call failed or returned
\* another number of vectors: the remaining rows go without.
EmbeddingEnds(m) ==
  /\ pc[m] = "embedding"
  /\ pc' = [pc EXCEPT ![m] = "upserting"]
  /\ next' = [next EXCEPT ![m] = 1]
  /\ UNCHANGED <<tableVars, file, embedded, canceled, report, faults>>

Working(m) == pc[m] = "upserting" /\ next[m] <= Len(Valid(m))
Hash(m)    == Valid(m)[next[m]]

\* Mutant of Store: the embedding is overwritten like the other columns.
StorePlainly(m) ==
  /\ present' = present \cup {Hash(m)}
  /\ vector' = [vector EXCEPT ![Hash(m)] = embedded[m][next[m]]]

\* ON CONFLICT (question_hash) DO UPDATE; COALESCE keeps the old embedding.
Store(m) ==
  LET new == embedded[m][next[m]] IN
  /\ present' = present \cup {Hash(m)}
  /\ vector' = [vector EXCEPT ![Hash(m)] = IF new = NoVector THEN @ ELSE new]

CountCreated(rep) == [rep EXCEPT !.created = @ + 1]
CountUpdated(rep) == [rep EXCEPT !.updated = @ + 1]

\* Mutant of Upsert: whether a row is new is taken from the file, not from the
\* transaction.
UpsertCountsFirst(m) ==
  /\ Working(m) /\ ~canceled[m]
  /\ Store(m)
  /\ report' = [report EXCEPT ![m] =
       IF \E k \in 1..(next[m] - 1) : Valid(m)[k] = Hash(m)
       THEN CountUpdated(@) ELSE CountCreated(@)]
  /\ next' = [next EXCEPT ![m] = @ + 1]
  /\ UNCHANGED <<pc, file, embedded, canceled, faults>>

\* (xmax = 0) tells the import whether its own statement inserted the row.
Upsert(m) ==
  /\ Working(m) /\ ~canceled[m]
  /\ Store(m)
  /\ report' = [report EXCEPT ![m] =
       IF Hash(m) \in present
       THEN CountUpdated(@) ELSE CountCreated(@)]
  /\ next' = [next EXCEPT ![m] = @ + 1]
  /\ UNCHANGED <<pc, file, embedded, canceled, faults>>

\* The transaction fails, or its commit is executed and the answer is lost; a
\* cancellation does the same to the upsert that is under way.
UpsertErrs(m) ==
  /\ Working(m)
  /\ faults < MaxFaults
  /\ faults' = faults + 1
  /\ Store(m) \/ UNCHANGED tableVars
  /\ report' = [report EXCEPT ![m] = WithErrors(@, 1)]
  /\ next' = [next EXCEPT ![m] = @ + 1]
  /\ UNCHANGED <<pc, file, embedded, canceled>>

\* The rows are done, or the loop breaks because the context is canceled.
Return(m) ==
  /\ pc[m] = "upserting"
  /\ canceled[m] \/ next[m] > Len(Valid(m))
  /\ pc' = [pc EXCEPT ![m] = "done"]
  /\ UNCHANGED <<tableVars, file, embedded, next, canceled, report, faults>>

\* The client goes away or the server shuts down.
Cancel(m) ==
  /\ pc[m] \in {"embedding", "upserting"} /\ ~canceled[m]
  /\ canceled' = [canceled EXCEPT ![m] = TRUE]
  /\ UNCHANGED <<tableVars, pc, file, embedded, next, report, faults>>

-----------------------------------------------------------------------------
ImportStep(m) ==
  \/ Parse(m) \/ EmbedChunk(m) \/ EmbeddingEnds(m)
  \/ Upsert(m) \/ UpsertErrs(m) \/ Return(m) \/ Cancel(m)

AllDone == (\A m \in Imports : pc[m] = "done") /\ UNCHANGED vars

Next == (\E m \in Imports : ImportStep(m)) \/ AllDone

Spec == Init /\ [][Next]_vars

-----------------------------------------------------------------------------
(* What an import promises *)

Reports == [created : Nat, updated : Nat, failed : Nat, errors : 0..MaxRowErrors]

\* The values the variables take; there is one embedding per valid row.
TypeOK ==
  /\ vector \in [Hashes -> Hashes \cup {NoVector}]
  /\ present \subseteq Hashes
  /\ pc \in [Imports -> ImportPcs]
  /\ file \in [Imports -> Files]
  /\ embedded \in [Imports -> Seq(Hashes \cup {NoVector})]
  /\ next \in [Imports -> Nat]
  /\ canceled \in [Imports -> BOOLEAN]
  /\ report \in [Imports -> Reports]
  /\ faults \in 0..MaxFaults
  /\ \A m \in Imports : Len(embedded[m]) = Len(Valid(m))

\* report.go:13: an import that was not canceled accounts for every row of its
\* file, whichever rows were refused, duplicated or failed in the middle.
ReportAddsUp ==
  \A m \in Imports :
    pc[m] = "done" /\ ~canceled[m] =>
      report[m].created + report[m].updated + report[m].failed =
        Len(Valid(m)) + file[m].bad

\* The reports of concurrent imports agree on who created what: while no upsert
\* has failed, they count every question there is exactly once as created.
CreatedOnce ==
  faults = 0 =>
    SumFunction([m \in Imports |-> report[m].created]) = Cardinality(present)

\* A question is only ever found by its own embedding, wherever the chunks end
\* and whichever of them fails.
VectorFollowsText == \A h \in Hashes : vector[h] \in {h, NoVector}

\* Importing a question again never takes it out of the semantic search, also
\* when the embedder fails the second time.
VectorsStay ==
  [][\A h \in Hashes : vector[h] # NoVector => vector'[h] # NoVector]_vars
=============================================================================
