------------------------------ MODULE Pipeline ------------------------------
(***************************************************************************)
(* The extraction pipeline (internal/pipeline/pipeline.go): the workers    *)
(* take images from the queue, read, enhance and extract them, and store   *)
(* the questions they find.  One action is one call that reads or writes   *)
(* the database, or one answer of the AI; between any two of them other    *)
(* runs proceed, the reaper may give the job to another worker, and the    *)
(* process may crash.                                                      *)
(*                                                                         *)
(* The queue is taken at the grain of JobLifecycle, which JobQueue is      *)
(* shown to implement: a claim and a reaper's decision are one step each.  *)
(* Vanish stands for everything that ends a run without a verdict: a       *)
(* crash, a canceled context, a Fail whose own statement fails.            *)
(***************************************************************************)
EXTENDS QuestionStore, Sequences

CONSTANTS
  Workers,
  NoImage,           \* what an idle worker holds
  Extractions,       \* the sequences of texts an extraction may return; <<>>
                     \*   stands for every way it returns no question
  MaxQueueAttempts,  \* config.PipelineConfig.MaxQueueAttempts
  MaxFaults,         \* bound: failed statements and vanished runs
  LateRuns,          \* whether a run may outlive stale_threshold
  EnhancerFails      \* whether the enhancer may fail on bytes it was given

ASSUME PipelineAssumption ==
  /\ NoImage \notin Images
  /\ Extractions \subseteq Seq(Texts) /\ <<>> \in Extractions
  /\ MaxQueueAttempts \in Nat \ {0} /\ MaxFaults \in Nat
  /\ LateRuns \in BOOLEAN /\ EnhancerFails \in BOOLEAN

VARIABLES
  phase,     \* [Images -> phases of JobLifecycle], the image's job
  tries,     \* [Images -> Nat], its attempts
  pc,        \* [Workers -> Pcs], the next call of each run
  img,       \* [Workers -> Images \cup {NoImage}], the image of the run's job
  loaded,    \* [Workers -> BOOLEAN], the original was there when it was read
  result,    \* [Workers -> Seq(Texts)], what the extraction returned
  n,         \* [Workers -> Nat], the index of the loop over result
  target,    \* [Workers -> Texts \X Nat \X BOOLEAN], what the loop body
             \*   works on: hash, id, and whether it has an embedding
  newQs,     \* [Workers -> SUBSET (Texts \X Nat)], the rows the run created
  faults

queueVars == <<phase, tries>>
localVars == <<img, loaded, result, n, target, newQs>>
vars == <<storeVars, queueVars, localVars, pc, faults>>

Settled == {"done", "failed"}
FalliblePcs ==
  {"load", "enhance", "exact", "semantic", "create", "link", "completing"}
Pcs == {"idle", "extract", "verify", "verdicts", "placeholder", "failing"}
         \cup FalliblePcs

NoTarget == <<"none", 0, FALSE>>

Init ==
  /\ StoreInit
  /\ phase = [i \in Images |-> "absent"]
  /\ tries = [i \in Images |-> 0]
  /\ pc = [w \in Workers |-> "idle"]
  /\ img = [w \in Workers |-> NoImage]
  /\ loaded = [w \in Workers |-> FALSE]
  /\ result = [w \in Workers |-> <<>>]
  /\ n = [w \in Workers |-> 0]
  /\ target = [w \in Workers |-> NoTarget]
  /\ newQs = [w \in Workers |-> {}]
  /\ faults = 0

Goto(w, from, to) == pc[w] = from /\ pc' = [pc EXCEPT ![w] = to]

Forget(w) ==
  /\ img' = [img EXCEPT ![w] = NoImage]
  /\ loaded' = [loaded EXCEPT ![w] = FALSE]
  /\ result' = [result EXCEPT ![w] = <<>>]
  /\ n' = [n EXCEPT ![w] = 0]
  /\ target' = [target EXCEPT ![w] = NoTarget]
  /\ newQs' = [newQs EXCEPT ![w] = {}]

Text(w) == result[w][n[w]]

-----------------------------------------------------------------------------
(* The queue, at the grain of JobLifecycle *)

Upload(i) ==
  /\ phase[i] = "absent"
  /\ phase' = [phase EXCEPT ![i] = "pending"]
  /\ UNCHANGED <<storeVars, tries, localVars, pc, faults>>

Claim(w, i) ==
  /\ phase[i] = "pending"
  /\ Goto(w, "idle", "load")
  /\ phase' = [phase EXCEPT ![i] = "processing"]
  /\ tries' = [tries EXCEPT ![i] = @ + 1]
  /\ img' = [img EXCEPT ![w] = i]
  /\ UNCHANGED <<storeVars, loaded, result, n, target, newQs, faults>>

\* Mutant of Reap: it does not count the attempts.
ReapForever(i) ==
  /\ phase[i] = "processing"
  /\ LateRuns \/ \A w \in Workers : img[w] # i
  /\ phase' = [phase EXCEPT ![i] = "pending"]
  /\ UNCHANGED <<storeVars, tries, localVars, pc, faults>>

\* Mutant of Reap: a job on its last attempt but one is neither returned nor
\* failed.
ReapReturnsFewer(i) ==
  /\ phase[i] = "processing"
  /\ LateRuns \/ \A w \in Workers : img[w] # i
  /\ tries[i] + 1 < MaxQueueAttempts \/ tries[i] >= MaxQueueAttempts
  /\ phase' = [phase EXCEPT
       ![i] = IF tries[i] < MaxQueueAttempts THEN "pending" ELSE "failed"]
  /\ UNCHANGED <<storeVars, tries, localVars, pc, faults>>

\* The reaper takes a job whose run is gone, or has become late.
Reap(i) ==
  /\ phase[i] = "processing"
  /\ LateRuns \/ \A w \in Workers : img[w] # i
  /\ phase' = [phase EXCEPT
       ![i] = IF tries[i] < MaxQueueAttempts THEN "pending" ELSE "failed"]
  /\ UNCHANGED <<storeVars, tries, localVars, pc, faults>>

\* Mutant of Settle: the WHERE clause names only the id.
SettleAnyPhase(w, from, outcome) ==
  /\ Goto(w, from, "idle")
  /\ phase' = [phase EXCEPT ![img[w]] = outcome]
  /\ Forget(w)
  /\ UNCHANGED <<storeVars, tries, faults>>

\* Complete and Fail change a job only while it is processing.
Settle(w, from, outcome) ==
  /\ Goto(w, from, "idle")
  /\ phase' = IF phase[img[w]] = "processing"
              THEN [phase EXCEPT ![img[w]] = outcome] ELSE phase
  /\ Forget(w)
  /\ UNCHANGED <<storeVars, tries, faults>>

Complete(w) == Settle(w, "completing", "done")
Fail(w)     == Settle(w, "failing", "failed")

Vanish(w) ==
  /\ pc[w] # "idle" /\ faults < MaxFaults
  /\ faults' = faults + 1
  /\ pc' = [pc EXCEPT ![w] = "idle"]
  /\ Forget(w)
  /\ UNCHANGED <<storeVars, queueVars>>

\* A statement whose error execute returns, or Complete: Run fails the job.
StatementErrs(w) ==
  /\ pc[w] \in FalliblePcs /\ faults < MaxFaults
  /\ faults' = faults + 1
  /\ pc' = [pc EXCEPT ![w] = "failing"]
  /\ UNCHANGED <<storeVars, queueVars, localVars>>

-----------------------------------------------------------------------------
(* Steps 1 to 3: load, enhance, extract *)

Load(w) ==
  /\ Goto(w, "load", "enhance")
  /\ loaded' = [loaded EXCEPT ![w] = original[img[w]]]
  /\ UNCHANGED <<storeVars, queueVars, img, result, n, target, newQs, faults>>

\* Best effort: the enhanced bytes are stored if the enhancer decodes the
\* original, which it cannot when the bytes have been cleaned.
Enhance(w) ==
  /\ Goto(w, "enhance", "extract")
  /\ \/ loaded[w] /\ enhanced' = [enhanced EXCEPT ![img[w]] = TRUE]
     \/ (~loaded[w] \/ EnhancerFails) /\ UNCHANGED enhanced
  /\ UNCHANGED <<row, links, original, queueVars, localVars, faults>>

\* What the vision model makes of the image: without bytes, nothing.
Extracted(w) == {r \in Extractions : loaded[w] \/ r = <<>>}

\* extractWithRetries: all of its attempts and back-offs, as one answer.
Extract(w) ==
  /\ pc[w] = "extract"
  /\ \E r \in Extracted(w) :
       /\ result' = [result EXCEPT ![w] = r]
       /\ pc' = [pc EXCEPT ![w] = IF r = <<>> THEN "placeholder" ELSE "exact"]
  /\ n' = [n EXCEPT ![w] = 1]
  /\ UNCHANGED <<storeVars, queueVars, img, loaded, target, newQs, faults>>

-----------------------------------------------------------------------------
(* Step 4: one round of the loop per extracted question *)

Aim(w, q, emb) == target' = [target EXCEPT ![w] = <<q, row[q].id, emb>>]

\* Where the loop goes after its body.
AfterLink(w) ==
  CASE n[w] < Len(result[w]) -> "exact"
    [] n[w] = Len(result[w]) /\ newQs[w] # {} -> "verify"
    [] OTHER -> "completing"

\* Mutant of FindExact: a question that is already known is not linked.
FindExactSkipsLink(w) ==
  /\ \/ /\ Goto(w, "exact", AfterLink(w))
        /\ Present(Text(w))
        /\ n' = [n EXCEPT ![w] = @ + 1]
     \/ /\ Goto(w, "exact", "semantic")
        /\ ~Present(Text(w))
        /\ UNCHANGED n
  /\ UNCHANGED <<storeVars, queueVars, img, loaded, result, target, newQs,
                 faults>>

FindExact(w) ==
  /\ \/ /\ Goto(w, "exact", "link")
        /\ Present(Text(w))
        /\ Aim(w, Text(w), FALSE)
     \/ /\ Goto(w, "exact", "semantic")
        /\ ~Present(Text(w))
        /\ UNCHANGED target
  /\ UNCHANGED <<storeVars, queueVars, img, loaded, result, n, newQs, faults>>

\* The embedder may be absent or fail, then there is no semantic search and the
\* new row will have no embedding.
FindSemantic(w) ==
  /\ \/ /\ Goto(w, "semantic", "link")
        /\ \E q \in Nearest(Text(w)) : Aim(w, q, FALSE)
     \/ /\ Goto(w, "semantic", "create")
        /\ Nearest(Text(w)) = {}
        /\ Aim(w, Text(w), TRUE)
     \/ /\ Goto(w, "semantic", "create")
        /\ Aim(w, Text(w), FALSE)
  /\ UNCHANGED <<storeVars, queueVars, img, loaded, result, n, newQs, faults>>

Create(w) ==
  LET t == Text(w) IN
  /\ Goto(w, "create", "link")
  /\ InsertQuestion(t, "moderation", "extractor", target[w][3])
  /\ target' = [target EXCEPT ![w] = <<t, row'[t].id, FALSE>>]
  /\ newQs' = [newQs EXCEPT ![w] = @ \cup {<<t, row'[t].id>>}]
  /\ UNCHANGED <<links, original, enhanced, queueVars, img, loaded, result, n,
                 faults>>

\* Another run has inserted the text since FindExact missed it.
CreateLosesRace(w) ==
  /\ Goto(w, "create", "failing")
  /\ Present(Text(w))
  /\ UNCHANGED <<storeVars, queueVars, localVars, faults>>

\* The row is inserted, one of the statements that tag it fails.
CreateErrsAfterInsert(w) ==
  /\ faults < MaxFaults
  /\ Goto(w, "create", "failing")
  /\ InsertQuestion(Text(w), "moderation", "extractor", target[w][3])
  /\ faults' = faults + 1
  /\ UNCHANGED <<links, original, enhanced, queueVars, localVars>>

\* The row is still there: nothing here deletes one.  Moderation, where experts
\* do, adds the link that is refused (LinkFindsNoRow).
Link(w) ==
  /\ Goto(w, "link", AfterLink(w))
  /\ LinkQuestion(img[w], target[w][1], target[w][2])
  /\ n' = [n EXCEPT ![w] = @ + 1]
  /\ UNCHANGED <<row, original, enhanced, queueVars, img, loaded, result,
                 target, newQs, faults>>

-----------------------------------------------------------------------------
(* Step 5: verify the rows this run created *)

\* The verifier answers for some of them, or fails as a whole: then for none.
Verdicts(w) == SUBSET newQs[w]

\* Only newQs that still want their verdict stored are kept.
Verify(w) ==
  /\ pc[w] = "verify"
  /\ \E answered \in Verdicts(w) :
       /\ newQs' = [newQs EXCEPT ![w] = answered]
       /\ pc' = [pc EXCEPT
            ![w] = IF answered = {} THEN "completing" ELSE "verdicts"]
  /\ UNCHANGED <<storeVars, queueVars, img, loaded, result, n, target, faults>>

\* UpdateFromVerification for one of them, with the verifier's answers or, below
\* the confidence threshold, the extractor's.  Its error is logged only.
StoreVerdict(w) ==
  /\ pc[w] = "verdicts"
  /\ \E q \in newQs[w] :
       /\ \/ \E by \in {"extractor", "verifier"} :
               WriteVerdict(q[1], q[2], by) /\ UNCHANGED faults
          \/ ~HasId(q[1], q[2]) /\ UNCHANGED <<row, faults>>
          \/ faults < MaxFaults /\ faults' = faults + 1 /\ UNCHANGED row
       /\ newQs' = [newQs EXCEPT ![w] = @ \ {q}]
       /\ pc' = [pc EXCEPT
            ![w] = IF newQs[w] = {q} THEN "completing" ELSE "verdicts"]
  /\ UNCHANGED <<links, original, enhanced, queueVars, img, loaded, result, n,
                 target>>

-----------------------------------------------------------------------------
(* handleExtractionFailure *)

\* The Question it builds leaves ChoiceLabeling at its zero value.
PlaceholderLabeling == ""

\* Create names every column, so no default applies: the CHECK refuses the
\* INSERT, the error is logged, the function returns and execute returns nil.
CreatePlaceholder(w) ==
  /\ Goto(w, "placeholder", "completing")
  /\ PlaceholderLabeling \notin Labelings
  /\ UNCHANGED <<storeVars, queueVars, localVars, faults>>

-----------------------------------------------------------------------------
RunStep(w) ==
  \/ Load(w) \/ Enhance(w) \/ Extract(w)
  \/ FindExact(w) \/ FindSemantic(w)
  \/ Create(w) \/ CreateLosesRace(w) \/ CreateErrsAfterInsert(w)
  \/ Link(w) \/ Verify(w) \/ StoreVerdict(w)
  \/ CreatePlaceholder(w)
  \/ Complete(w) \/ Fail(w) \/ StatementErrs(w) \/ Vanish(w)

\* Every image is decided and every worker waits for a notification.
Quiescent ==
  /\ \A i \in Images : phase[i] \in Settled
  /\ \A w \in Workers : pc[w] = "idle"
  /\ UNCHANGED vars

Next ==
  \/ \E i \in Images : Upload(i) \/ Reap(i)
  \/ \E w \in Workers : RunStep(w) \/ \E i \in Images : Claim(w, i)
  \/ Quiescent

Spec == Init /\ [][Next]_vars

\* Every call of a run returns, idle workers poll the queue, the reaper ticks.
Fairness ==
  /\ \A w \in Workers : /\ WF_vars(RunStep(w))
                        /\ WF_vars(\E i \in Images : Claim(w, i))
  /\ \A i \in Images : WF_vars(Reap(i))

FairSpec == Spec /\ Fairness

-----------------------------------------------------------------------------
(* What the pipeline promises *)

\* The values the variables take; a run holds an image exactly while it is not
\* idle, and the loop index stays within its result.
TypeOK ==
  /\ StoreTypeOK
  /\ phase \in [Images -> {"absent", "pending", "processing"} \cup Settled]
  /\ tries \in [Images -> 0..MaxQueueAttempts]
  /\ pc \in [Workers -> Pcs]
  /\ img \in [Workers -> Images \cup {NoImage}]
  /\ loaded \in [Workers -> BOOLEAN]
  /\ result \in [Workers -> Extractions]
  /\ n \in [Workers -> Nat]
  /\ target \in [Workers -> (Texts \X Nat \X BOOLEAN) \cup {NoTarget}]
  /\ newQs \in [Workers -> SUBSET (Texts \X Nat)]
  /\ faults \in 0..MaxFaults
  /\ \A w \in Workers :
       /\ img[w] = NoImage <=> pc[w] = "idle"
       /\ n[w] <= Len(result[w]) + 1

\* Retries, zombie runs and lost races included, every image's job follows the
\* life cycle the queue promises.
Lifecycle == INSTANCE JobLifecycle
  WITH Jobs <- Images, MaxTries <- MaxQueueAttempts, Withdrawable <- {}

ImplementsLifecycle == Lifecycle!Spec

Shown(i, t) == \E q \in Covers(t) : <<i, q>> \in links

\* A run that is about to complete its job has linked every text it extracted
\* to the image, under the text's own row or a semantically equal one, whatever
\* other runs created or abandoned between its look-up and its link.
LinkedBeforeComplete ==
  \A w \in Workers :
    pc[w] \in {"verify", "verdicts", "completing"} =>
      \A k \in 1..Len(result[w]) : Shown(img[w], result[w][k])

\* No two runs, even two of one job, ever hold a verdict for the same row, so
\* one run's verifier never overwrites another's.
VerdictsDontCollide ==
  \A v, w \in Workers : v # w => newQs[v] \cap newQs[w] = {}

\* End to end: whatever vanishes, is retried, raced or extracted to nothing, the
\* job of an uploaded image is decided in the end.
UploadIsDecided ==
  \A i \in Images : phase[i] = "pending" ~> phase[i] \in Settled

\* What an extraction has found is shown to the session in the end, under its own
\* or an equal question, or the job fails, unless a fault intervenes.
FoundIsShown ==
  \A i \in Images, r \in Extractions \ {<<>>} :
    (\E w \in Workers : img[w] = i /\ pc[w] = "exact" /\ result[w] = r)
      ~> \/ \A k \in 1..Len(r) : Shown(i, r[k])
         \/ phase[i] = "failed"
         \/ faults > 0

\* README.md:360, on the status error: "The image was unreadable after
\* extraction retries; a placeholder awaiting manual expert entry": while no
\* statement has failed and no run has vanished, a job is done only when its
\* image shows a question.
DoneIsAnswered ==
  faults = 0 =>
    \A i \in Images : phase[i] = "done" => \E q \in Texts : <<i, q>> \in links
=============================================================================
