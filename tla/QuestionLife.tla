---------------------------- MODULE QuestionLife ----------------------------
(***************************************************************************)
(* What the question store promises to those who read it, with no images,  *)
(* workers, transactions or crashes: who decides what a question answers.  *)
(* A question is extracted, and then owed at most one verdict, or entered  *)
(* by an expert, and then owed none; experts review it whenever they like; *)
(* a question that is removed may come back as another version of itself.  *)
(* Moderation, next to the pipeline, implements this specification: a      *)
(* version is a row's id, and a verdict is owed while the run that         *)
(* inserted the row has not dropped it from newQs.                         *)
(***************************************************************************)
EXTENDS Naturals

CONSTANT Questions    \* the questions, each known by its hash

VARIABLES question,   \* [Questions -> [version, status, author]]
          open        \* the versions that are owed a verdict, <<q, version>>

vars == <<question, open>>

Absent(q)  == question[q].status = "absent"
Version(q) == <<q, question[q].version>>

Init ==
  /\ question = [q \in Questions |->
       [version |-> 0, status |-> "absent", author |-> "nobody"]]
  /\ open = {}

Becomes(q, version, status, author) ==
  question' = [question EXCEPT ![q] =
    [version |-> version, status |-> status, author |-> author]]

Inserted(q, status, author) ==
  Absent(q) /\ Becomes(q, question[q].version + 1, status, author)

\* The run may fail between the row and what it notes of it; then no verdict is
\* owed.
Extract(q) ==
  /\ Inserted(q, "moderation", "extractor")
  /\ open' \in {open, open \cup {<<q, question[q].version + 1>>}}

Enter(q) == Inserted(q, "verified", "expert") /\ UNCHANGED open

\* The verifier decides who wrote the answers, and nothing else.
Judge(q) ==
  /\ ~Absent(q) /\ Version(q) \in open
  /\ \E author \in {"extractor", "verifier"} :
       Becomes(q, question[q].version, question[q].status, author)
  /\ open' = open \ {Version(q)}

\* Also what an import does to a question that is known.
Review(q) ==
  /\ ~Absent(q)
  /\ \E status \in {"moderation", "verified", "error"} :
       Becomes(q, question[q].version, status, "expert")
  /\ UNCHANGED open

Remove(q) ==
  /\ ~Absent(q)
  /\ Becomes(q, question[q].version, "absent", "nobody")
  /\ UNCHANGED open

\* The verifier did not answer, its verdict could not be stored, the run ended.
Drop == open' \subseteq open /\ UNCHANGED question

Next ==
  \/ \E q \in Questions : Extract(q) \/ Enter(q) \/ Judge(q) \/ Review(q) \/ Remove(q)
  \/ Drop

Spec == Init /\ [][Next]_vars

-----------------------------------------------------------------------------
\* An expert has had the last word on this version, and no verdict is on its way.
Decided(q) ==
  ~Absent(q) /\ question[q].author = "expert" /\ Version(q) \notin open

\* What an expert has decided stays decided by experts until it is removed.
DecidedStays ==
  [][\A q \in Questions : Decided(q) => Decided(q)' \/ Absent(q)']_vars
=============================================================================
