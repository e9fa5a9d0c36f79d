---------------------------- MODULE MCModeration ----------------------------
(***************************************************************************)
(* Small instances of Moderation: one image read by two workers next to    *)
(* one expert, and several images that experts review at the same time.    *)
(***************************************************************************)
EXTENDS Moderation, TLC

CONSTANTS t1, t2

OneText == {t1}
TwoTexts == {t1, t2}
NoneSimilar == {}
OneQuestion == {<<>>, <<t1>>}
TwoQuestions == {<<>>, <<t1, t2>>}

\* For the experts among themselves: every image has been read, shows every
\* text, and nothing is reviewed yet.
ReadInit ==
  /\ row = [q \in Texts |-> [id |-> 1, status |-> "moderation",
                             by |-> "extractor", embedded |-> TRUE]]
  /\ links = Images \X Texts
  /\ original = [i \in Images |-> TRUE]
  /\ enhanced = [i \in Images |-> TRUE]
  /\ phase = [i \in Images |-> "done"]
  /\ tries = [i \in Images |-> 1]
  /\ pc = [w \in Workers |-> "idle"] /\ faults = 0
  /\ img = [w \in Workers |-> NoImage] /\ loaded = [w \in Workers |-> FALSE]
  /\ result = [w \in Workers |-> <<>>] /\ n = [w \in Workers |-> 0]
  /\ target = [w \in Workers |-> NoTarget] /\ newQs = [w \in Workers |-> {}]
  /\ ReviewRequestsInit

FairReadSpec == ReadInit /\ [][ReviewNext]_reviewVars /\ ReviewFairness

Symmetry == Permutations(Workers) \cup Permutations(Images) \cup Permutations(Experts)
=============================================================================
