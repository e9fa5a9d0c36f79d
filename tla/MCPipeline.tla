----------------------------- MODULE MCPipeline -----------------------------
(***************************************************************************)
(* Small instances of Pipeline: two texts a model of the embedder takes    *)
(* for the same question, images that show one, both or none of them.      *)
(***************************************************************************)
EXTENDS Pipeline, TLC

CONSTANTS t1, t2

MCTexts == {t1, t2}
MCSimilar == {<<t1, t2>>, <<t2, t1>>}
MCExtractions == {<<>>, <<t1, t2>>}

Symmetry == Permutations(Workers) \cup Permutations(Images)
=============================================================================
