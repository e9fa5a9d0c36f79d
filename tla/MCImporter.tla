----------------------------- MODULE MCImporter -----------------------------
(***************************************************************************)
(* Small instances of Importer: two imports of files with up to three rows *)
(* that share questions, in chunks of two.                                 *)
(***************************************************************************)
EXTENDS Importer, TLC

Symmetry == Permutations(Imports) \cup Permutations(Hashes)
=============================================================================
