------------------------------- MODULE MCDocs -------------------------------
(* Small instances of Docs for TLC.                                        *)
EXTENDS Docs, TLC

MCSymmetry == Permutations(Editors) \cup Permutations(Ids) \cup Permutations(Keys)
                \cup Permutations(Slugs)
=============================================================================
