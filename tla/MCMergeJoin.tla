----------------------------- MODULE MCMergeJoin -----------------------------
(* Small instances of MergeJoin: a human h, who created the parent and owns a bot. *)
EXTENDS MergeJoin, TLC

CONSTANTS h, bot, c1

Itself == h :> {h}
OwnerAndBot == (h :> {h, bot}) @@ (bot :> {bot})

\* Two trees at most have been answered.
FewTrees == Cardinality(shown) <= 2
=============================================================================
