---------------------------- MODULE MCHelperFile -----------------------------
(* Two cores of one version and one of another, over files that a core of   *)
(* before, or another user, may have left.                                  *)
EXTENDS HelperFile, TLC

CONSTANTS c1, c2, c3

MCPayload == c1 :> "new" @@ c2 :> "new" @@ c3 :> "newer"
MCOldFiles ==
    {[content |-> "new", private |-> FALSE, owned |-> TRUE, synced |-> TRUE],
     [content |-> "new", private |-> TRUE, owned |-> FALSE, synced |-> TRUE],
     [content |-> "other", private |-> TRUE, owned |-> TRUE, synced |-> TRUE]}
SameVersion == Permutations({c1, c2})
=============================================================================
