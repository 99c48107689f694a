----------------------------- MODULE MCCyphaRest -----------------------------
(* Model checking of CyphaRest: the bundles that may be in the registry. *)
EXTENDS CyphaRest, TLC

Bundle(pre, head, fault) == [pre |-> pre, head |-> head, fault |-> fault]

\* One bundle with everything, and bundles that fail at each stage of a load.
FaultyShapes == {Bundle(TRUE, TRUE, "none"), Bundle(FALSE, FALSE, "none"),
                 Bundle(TRUE, TRUE, "badState"), Bundle(TRUE, FALSE, "badPre"),
                 Bundle(FALSE, TRUE, "badHead"), Bundle(FALSE, FALSE, "badCard"),
                 Bundle(FALSE, FALSE, "noField")}

\* Bundles that all load.
SoundShapes == {Bundle(TRUE, FALSE, "none"), Bundle(FALSE, FALSE, "none")}

Symmetry == Permutations(Keys)
=============================================================================
