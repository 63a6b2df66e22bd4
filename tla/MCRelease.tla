------------------------------ MODULE MCRelease ------------------------------
(***************************************************************************)
(* Two tiers of crates and a tool that is not published; a second commit   *)
(* raises the response crate.  One tag names a version its commit does not *)
(* have.  Two runs overlap, beside an operator who waits for the index.    *)
(***************************************************************************)
EXTENDS Release, TLC

CONSTANTS r1, r2, op

MCRuns      == {r1, r2}
MCOperators == {op}
MCClients   == MCRuns \cup MCOperators
MCCrates    == {"crypto", "response", "tool"}
MCVersions  == {1, 2}

MCManifest == [k1 |-> [crypto |-> 1, response |-> 1, tool |-> 1],
               k2 |-> [crypto |-> 1, response |-> 2, tool |-> 1]]

Tag(c, v, k) == [crate |-> c, version |-> v, commit |-> k]

MCTags == {Tag("crypto", 1, "k1"), Tag("response", 2, "k2"), Tag("crypto", 2, "k1"),
           Tag("tool", 1, "k1")}

MCRequires ==
    [c \in MCCrates |-> [v \in MCVersions |->
       IF c = "response" THEN {[dep |-> "crypto", admits |-> {1}]} ELSE {}]]

Symmetry == Permutations(MCRuns)

=============================================================================
