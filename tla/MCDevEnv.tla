------------------------------ MODULE MCDevEnv ------------------------------
(* Two Cargo tools of the two classes, a Node tool and a system tool; the copies
   a host may have of each cover the banners and package.json layouts dev_env.rs
   tells apart.                                                                 *)
EXTENDS DevEnv

Old   == <<1, 9>>
New   == <<1, 10>>
Later == <<1, 10, 1>>

MCPins == {Old, New}

Banner(status, out, err) == [status |-> status, stdout |-> out, stderr |-> err]

Binary(version, banner) ==
    [there |-> TRUE, real |-> version, answer |-> banner, own |-> NoPackage, above |-> <<>>]

\* "tool 1.9", with a build date and, on stderr, a path that holds a version.
Plain(v)      == Binary(v, Banner(0, <<<<v>>>>, <<>>))
Warns(v)      == Binary(v, Banner(0, <<<<v, <<20260818>>>>>>, <<<<<<9, 9, 9>>>>>>))
SecondLine(v) == Binary(v, Banner(0, <<<<>>, <<v>>>>, <<>>))
OnStderr(v)   == Binary(v, Banner(0, <<>>, <<<<v>>>>))
Refuses(v)    == Binary(v, Banner(1, <<>>, <<<<v>>>>))

Package(p, v) == [package |-> p, version |-> v]

\* A host copy below its own package, or with nothing that names it above.
Node(v, above) ==
    [there |-> TRUE, real |-> v, answer |-> Banner(0, <<>>, <<>>), own |-> NoPackage, above |-> above]

MCCargoCopy(t, v) == Warns(v)

MCNodeCopy(t, v) ==
    [there |-> TRUE, real |-> v, answer |-> Banner(0, <<>>, <<>>),
     own |-> Package(t, v), above |-> <<NoPackage, Package("repo", <<0, 1>>)>>]

MCHostCopies(t) ==
    CASE t = "floor"  -> {Absent, OnStderr(Old), Warns(Later), Refuses(Later)}
      [] t = "exact"  -> {Absent, Plain(Old), Warns(Later)}
      [] t = "mdlint" -> {Absent, Node(Later, <<NoPackage, Package("other", <<3, 0>>)>>),
                          Node(New, <<Package("bin", Old), Package("mdlint", New)>>)}
      [] t = "system" -> {Absent, SecondLine(Old), SecondLine(New)}

AllThere == [git |-> "there", rustup |-> "there", cargo |-> "proxy", rustc |-> "proxy",
             python3 |-> "there", node |-> "there", npm |-> "there"]

Everything == OwnedSections \cup CiSections

Without(command) == [AllThere EXCEPT ![command] = "absent"]

\* Every bootstrap situation under a complete manifest, and the manifests that
\* lack a section or state one nothing checks.
MCSituations ==
    [stated : {Everything},
     bootstrap : {AllThere, Without("rustup"), Without("python3"),
                  [AllThere EXCEPT !["cargo"] = "other"], [AllThere EXCEPT !["node"] = "broken"]}]
    \cup
    [stated : {Everything \cup {"other_tools"}, Everything \ {"cargo_tools"},
               Everything \ {"node_tools"}, Everything \ {"system_tools"}},
     bootstrap : {AllThere}]
=============================================================================
