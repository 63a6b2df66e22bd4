------------------------------- MODULE CiPaths -------------------------------
(***************************************************************************)
(* repo-policy's classification of changed paths into the CI classes that  *)
(* workflow jobs are gated on (ci_paths.rs), and what git tells it of a    *)
(* change.                                                                 *)
(*                                                                         *)
(* A path is what classify_path looks at: the directory that owns it, its  *)
(* suffix, and whether it is on one of the shared lists.                   *)
(***************************************************************************)
EXTENDS Naturals, FiniteSets

Crate == {"iso3166", "logging", "money", "snap", "tools"}

BaseClasses == Crate \cup {"docs", "shared", "shell"}

Path == [area : Crate \cup {"retired", "none"}, suffix : {"md", "sh", "other"},
         docConfig : BOOLEAN, sharedList : BOOLEAN]

\* Every class that owns a path; a retired directory is shared.
ClassifyPath(p) ==
    (IF p.area \in Crate THEN {p.area} ELSE {})
    \cup (IF p.area = "retired" \/ p.sharedList THEN {"shared"} ELSE {})
    \cup (IF p.suffix = "md" \/ p.docConfig THEN {"docs"} ELSE {})
    \cup (IF p.suffix = "sh" THEN {"shell"} ELSE {})

\* Mutant: the workspace jobs forget one of its members.
SourcesWithoutSnap ==
    [rust   |-> {"iso3166", "logging", "money", "shared", "tools"},
     iso    |-> {"iso3166", "shared"},
     log    |-> {"logging", "shared"},
     money  |-> {"money", "shared"},
     snap   |-> {"snap", "shared"},
     worker |-> {"logging", "shared"},
     lint   |-> BaseClasses,
     shell  |-> {"shell"}]

\* DERIVED_CLASSES: the base classes that fire each class a job is gated on.
Sources ==
    [rust   |-> {"iso3166", "logging", "money", "snap", "shared", "tools"},
     iso    |-> {"iso3166", "shared"},
     log    |-> {"logging", "shared"},
     money  |-> {"money", "shared"},
     snap   |-> {"snap", "shared"},
     worker |-> {"logging", "shared"},
     lint   |-> BaseClasses,
     shell  |-> {"shell"}]

Classes == DOMAIN Sources

AllOwned(paths) == \A p \in paths : ClassifyPath(p) # {}

\* classify_paths: the classes fired, meaningful only if every path is owned.
Fired(paths) ==
    {c \in Classes : \E p \in paths : ClassifyPath(p) \cap Sources[c] # {}}

\* A change touches the path it edits, or the two ends of a rename; the diff
\* names the new end alone (--name-only --find-renames).
Touched(change)  == {change.from, change.to}
Reported(change) == {change.to}

=============================================================================
