---------------------------- MODULE MCPullRequest ----------------------------
(***************************************************************************)
(* One path of each kind in the repository, edited in place, alone or with *)
(* another; MCRenames adds moves between directories.  The pull request is *)
(* followed to main.                                                       *)
(***************************************************************************)
EXTENDS MainPush

P(area, suffix, docConfig, sharedList) ==
    [area |-> area, suffix |-> suffix, docConfig |-> docConfig, sharedList |-> sharedList]

MCPaths ==
    {P(a, "other", FALSE, FALSE) : a \in Crate}        \* crates/logging/src/init.rs
    \cup {P("snap", "md", FALSE, FALSE),               \* crates/snap-crypto/README.md
          P("retired", "other", FALSE, FALSE),         \* extensions/money-pg/...
          P("none", "md", FALSE, FALSE),               \* README.md
          P("none", "sh", FALSE, TRUE),                \* scripts/x.sh
          P("none", "sh", FALSE, FALSE),               \* x.sh
          P("none", "other", TRUE, TRUE),              \* taplo.toml
          P("none", "other", FALSE, TRUE),             \* Cargo.lock
          P("none", "other", FALSE, FALSE)}            \* a path nobody owns

Edit(p) == [from |-> p, to |-> p]

Nobodys == P("none", "other", FALSE, FALSE)

\* No path, one path, any path with one nobody owns, and a crate's path with
\* another crate's or with a document.
MCEdits ==
    {{}} \cup {{Edit(p)} : p \in MCPaths} \cup {{Edit(p), Edit(Nobodys)} : p \in MCPaths}
    \cup {{Edit(P(a, "other", FALSE, FALSE)), Edit(q)} :
             a \in {"money", "logging"},
             q \in {P("iso3166", "other", FALSE, FALSE), P("none", "md", FALSE, FALSE)}}

Moved == {"logging", "money", "none"}

MCRenames ==
    {{[from |-> p, to |-> q]} : p, q \in {r \in MCPaths : r.area \in Moved}}

=============================================================================
