----------------------------- MODULE Publication -----------------------------
(***************************************************************************)
(* What the release pipeline promises of crates.io: it is a shelf on which *)
(* one version is put at a time and from which nothing is taken, and at    *)
(* the moment a version is put there it is what a published tag names, its *)
(* commit is on main, and what it requires is on the shelf, or it is one   *)
(* of those that were put there blindly.                                   *)
(***************************************************************************)
CONSTANTS Crates, Tags, Manifest, Requires, Publishable

VARIABLES
    main,      \* the commits on main
    published, \* the versions of each crate on the shelf
    blind      \* those put there by someone who did not know what they require

Init == main = {} /\ published = [c \in Crates |-> {}] /\ blind = {}

Merge(k) ==
    /\ k \in DOMAIN Manifest \ main
    /\ main' = main \cup {k}
    /\ UNCHANGED <<published, blind>>

Publish(t) ==
    /\ t.crate \in Publishable /\ t.commit \in main
    /\ t.version = Manifest[t.commit][t.crate]
    /\ t.version \notin published[t.crate]
    /\ \/ /\ \A q \in Requires[t.crate][t.version] : published[q.dep] \cap q.admits # {}
          /\ UNCHANGED blind
       \/ blind' = blind \cup {<<t.crate, t.version>>}
    /\ published' = [published EXCEPT ![t.crate] = @ \cup {t.version}]
    /\ UNCHANGED main

Next == (\E k \in DOMAIN Manifest : Merge(k)) \/ (\E t \in Tags : Publish(t))

Spec == Init /\ [][Next]_<<main, published, blind>>

=============================================================================
