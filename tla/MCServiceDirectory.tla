------------------------- MODULE MCServiceDirectory -------------------------
(* Instances of the main Node's directory. *)
EXTENDS ServiceDirectory, TLC

CONSTANTS n1, x, w, m

SessionSymmetry == Permutations(Sessions)

OneName == [k \in Services |-> m]

Nothing == [k \in Services |-> {}]

\* x runs on n1 or on the main Node and is looked up.
Lookups == [hosts |-> x :> {n1, Main} @@ w :> {}, wants |-> Nothing, targets |-> {x}]

\* x and its watcher w, which also watches itself, each run on n1 or on the
\* main Node.
Watching == [hosts |-> x :> {n1, Main} @@ w :> {n1, Main},
             wants |-> x :> {} @@ w :> {m}, targets |-> {}]

BothUses == {Lookups, Watching}

\* x runs on n1 only.
Alone == {[hosts |-> x :> {n1} @@ w :> {}, wants |-> Nothing, targets |-> {}]}
=============================================================================
