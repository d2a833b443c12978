----------------------------- MODULE MC_Storage -----------------------------
(***************************************************************************)
(* An instance of Storage: two images share the archive y and, through it  *)
(* and on its own, the file x; both may be deleted, or one that is         *)
(* uploaded again.                                                         *)
(***************************************************************************)
EXTENDS Storage

CONSTANTS A, B, x, y

File(name, uid) == [name |-> name, uid |-> uid]

\* A holds x twice and y; B holds y and itself; y holds x.
SharedContent ==
    (A :> {File("a", x), File("b", x), File("c", y)}) @@
    (B :> {File("a", y), File("b", B)}) @@
    (y :> {File("d", x)}) @@ (x :> {})

\* Bound: by the time of a second deletion the uploads have gone through; the
\* listener may still be at the binaries of the first.
MCSpec ==
    Init /\ [][Next /\ (deletions < deletions' /\ deletions' > 1 => InPipeline = {})]_vars
=============================================================================
