----------------------------- MODULE MCLibrary -----------------------------
(* Instances of Library for TLC.                                            *)
EXTENDS Library, TLC

CONSTANTS a, b, c, d, r1, r2

(* r1 holds two two-disc games and a file that cannot be read, r2 disc two  *)
(* of one as a set with disc one of the other, and a copy of it elsewhere.  *)
Image(h, k) == [hash |-> h, key |-> k]

TwoRoots == (r1 :> <<Image(c, 2), Image(a, 1), Image(None, 1), Image(d, 2), Image(b, 1)>>)
              @@ (r2 :> <<Image(b, 1), Image(c, 1), Image(b, 4)>>)

(* a: its descriptors decide; b: the database corrects its size; c and d:   *)
(* nothing is known but the size.                                           *)
Images == (a :> [inspected |-> "cd", size |-> "dvd", db |-> "dvd"])
            @@ (b :> [inspected |-> "none", size |-> "dvd", db |-> "cd"])
            @@ [h \in {c, d} |-> [inspected |-> "none", size |-> "cd", db |-> "none"]]
=============================================================================
