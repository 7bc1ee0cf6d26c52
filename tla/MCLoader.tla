------------------------------ MODULE MCLoader ------------------------------
(***************************************************************************)
(* Small instances of the HTTP loader: three pages, with a cycle, an empty *)
(* cycle and a page whose successor cannot be read.                        *)
(***************************************************************************)
EXTENDS HTTPLoader

CONSTANTS a, b, c, u1, u2, u3

T(n, p) == [name |-> n, port |-> p]
Page(items, next) == [items |-> items, next |-> next]

Straight ==
  u1 :> Page(<<T(a, 0), T(b, 0)>>, u2) @@
  u2 :> Page(<<T(c, 1)>>, u3) @@
  u3 :> Page(<<T(a, 1), T(b, 1)>>, NoNext)
Cyclic ==
  u1 :> Page(<<T(a, 0)>>, u2) @@
  u2 :> Page(<<T(b, 0), T(c, 0)>>, u1) @@
  u3 :> Page(<<>>, NoNext)
Broken ==
  u1 :> Page(<<T(a, 0)>>, u2) @@
  u2 :> Page(<<T(b, 0)>>, BadNext) @@
  u3 :> Page(<<T(c, 0)>>, NoNext)
Vacant ==
  u1 :> Page(<<>>, u2) @@
  u2 :> Page(<<>>, u1) @@
  u3 :> Page(<<>>, NoNext)

MCSources == {Straight, Cyclic, Broken, Vacant}
=============================================================================
