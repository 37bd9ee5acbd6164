----------------------------- MODULE MCObjects ------------------------------
(***************************************************************************)
(* A small instance of Objects: one key k1 of every type, and a bystander  *)
(* that is a list of at most one element.                                  *)
(***************************************************************************)
EXTENDS Objects

CONSTANTS k1, bystander, txt, f1, f2, f3, m1, m2, m3

\* f1 and f2 share the bucket of a table of two, f1 and f3 that of a table of one.
Hashes == (f1 :> 1) @@ (f2 :> 3) @@ (f3 :> 2)
Ranks == (m1 :> 1) @@ (m2 :> 2) @@ (m3 :> 3)

Only(S) == [j \in Keys |-> IF j = k1 THEN S ELSE {}]

HSets == Only({<<<<f1, 0>>>>, <<<<f2, txt>>, <<f3, 0>>>>})
HDels == Only({<<f1>>, <<f2, f3, f2>>})
HIncrs == Only({<<f1, 1>>, <<f2, 1>>})
Pushes == (k1 :> {<<0, 1>>, <<0>>}) @@ (bystander :> {<<0>>})
LRems == Only({<<-1, 0>>, <<2, 0>>, <<0, 1>>})
LTrims == Only({<<0, -2>>, <<-2, 5>>, <<1, 0>>})
ZAdds == Only({<<<<m1, 2>>>>, <<<<m3, 1>>, <<m1, 1>>>>, <<<<m2, 2>>, <<m2, 1>>>>, <<<<m3, NaN>>>>})
ZRems == Only({<<m1>>, <<m2, m3, m2>>})
LenBound == (k1 :> 3) @@ (bystander :> 1)
=============================================================================
