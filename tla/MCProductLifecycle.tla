------------------------ MODULE MCProductLifecycle ------------------------
(* Small instances of ProductLifecycle, one slice of the operations each.  *)
EXTENDS ProductLifecycle, TLC

Row(status, profile) == [status |-> status, profile |-> profile]

OneRow  == {Row("draft", "sensitive")}
Lapsing == {ForAsset("readiness", 1)}

Symmetry == Permutations(Clients)
=============================================================================
