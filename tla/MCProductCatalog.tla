------------------------- MODULE MCProductCatalog -------------------------
(* Small instances of ProductCatalog; the constants are in the cfg files.  *)
EXTENDS ProductCatalog
=============================================================================
