----------------------------- MODULE MCCatalog -----------------------------
(* Model values for the sessions and the display rules, see Catalog.cfg.   *)
EXTENDS Catalog
=============================================================================
