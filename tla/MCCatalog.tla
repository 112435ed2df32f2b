----------------------------- MODULE MCCatalog ------------------------------
(* The values of the constants of Catalog for TLC. *)
EXTENDS Catalog

\* Below zero, zero, one, the default and above the cap.
SomePageSizes == {-1, 0, 1, 2, 5}

=============================================================================
