----------------------------- MODULE MCProcess ------------------------------
(* The values of the constants of Process for TLC. *)
EXTENDS Process, TLC

\* No setting, a wrong one, and one that int32 turns into one.
SomeSettings == {Unset, NoNumber, 17}

\* One after the other.
AllBinaries == {"order", "cart", "catalog", "gateway", "worker"}

=============================================================================
