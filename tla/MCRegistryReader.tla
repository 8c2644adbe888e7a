-------------------------- MODULE MCRegistryReader --------------------------
(***************************************************************************)
(* RegistryReader over the chain of MCRegistrySync that grants a sensor    *)
(* and revokes it.                                                         *)
(***************************************************************************)
EXTENDS MCRegistrySync, RegistryReader

=============================================================================
