------------------------------ MODULE DialfsMC ------------------------------
(* The names of files are interchangeable: nothing compares two of them but  *)
(* for equality.                                                             *)
EXTENDS Dialfs

Simetria == Permutations(Nombres)

=============================================================================
