------------------------------ MODULE MCStack ------------------------------
(* Stack on small instances: strings are interchangeable.                  *)
EXTENDS Stack, TLC

MCAll == Liberty
MCCareless == Liberty \ {"deep", "params"}
MCSymmetry == Permutations(Str)
=============================================================================
