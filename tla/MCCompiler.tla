----------------------------- MODULE MCCompiler -----------------------------
(* Small programs: all that fits in MaxLength bytes.                       *)
EXTENDS Compiler
=============================================================================
