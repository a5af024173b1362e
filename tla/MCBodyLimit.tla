---------------------------- MODULE MCBodyLimit -----------------------------
(***************************************************************************)
(* A limit of three bytes, and headers below, at and above it, negative,   *)
(* or absent, none of which binds what is sent.                            *)
(***************************************************************************)
EXTENDS BodyLimit

MCDeclared == {-1, 0, 3, 4}
=============================================================================
