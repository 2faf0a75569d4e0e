----------------------------- MODULE MCPgSchema -----------------------------
(***************************************************************************)
(* The module TLC checks PgSchema by.  Its configurations give every       *)
(* constant its value; one of two documents is valid.                      *)
(***************************************************************************)
EXTENDS PgSchema
=============================================================================
