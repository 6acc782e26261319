---------------------------- MODULE MCQueryDriver ----------------------------
(* Small instances of QueryDriver for TLC. *)
EXTENDS QueryMeaning
===============================================================================
