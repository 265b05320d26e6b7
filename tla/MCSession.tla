------------------------------ MODULE MCSession ------------------------------
(* One browser: a staff account and a technician's, one or two tabs. *)
EXTENDS Session

CONSTANTS admin, tech
=============================================================================
