------------------------------- MODULE MCGitFlow -------------------------------
(***************************************************************************)
(* Runs on a project root whose last run may have crashed, with one role to a *)
(* sprint; what a sprint could not land is carried over to the next.          *)
(***************************************************************************)
EXTENDS GitFlow

OneRole == <<"developer">>
===============================================================================
