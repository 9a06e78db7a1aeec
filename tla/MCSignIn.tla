------------------------------ MODULE MCSignIn ------------------------------
(* Two people at one browser, and forms before, between and after them.     *)
EXTENDS SignIn, TLC
=============================================================================
