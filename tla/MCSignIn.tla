------------------------------- MODULE MCSignIn -------------------------------
(* A small instance of SignIn: an admin and a worker, one address of each  *)
(* kind, two calls at a time and room for the logouts they cause.          *)
EXTENDS SignIn

MCPaths == {"login", "register", "workers", "profile"}
=============================================================================
