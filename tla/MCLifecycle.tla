---------------------------- MODULE MCLifecycle ----------------------------
(***************************************************************************)
(* Three handlers, so that one can be upstream, one logging and one idle.  *)
(***************************************************************************)
EXTENDS Lifecycle

CONSTANTS h1, h2, h3
=============================================================================
