---------------------------- MODULE MCWebServer ----------------------------
(***************************************************************************)
(* WebServer for TLC: workers, descriptors and timers are interchangeable. *)
(***************************************************************************)
EXTENDS WebServer, TLC

Symmetry == Permutations(Workers) \cup Permutations(Fds) \cup Permutations(Timers)
=============================================================================
