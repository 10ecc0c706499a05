--------------------------- MODULE MCInstallation ---------------------------
(* Two installations of a shop, with two callbacks and two deliveries at   *)
(* once.                                                                   *)
EXTENDS Installation
============================================================================
