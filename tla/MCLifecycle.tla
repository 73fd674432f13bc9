---- MODULE MCLifecycle ----
(* Values of the constants of Lifecycle are all in the configuration. *)
EXTENDS Lifecycle
====
