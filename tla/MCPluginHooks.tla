---------------------------- MODULE MCPluginHooks ----------------------------
(***************************************************************************)
(* Small instances of PluginHooks.                                         *)
(***************************************************************************)
EXTENDS PluginHooks, TLC

AllPaths == {"large", "vendored"}
Large == {"large", "vendored"}
Vendored == {"vendored"}

Symmetry == Permutations(Session) \cup Permutations(CallId)

=============================================================================
