------------------------------- MODULE OpenCode -------------------------------
(***************************************************************************)
(* What the modules of the OpenCode plugin (packages/opencode/src) share.  *)
(***************************************************************************)
CONSTANT Session   \* sessions of OpenCode, by which the plugin keeps its maps and rows

=============================================================================
