---------------------------- MODULE MCBrowserRuntime ----------------------------
(***************************************************************************)
(* The paper runtime page for TLC: its calls are interchangeable.          *)
(***************************************************************************)
EXTENDS BrowserRuntime, TLC

Symmetry == Permutations(Calls)

=============================================================================
