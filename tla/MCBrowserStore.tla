--------------------------- MODULE MCBrowserStore ---------------------------
(***************************************************************************)
(* An instance of BrowserStore for TLC.                                    *)
(***************************************************************************)
EXTENDS BrowserStore, TLC

\* Nothing tells one matter from another.
MatterSymmetry == Permutations(Cases)
=============================================================================
