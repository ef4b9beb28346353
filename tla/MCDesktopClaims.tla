-------------------------- MODULE MCDesktopClaims --------------------------
(***************************************************************************)
(* The claim of DesktopClaims on a small instance of MCDesktop.            *)
(***************************************************************************)
EXTENDS MCDesktop, DesktopClaims
=============================================================================
