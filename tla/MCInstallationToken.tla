------------------------ MODULE MCInstallationToken -------------------------
(***************************************************************************)
(* The zones of a run of InstallationToken that has none west of UTC: UTC, *)
(* one just east of it, and one so far east that no token is ever found    *)
(* cached.                                                                 *)
(***************************************************************************)
EXTENDS InstallationToken

MCZone == {-(Life - Margin), -1, 0}
=============================================================================
