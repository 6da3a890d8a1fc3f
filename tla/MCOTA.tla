------------------------------- MODULE MCOTA -------------------------------
(* Two updaters, two releases.                                             *)
EXTENDS OTA

CONSTANTS u1, u2, r1, r2

MCUpdaters == {u1, u2}
MCReleases == {r1, r2}
MCOneUpdater == {u1}
=============================================================================
