--------------------- MODULE MC_ProvidersHealthManager ---------------------
(***************************************************************************)
(* Model values for ProvidersHealthManager: two aggregated statuses (up    *)
(* and down) so that a change and a change back can both happen, and one  *)
(* or two concurrent updaters.                                             *)
(***************************************************************************)
EXTENDS ProvidersHealthManager

CONSTANTS up, down, unknown, none

MCStatuses == {up, down}
=============================================================================
