----------------------------- MODULE MCRegistry -----------------------------
(***************************************************************************)
(* Model-checking instance of Registry: three organizations and two        *)
(* application types, so that a record can move between overlapping and   *)
(* disjoint appTypeId lists, and be re-added over itself.                  *)
(***************************************************************************)
EXTENDS Registry

MCOrgs == {1, 2, 3}
MCAppIds == {1, 2}
MCStatusInputs == {OFFLINE, DECOMMISSIONED}
=============================================================================
