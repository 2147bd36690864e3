-------------------------- MODULE MCRegistryLookup --------------------------
(***************************************************************************)
(* Model-checking instance of RegistryLookup: three organizations and two  *)
(* application types with a page of one id, so that a lookup of two or    *)
(* three matches needs several pages and hits the PAGESIZE + 1 fetch       *)
(* boundary, while writes move organizations in and out of the range.     *)
(* The appTypeIds are numbered apart from the orgIDs, so that the two are  *)
(* never confused in an answer.                                            *)
(***************************************************************************)
EXTENDS RegistryLookup

MCOrgs == {1, 2, 3}
MCAppIds == {4, 5}
MCStatusInputs == {DECOMMISSIONED}
=============================================================================
