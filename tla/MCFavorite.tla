------------------------------ MODULE MCFavorite ------------------------------
(***************************************************************************)
(* Instances of FavoriteSync for TLC.                                      *)
(***************************************************************************)
EXTENDS FavoriteSync, TLC

NoPerils == {}
Overlap == {"overlap"}
AllPerils == PerilKinds
===============================================================================
