------------------------------- MODULE MCRelease -------------------------------
(***************************************************************************)
(* Instances of ReleaseControl for TLC: an app-only release and releases   *)
(* that add migrations, all prepared against whatever is current.          *)
(***************************************************************************)
EXTENDS ReleaseControl

CONSTANTS base, appOnly, oneMore, twoMore

\* The site's release has migration 1.  oneMore adds 2; twoMore adds 2 and 3.
SqlTrees ==
    [r \in Releases |->
        CASE r = base \/ r = appOnly -> {1}
          [] r = oneMore -> {1, 2}
          [] r = twoMore -> {1, 2, 3}]
===============================================================================
