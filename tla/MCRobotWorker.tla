--------------------------- MODULE MCRobotWorker ---------------------------
(***************************************************************************)
(* Values for model checking RobotWorker.                                  *)
(***************************************************************************)
EXTENDS RobotWorker, TLC

\* Tasks are interchangeable.
Tasks == Permutations(Workers)
=============================================================================
