---------------------------- MODULE MCMotionControl ---------------------------
(* Motors of the left arm, in the order of the enumeration EMotor.            *)
EXTENDS MotionControl

MCArmOf == [m \in Motors |-> "Left"]
MCAxisOf == [m \in Motors |-> IF m = "XLeft" THEN "leftX" ELSE "leftY"]
MCRank == [m \in Motors |-> IF m = "XLeft" THEN 1 ELSE 2]
===============================================================================
