------------------------------ MODULE MCArmPolicy -----------------------------
(* The y axis of the right joystick, which drives a motor of the right arm    *)
(* and the one of the gantry (RobotControlPolicy.cpp:424, 427).               *)
EXTENDS ArmPolicy

MCArmOf == [YRight |-> "Right", ZLeft |-> "Gantry"]
MCAxisOf == [YRight |-> "rightY", ZLeft |-> "rightY"]
===============================================================================
