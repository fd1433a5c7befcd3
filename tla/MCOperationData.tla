-------------------------- MODULE MCOperationData --------------------------
(* OperationData with eleven bits: the driver's default, in which C-ON has    *)
(* none, and one in which C-ON has the bit that M2 falls back to, M2 another, *)
(* M0 and M1 are exchanged and RVS has its bit by fallback.                   *)
EXTENDS OperationData, TLC

MCBits == 0..10
MCFallback == "M0" :> 0 @@ "M1" :> 1 @@ "M2" :> 2 @@ "START" :> 3 @@ "STOP" :> 4
              @@ "MS0" :> 5 @@ "MS1" :> 6 @@ "MS2" :> 7 @@ "FWD" :> 8 @@ "RVS" :> 9
Plain   == <<"M0", "M1", "M2", "START", "STOP", "MS0", "MS1", "MS2", "FWD", "RVS", "free">>
WithCOn == <<"M1", "M0", "C-ON", "START", "STOP", "MS0", "MS1", "MS2", "FWD", "free", "M2">>
MCAssignments == {[b \in MCBits |-> Plain[b + 1]], [b \in MCBits |-> WithCOn[b + 1]]}
MCSpeeds == {1, -2}
MCRates == {1, 2}
MCPositions == {0}
MCRamps == {"acceleration"}
MCFactory == "form" :> 1 @@ "speed" :> 1 @@ "position" :> 0 @@ "acceleration" :> 2
=============================================================================
