------------------------------ MODULE MCDevice ------------------------------
(***************************************************************************)
(* The kernel modules as TLC checks them: a behaviour is of loads and      *)
(* unloads of the character device (ChrdevLife), of the calls on the       *)
(* buffer of example 05 once it is there (ChrdevBuf), or of the GPIO       *)
(* drivers (GpioLine); exam says which.                                    *)
(***************************************************************************)
EXTENDS ChrdevLife, ChrdevBuf, GpioLine

VARIABLE exam

Init == exam \in {"loads", "calls", "gpio"} /\ LifeInit /\ BufInit /\ GpioInit

Next == /\ UNCHANGED exam
        /\ \/ exam = "loads" /\ LifeNext /\ UNCHANGED <<bufVars, gpioVars>>
           \/ exam = "calls" /\ BufNext /\ UNCHANGED <<lifeVars, gpioVars>>
           \/ exam = "gpio" /\ GpioNext /\ UNCHANGED <<lifeVars, bufVars>>

vars == <<exam, lifeVars, bufVars, gpioVars>>
Spec == Init /\ [][Next]_vars

(* Type correctness of the three.                                          *)
DeviceTypeOK == LifeTypeOK /\ BufTypeOK /\ GpioTypeOK
=============================================================================
