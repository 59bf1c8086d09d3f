------------------------------ MODULE RpcBackEndMC ------------------------------
(* The generator's back end in one run: its command line and files, and    *)
(* the emitter the contents of a file are built in.  They share no state:  *)
(* RpcGen has what a failed emitter leaves behind as a file cut short, and *)
(* each module is checked while the other one has not begun.               *)
EXTENDS RpcGenMC, RpcEmitterMC

BackEndInit == Init /\ EmitterInit

Generate == EmitterInit /\ Next /\ UNCHANGED emitterVars
EmitText == Init /\ EmitterNext /\ UNCHANGED vars

BackEndNext == Generate \/ EmitText

BackEndSpec == BackEndInit /\ [][BackEndNext]_<<vars, emitterVars>>
=============================================================================
