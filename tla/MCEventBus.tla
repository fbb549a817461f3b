------------------------------ MODULE MCEventBus ------------------------------
(* The event bus as the code uses it: both cores publish (MCEventBusTwo.cfg). *)
(* With core 0 alone it is checked in MCPaths.                                *)
EXTENDS EventBus
=============================================================================
