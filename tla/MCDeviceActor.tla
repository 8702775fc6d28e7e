-------------------------- MODULE MCDeviceActor --------------------------
(* TLC instance of DeviceActor: two clients, and two images of which the    *)
(* restart coil saves one.                                                 *)
EXTENDS DeviceActor

MCOrder     == <<"config", "info">>
MCCoilOrder == <<"config">>

=============================================================================
