---------------------------- MODULE MCDeviceAuth ----------------------------
(* DeviceAuth for TLC.  Liveness is among its properties, so its instances  *)
(* declare no symmetry.                                                    *)
EXTENDS DeviceAuth
=============================================================================
