-------------------------- MODULE MCDeviceLifecycle --------------------------
(* TLC instances of DeviceLifecycle. *)
EXTENDS DeviceLifecycle

CONSTANTS wifi, usb

MCAddresses == <<wifi, usb>>
MCOneAddress == <<wifi>>
=============================================================================
