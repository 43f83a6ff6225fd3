------------------------------- MODULE Files_MC -------------------------------
(* The null device, a device with all callbacks, a file system without an    *)
(* open callback; a name nobody has.  Two descriptors beside stdin, stdout   *)
(* and stderr; stdout and stderr go to the device.                           *)
EXTENDS Files_Spec, TLC

CONSTANTS uart, hostfs

MCDevice == {alt_dev_null, uart}
MCFileSystem == {hostfs}
MCUsed == {1, 3, 4}
MCAccess == {"r", "w"}
MCName == {"/dev/null", "/dev/uart", "/mnt/file", "/none"}
MCNamed == (alt_dev_null :> {"/dev/null"}) @@ (uart :> {"/dev/uart"})
           @@ (hostfs :> {"/mnt/file"})
MCProvides == (alt_dev_null :> {"write"}) @@ (uart :> Callbacks)
              @@ (hostfs :> {"read", "close"})
MCStdioName == <<"/dev/uart", "/dev/uart">> @@ (0 :> "/dev/null")
=============================================================================
