-------------------------- MODULE MCUsbHostIngress --------------------------
(***************************************************************************)
(* UsbHostIngress on one port, so that every replug reuses the address.    *)
(***************************************************************************)
EXTENDS UsbHostIngress

CONSTANTS d1, d2, t1, t2

PluggedDevices == {d1, d2}
TransferMemory == {t1, t2}
OneAddress == {1}
=============================================================================
