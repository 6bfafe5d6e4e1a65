\* Two devices one after the other at one address; two units of work per call.
SPECIFICATION Spec
CONSTANTS
  d1 = d1
  d2 = d2
  t1 = t1
  t2 = t2
  None = None
  Devices <- PluggedDevices
  Addresses <- OneAddress
  Transfers <- TransferMemory
  MaxWork = 2
  MaxEvents = 3
INVARIANTS TypeOK TrackedTransferIsLive OpenHandlesAreKept
PROPERTIES FromAnnouncedDevice AttachmentsAreReported
