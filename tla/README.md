# USBLERST in TLA+

USBLERST is firmware for an ESP32-S3 that reads a USB HID joystick and turns its
reports into the reports of one fixed BLE gamepad, with a console on the UART to
query and configure it. This directory holds TLA+ models of its parts, the TLC
configurations that check them and TLAPS proofs about them. Paths below are
relative to `src/crates/`.

## Inventory

| Component | State | Operations | Correct when |
|---|---|---|---|
| USB event handler and drain loop (`usb2ble-fw/src/app.rs` `handle_usb_event`, `service_usb_once_persona`; `main.rs` steps 4, 5) | active device, active descriptor, joystick state; ingress queue; last report of the BLE output | one arm per `UsbEvent`, publication, loop | at most one device is the source, nothing survives a change of source, the peer gets only the current state, every event is handled and the loop always returns |
| HID descriptor parser (`usb2ble-core/src/lib.rs` `hid_descriptor`) | offset, six globals, pending usage, bit offset, fields | one step per short item | it returns, refuses what lacks an attribute, and its fields are those the items call for, disjoint and within 32 slots |
| Console control plane (`console_uart.rs`, `app.rs` `handle_command`, `main.rs` start-up and steps 1 to 3) | RX and TX buffers of 128 bytes, active profile | open, read, decode, six commands, flush | only what was sent runs, every command is answered, there is room for the answer |
| Persisted settings (`nvs_store.rs`) | two bytes in NVS, for the profile and the bonds | open, load, store, clear | what was acknowledged is durable |
| Protocol framing and messages (`usb2ble-proto`) | none | decode a frame, encode a response | a frame is a command exactly if it spells it; every response fits a frame |
| Report decoder, normalizer, BLE mapping and encoder (`usb2ble-core`, `ble_hid.rs`) | the report in progress | loops over fields and bits, one report at a time | the peer, reading by the report map, sees what the report says; a report is refused for its own fields only |
| ESP-IDF USB host ingress (`usb_host.rs`) | staging queue, final queue, device and transfer handles | client and transfer callbacks, `service_until_idle` | handles and transfers are neither lost nor used after their end; nothing of a former device reaches the app as the next one's |
| Host runtime and its tools (`app.rs` `EmbeddedRuntimeState`, the `service_once` family; `main.rs` replay, demo, contract) | the bridge, framed buffer, command slot, memory stores and recorders | push, queue, step, drain with a step limit; scripts | a call reports the work it did; the console goes first and USB is served nevertheless; a setting does not change silently; a tool does what its script says |
| In-memory doubles (`console_uart.rs`, `nvs_store.rs`, `usb_host.rs`, `ble_hid.rs`) | queue, slot, stores, recordings | push, take, record, fail on request | as part of the host runtime |
| BLE backend (`ble_hid_esp.rs`) | none | a constructor that always fails | - |

How they interact: callbacks of the USB stack stage events; the firmware's single
thread runs a loop that reads the UART into RX, serves at most one command, writes
TX out, promotes staged events to the final queue, and handles final events one by
one until none is left or one fails with anything but a BLE `NotReady`. A handled
input report is decoded under the stored descriptor, replaces the joystick state
and is published at once; a report whose publication fails is not published later. The
host builds put the same handlers behind calls that serve one thing at a time, the
console before USB, and behind a drain that repeats such a step up to a limit.

Hard behaviours: events of several devices and attachments in one queue; failures
between the change of state and its publication; bytes lost on a full RX buffer,
which join pieces of lines; writes to flash and to the UART that fail; power lost
between any two steps; capacity limits of buffers, slots and 16-bit offsets.
`PROJECT.json` lists the hazards at their lines.

## Modules

| Module | What it is |
|---|---|
| `SingleSource` | the abstract promise of the bridge: one source, its state, what the peer received |
| `UsbBridge` | event handler, publication, drain loop |
| `UsbBridgeHistory` | `UsbBridge` with the sequence of handled events, and what that history implies |
| `HidDescriptor` | the descriptor parser |
| `HidDescriptorHistory` | `HidDescriptor` with the items read, the bits before each, and the summary they call for |
| `ConsoleControl` | console buffers, commands, NVS settings, loop steps 1 to 3 |
| `ConsoleControlHistory` | `ConsoleControl` with lines sent, commands run, responses received |
| `Protocol` | `decode_command` on the words of a line, lengths of responses |
| `HostRuntime` | the runtime of the host builds: extends `UsbBridge` and `Protocol` with the framed buffer, doubles and calls |
| `HostTools` | the tools and other callers of `HostRuntime` |
| `UsbHostIngress` | client of the USB host stack: callbacks, staging, promotion, device and transfer tables |
| `HidReport` | from the payload of a report to the bytes of the BLE report |
| `MC*` | small constants for TLC |
| `*Proofs` | theorems and proofs about the module (for `UsbBridge` and `ConsoleControl` about the history module too) |

### UsbBridge

`activeDevice`, `activeDescriptor` and `lastInput` are the fields of `App` and its
`RuntimeState`; `lastWire` is `last_wire` of the recording BLE output, that is, what
the peer would have received last; `finalEvents` is the queue `poll_event` pops.
`Collect`, `StartDrain` and `Idle` are steps 4 and 5 around the handler. Each arm of
`handle_usb_event` with each outcome is one action that starts with `Poll`:
the event leaves the queue before it is looked at. `ApplyInput` is the whole of
`service_usb_once_persona` for a good report: state first, publication after it.
`Continue` and `GiveUp` are what the loop in `main.rs` does with the outcome.
`Parse`, `Decode` and `Encode` are constants, any functions of the right type, so
nothing here depends on what they compute. Of an event's length only whether it
exceeds the 64 bytes of the buffer is kept.

### HidDescriptor

One step reads one short item, chosen as the input goes, so all inputs are
covered. An item keeps type, tag, number of data bytes and unsigned value; bytes are
not put together. Widths are kept: `Word` is 2^16, usages and pages are truncated,
sizes and report ids above 255 are errors, the bit offset wraps, and logical ranges
are sign-extended from the item's width. The order of checks of an input item is the
code's. A usage is the pair of numbers it is made from. The history module adds `items`
and, per item, the bits of all input items before it (`starts`): a sum that does not
wrap, while the parser's counter does.

### ConsoleControl

Bytes are tokens: a command is two or three of them, sharing tokens where commands
share text, and losses cut lines between tokens. What a byte-wise cut could add is
pieces of tokens; `OnlySentWritesRun` does not depend on it, since the two
commands that write to flash contain characters (`D`, `|`) no other command has.
`MarksOK` assumes just that of the tokens: each writing command has one that no line of
the peer has but its own.
`PullSome(n)` is a `read` of `n` bytes and `push_rx_bytes`, which
takes all or nothing. A command, its effect and the queueing of its response are one
action, as in `service_console_buffer_once`. A failed write to NVS leaves the old or
the new value. `Flush` writes one response, the longest being under 64 bytes, and
forgets it whether or not the write succeeded, as `flush_tx_from` does. `PowerCycle`
may happen between any two actions and keeps only flash. `SET_PROFILE` and the boot
agree on the single profile that exists; a second one would make the unrestored
runtime profile after a failed write visible.

The start is in the model too: `Opening` lists the phases in which the firmware opens
the profile store, the bond store and the console and then bootstraps, and
`StartErrors` what ends it when one of them fails; `main` then sleeps for good,
and only a loss of power starts it again. `stored` and `bonds` are the raw bytes of
the two entries, absent or 0 to 255, so a byte no profile has and a flag that is neither
0 nor 1 are loads with the outcomes the code gives them. `Entries` says with which
bytes a board may begin. `Faults` says which of "open", "load", "store" (the flash),
"write" (the UART) and "power" may fail in a run; a load that fails is taken for an
absent entry, as in the code.

### Protocol and HostRuntime

A line is kept as the words between its bars, its length, and whether it is terminated
and UTF-8. `DecodeCommand` has the checks of `decode_command` in order and
`EncodedLen` counts what `encode_response` writes.

`HostRuntime` extends `UsbBridge`: its `Poll` and the arms of the handler are the
same actions, and each is put under the conditions of the `service_once` family.
The phase "drain" of the bridge is a call, "collect" the time between calls, in which
the caller pushes lines, queues events and commands, sets bonds or clears TX. `call`
is the call with the number of steps done and the last outcome; what it
found when it began is kept for the properties. A single step is a call with a limit of
one, so the four `service_once` functions differ from the drain by `mode`, and from
each other by `console` (framed buffer or one-slot source) and `output` (encoded
report for a persona, or plain report). A line is taken out of RX before it is
decoded, and a command has run when its response finds no room, as in
`service_console_buffer_once`. `Snapshot` is what the runtime shows of itself.

### HostTools

`tool` says what `main` was told to do. `replay` parses its `text` line by line into
`script`, leaving out blanks and comments (`ReadLine`, `RefuseScript`, `TakeScript`), and
only then gives command by command to the runtime, a drain of eight steps after each
(`Issue`, `CallDrain`, `Accept` or `Refuse`); `demo` does so with the four fixed commands
of `run_host_demo` (`DemoScript`); `contract` shows a new runtime; `frame`
gives one frame to `service_frame`; `api` stands for any other user of the calls,
among them the tests. A line of a text is its verb and what the verb needs, or one that does not parse
(`BAD`) or is left out (`SKIP`). `RunTool` is
the tool's own next step; the steps of a call in between are those of
`HostRuntime`. What `ScriptsOK` assumes of the constants is what the code's own values
satisfy: the demo's line and its answer fit the buffers of 128 bytes, a drain may take
more than one step (`DrainLimit` is 8), and the tools' events are `UsbEvent`s
(`ToolEvents`), whose data the parser has limited to 64 bytes.

### UsbHostIngress

`staging` and `finalEvents` are the two queues, `devices` and `inputTransfers` the two
tables by address, `work` is `work_done`. The rest of the state belongs to the stack:
which devices are on the bus and under which address (`bus`, `address`), its messages
for the client, what it makes of each device handle, and which transfer memory is in
flight. The model begins where `new_single_client` has succeeded. `pc` says where the loop of `main.rs` is: before the call of
`service_until_idle`, inside the stack's client handling, promoting, or draining.
Only inside the client handling do callbacks run, in any order and number. A staged
event is promoted by the arm of its type: an attachment opens whatever device has the
address by then and may submit its transfers, a detachment cancels and closes through
the tables, which are keyed by address only. `Event` carries the device it is really
about; the code's events do not, and no guard looks at it. `source` is history: the
devices that may be heard of at an address, which an attachment makes the device it is
about, if that is still there, and which a later one extends by the device it finds.

What is assumed of the stack, none of it in this repository: an address is given out
again only when the former device is closed and its transfers have been called back;
the end of a device is reported if it is open, else perhaps; the address of a closed
handle reads as the former address or as 0; a refused close leaves the handle open.

### HidReport

`RefuseField`, `SkipField` and `DecodeField` are the loop of `decode_report`, one field
per step with the errors in the code's order; `RefuseValue` and `ApplyField` that of
`normalize_decoded_report`; `EndNormalize` is `update_input` with the encoding that
follows it. Bytes have 8 bits and values 16 or 32 as in the code. A joystick state
keeps its buttons as a set of indices; masks, shifts and little-endian bytes come back
where the BLE report is made. Usages the normalizer ignores are one usage, `Other`.
`TooManyDecodedFields` cannot occur: a summary has no more fields than a report has
slots. The properties use none of this: a payload is read as one number, and the peer
reads the wire by the report map, whose 66 bytes stand in the module and are
interpreted item by item as a host of the peer does: page, usages, ranges, sizes and
counts decide which bits of the wire are which button or axis. What that comes to is
written out as `AxisFields`, `HatField` and `ButtonFields`; `LayoutRead`, a statement
without constants, says so and TLC evaluates it on every run. `usage_from_parts`
turns the pair of numbers of an item into the usage the normalizer looks at.

## Runs

| Run | Shows |
|---|---|
| `bridge` | `NoOrphanInput`, `ImplementsSingleSource` (refinement) and `DrainEnds` under every event of two devices, two layouts, every publication outcome |
| `bridge_history` | `StateFollowsHistory`, `PeerFollowsHistory`: the fields and the peer agree with definitions over the whole history that do not look at the handler's state; `EveryEventHandled`: giving up a drain never loses what is behind the failed event |
| `descriptor` | `CapacityNeverReached`, `FieldsDisjoint`, `Terminates` over 24 items of every kind |
| `descriptor_history` | `FieldsFollowItems`, `RefusedIffIncomplete` against a definition over the sequence of items |
| `console` | `ResponseFits`, `AcknowledgedIsDurable`, `OnlySentWritesRun` under losses of bytes, openings, loads, stores and writes that fail, and losses of power, on boards that begin with no entries, with entries of this firmware and with a byte it does not know |
| `console_window` | `EveryCommandAnswered` for a peer with at most a full RX buffer unanswered |
| `ingress` | `TrackedTransferIsLive`, `OpenHandlesAreKept`, `FromAnnouncedDevice`, `AttachmentsAreReported` with two devices one after the other at one address |
| `host` | `DrainAccounts`, `ConsoleBeforeUsb`, `EffectsReported`, `TxHoldsTwo`, `HostImplementsSingleSource` (refinement, for both kinds of output) and `UsbServed` under any caller; `ToolFollowsScript`: verdict, outcomes, state and published report of a tool are those a definition over the script's text gives; `AcceptedIffSpelled` over frames |
| `report` | `PeerSeesReport`, `RefusedIffUnacceptable` over fields of every size, sign and usage, alone and in pairs, any two reports in a row |
| `descriptor_readme`, `descriptor_reports`, `console_wedge` | disagreements, below |

Bounds, and why they are enough:

- `bridge`: queue of two, no bound on the length of a behaviour. Every pair of an
  app state and an event is reached, and the second place lets a failure leave a
  backlog. `bridge_history` bounds the history at four events: attach, descriptor,
  input and any event after or between them, which is what one field of the
  state can depend on.
- `descriptor`: up to 10 bytes, two slots, `Word` 2^16. An input of `b < 2f + 6`
  bytes for `f` slots fits (64 < 70 in the code): those of 9 bytes approach the limit
  of slots exactly as in the code, those of 10 cross it; the theorem has no bound. `descriptor_history` uses 14 bytes and 4-bit
  offsets so that both limits are crossed; buffers of 7 bytes take all
  orders of attributes, those of 14 start with a page and a range.
- `console`: four lines of five kinds, an RX of five tokens read in pieces of up to
  five: three lines are enough to cut one, lose a whole read and join the rest
  of a third; the fourth leaves room for a second loss. `console_window`: the window
  equals RX (8) and the longest lines are half of it; four lines fill it twice.
- `ingress`: one address, so that every replug reuses it; a second address would only
  separate what this one mixes. Two devices, two transfers, three events queued
  (`MaxEvents`, a bound on the callbacks and not in the code) and a limit of two per
  call (`MaxWork`, 20 in the code): the limit is met both with and without a backlog.
  Attachments that come late need two devices, chains of them three, which the theorems
  about the safety properties cover; the instance is kept small for `AttachmentsAreReported`.
- `host`: a caller does up to four things (`MaxInputs`) between or before its calls, which
  is enough to queue lines and events in both orders, meet a limit of 0, 2 or 5 and
  come back. TX holds 112 bytes and not 128: two responses of the longest kinds
  fit both, and the third overflows within the four inputs. Scripts are all those of up to three
  commands, alone and behind an attachment with descriptor and input; RX, of 128 bytes,
  holds one such line of 97 and not two. Frames have up to three words and the lengths 0, 1,
  96 and 97, the ones the code tells apart.
- `report`: payloads of up to two bytes out of {0, 5, 129, 255} and of three that begin
  with 255; fields at bits 0 and 4, single or adjacent, so that fields cross bytes, end
  at the last bit, exceed it by some bits and by whole bytes.

Fairness. `UsbBridge` and the history modules assume weak fairness of the loop only:
`main.rs` runs it forever with a sleep of 1 ms, and nothing in it blocks. No event need ever arrive.
The parser of `HidDescriptor` is a loop that nothing interrupts, so its next step is
weakly fair; that every step also moves the offset on (`MovesOn`) is the other half of `Terminates`.
`ConsoleControl` adds strong fairness of `Pull`: `PullNothing` stands for bytes still
under way, and they arrive in the end. `SF(SendCommand)` is an assumption on the
peer, not on the firmware, and is used only to state that a persistent peer is not
answered; `DrainEnds` holds for finitely long queues, which is what the queue bound
stands for: promotion happens before the drain and not during it. `UsbHostIngress`
assumes the same weak fairness of the loop, and that the stack does not fail on every
call (strong fairness of `LibReturns` and `ClientReturns`); nothing is assumed of the
bus or of the callbacks. `HostRuntime` is single-threaded: a call runs to its end, and
`UsbServed` assumes a caller that keeps calling (the weak fairness of `Runtime`, in
`HostTools` of `RunTool` and `OtherRuntime`) and, by `MaxInputs`, does not push
commands forever: with a console that always has one, USB is starved by design.

### Disagreements with the documentation

- `descriptor_readme`: the README's example script declares X and Y with one input
  item of report count 2; the parser accepts count 1 only, so the example fails.
- `descriptor_reports`: `ReportField.bit_offset` is documented as the offset within
  the report; one counter runs through all report ids.
- `console_wedge`: losses on a full RX buffer can take the terminators, and RX full
  without a terminator is left by nothing: later reads are refused whole. The peer
  in the run sends only terminated commands.

More facts met while modelling, with no run of their own: after a malformed
frame the loop clears RX and with it a command queued behind; `REBOOT` is
acknowledged and nothing restarts; and a chain of losses can assemble a command that
only reads (say `GET_PROFILE`) out of lines that were sent, so that the property is
stated for the commands that write. `service_until_idle` is said to run "until no more
immediate work is available" and stops after 20 pieces of it. `derive_report_id_and_len`
takes the first byte of every transfer as the report id and leaves it in the payload:
with report ids the fields are read 8 bits early, without them a report counts only
while its first data byte is 0; the host-side scripts give id and payload apart. Both
NVS stores take the default partition (`nvs_store.rs:45` and `:129`); where `take()`
gives it out once, the second opening fails on every start. The walk through a
configuration descriptor (`usb_host.rs:371`) advances by the lengths it reads, one
of zero included. A flash entry that cannot be read counts as absent. Attachments are
promoted by address, so that late ones can chain: the attachment of a first device,
gone by then, opens the second; the detachment of the first closes it; the attachment
of the second, gone too, opens the third; and a descriptor of the second staged behind
it reaches the app after that attachment, under the address that is the third's now.
`FromAnnouncedDevice` therefore speaks of the time from an attachment whose device is there.

## Proofs

All theorems hold for every value of the constants under the named assumptions of
the modules, and TLC evaluates those assumptions in the runs.

- `UsbBridgeProofs`: `TypeCorrect`; `NeverOrphaned`, which is inductive given the
  types; `Refinement`, every step is a step of `SingleSource` or a stutter. The
  argument for the last: only `Attach`, `Detach` and `ApplyInput` change the mapped
  variables, and the latter two need the event's device to be the active one, hence
  not `None`. `StateAlwaysFollows`, `PeerAlwaysFollows`, for histories of any length:
  what the first events of a history say does not change when another is handled (`Earlier`); what that one adds depends on its kind, device and data; and the
  handler's arm for it makes the same change to the fields.
- `HidDescriptorProofs`: `TypeCorrect`; `CapacitySuffices` and `FieldsNeverOverlap`
  for every `BufferLen`, `MaxFields` and `Word` and every input with `InputFits` (true
  of the 64 bytes of a `UsbEvent`, 32 slots and 2^16). Neither is inductive: that no slot runs out follows from what the
  bytes read so far have paid for. `CapacityInv` counts it: two bytes for every field
  plus one for every attribute at hand never exceed the offset (`SlotsPaid`), an
  input item moves the bit offset by at most 255 for its two bytes (`BitsPaid`), and
  every field ends at or below the current bit offset (`FieldsBelow`).
- `HidDescriptorHistoryProofs`: `SummaryFollowsItems` and `IncompleteIsRefused`, for
  inputs of any length, and where slots run out or the offset wraps. `HistoryInv` ties
  each variable of the parser to the items: a global is the datum of the last item of
  its tag or the value it starts with, the usage at hand is set exactly when a usage item
  came after the last input item, the bit offset is `Bits` modulo `Word`, and the fields
  are those of the data input items so far, which no later item changes.
- `ConsoleControlProofs`: `TypeCorrect`, `ResponseAlwaysFits`: TX is empty before
  each service step because `flush_tx_from` drains it even when writes fail.
  `AcknowledgedStays`: `DurableInv` relates flash to
  what has been acknowledged and to the acknowledgements not yet flushed, so that a write
  that succeeds is in flash before its answer can be seen, and no later step, a load that
  fails or a loss of power included, brings the older value back. `WritesWereSent`:
  `SentInv` counts the tokens only a writing command has (`MarksOK`) in RX and what is under
  way. Each of them, and each write already done, is owed to a line of its own, in the
  order of sending (`Owed`); reading and losing bytes only takes tokens away, a new
  line is owed to itself, and a writing command that decodes passes its token's
  debt to the write.
- `UsbHostIngressProofs`: `TypeCorrect`; `HandlesKept`, with the addition that no two
  devices hold an address at once (`OneHolder`) and that a device with a handle was
  given an address (`Given`): an open device holds its address until it is closed, so a
  stale attachment can only open a device whose address has no entry. `TrackedTransfers`
  strengthens the property to `Tracked`: a kept transfer is in flight for input of the
  device whose handle is kept at that address, or its end is staged. `HeardOnlyAnnounced`
  needs to know that what is in flight or waits in `staging` belongs to a device that may
  be heard of (`FlightHeard`, `StagedHeard`), and that no attachment waiting before it
  will forbid it: that attachment is about the same device or about one that is gone
  (`AttachedHarmless`), since a device with a transfer in flight still holds its address.
- `HostRuntimeProofs`: `HostTypeCorrect`; `DrainAlwaysAccounts` and `ConsoleAlwaysFirst`
  from `CallInv` and `AccountInv`, which say in mid-call what the property says at its
  end: the work found when the call began is what is left plus the steps done;
  `EffectsAlwaysReported` from `EffectInv`; `TxAlwaysHoldsTwo` from `TxInv`, each
  response at most 55 bytes, for any `TxCap` of at least 110; `HostRefinement`, by the
  refinement of the bridge for every event and a stutter for the rest. They are stated
  for `HostSteps`, that is `HostSpec` without its fairness.
- `HidReportProofs`: `TypeCorrect`, `RefusedForCause` and `PeerSeesEachReport`, for all
  descriptors, payloads and sequences of reports. The first half is about numbers: the bits
  that `extract_bits` takes one by one make up the slice of three bytes that the
  properties speak of, whatever the offset (`ExtractIs`), sign extension is two's
  complement, and the ten bytes of the encoder give back axes, hat and buttons at the
  places of the report map. The second half is `ReportInv`: `decoded` lists, in order, the
  values of the report's own fields up to the one at hand (`DecodesTo`), none of those
  already applied is at fault (`Sound`), and the joystick state is what the last value of
  each usage makes it (`Collects`); a refused report has a field that is at fault.
- `HostToolsProofs`: `DecodeExact`, for every frame of any number of words;
  `AcceptedExactly`. `ToolAlwaysFollows`, for texts of any length: while a tool is
  between two commands (`Followed`), device, descriptor, state and published report are
  what the commands done so far say, none of them was at fault, and the queues are empty
  (`Quiet`). What a script says of one more command is worked out verb by verb
  (`AttachSays` and its siblings, on the largest index of a kind, `AttachNext`,
  `DescriptorNext`, `PublishedNext`), and the drain of that command does the same to the
  runtime (`AttachTaken` and its siblings) in exactly one step (`Performed`) or fails
  where the script has a fault (`Failing`). Only because the queues are empty when a
  command is given does its drain serve that command and no other, end within its limit
  and bring an outcome the tool expects. `ToolsAreCallers`: tools and other callers do
  only what `HostNext` allows, which needs `Followed` too, for the device of a
  `DESCRIPTOR` is the active one; `ToolsKeepPromises` and `ToolsHoldTwo` carry the theorems of
  `HostRuntimeProofs` over to `ToolsSpec`, the specification the `host` run checks.

Only model-checked: liveness (`DrainEnds`, `EveryEventHandled`, `Terminates`,
`EveryCommandAnswered`, `AttachmentsAreReported`, `UsbServed`), which is out of the
prover's reach. Of `DrainEnds` and `Terminates` the safety half is proved
(`DrainAlwaysShrinks`, `AlwaysMovesOn`): every step of a drain uses up an event and every
step of the parser a byte, for queues and inputs of any length, so that fairness is all
that is left to TLC. That the report map reads as `LayoutRead` says is computed by TLC: it
has no constants, so there is one instance.

## Not modelled, and the plan

Of the 13154 lines, some 5300 are not tests. What is left:

- The composition of ingress, bridge and console in the firmware's loop. The three share
  one thread and no variable but the queue of final events, whose producer and
  consumer are checked each against anything the other may do: the bridge takes any events at
  any time, the ingress has its queue drained at any time. `HostRuntime` has bridge and console together.
- `UsbHostIngress` begins after `new_single_client`; if that fails the loop serves the
  console only. The walk through the configuration descriptor is a choice among its outcomes.
- The test doubles' counters of calls, `set_event`, and the functions by which a test
  forgets what was recorded; the host stubs of NVS, console and USB, which refuse
  everything.
- The boot banner, persona accessors, log lines, what the tools print and the text of
  responses.
- The ESP-IDF BLE backend (`ble_hid_esp.rs`), a stub that always fails to start.

Worth doing next: a refinement of the parser and the decoder together by a definition on
the bits of a report.
