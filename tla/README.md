# A formal model of the Industrial Measurement Controller firmware

The firmware (Rust on ESP-IDF, ESP32-S3) drives digital and analog I/O, serves
Modbus TCP and RTU, BLE AT commands and a Web page, and keeps its configuration
and registers in flash. This directory holds TLA+ models of its core, the TLC
runs that check them on small instances, and TLAPS proofs of what matters most
for every value of the constants. `PROJECT.json` lists the runs, the source
lines behind every definition, the hazards and the theorems. Paths below are
relative to `src/src/`.

## 1. Inventory

| Component | State | Operations | Interacts with | What is hard | What makes it correct |
|---|---|---|---|---|---|
| Snapshot cell, `bus/rcu.rs` | pointer, epoch, two reader counters, writer mutex | read, write | every module, through CONFIG and STORAGE | reads without a lock while the old snapshot is freed | no use after free, no leak, atomic reads, writers end |
| Atomic bitmap, `sync.rs` | four 16-bit words, sequence number | load, try_load, store, set_bit, mask_replace | DI, DO, pulse mask | torn reads, overlapping writers, parked writers | reads and writes are atomic |
| Ring and spin lock, `sync.rs` | bounded queue | try_enqueue, dequeue | actor mailbox, control commands, BLE frames | drops when full or contended | whoever sends knows whether it was accepted |
| Deferred persistence, `device/pending_save.rs`, `device/mod.rs`, `web/mod.rs` | dirty flag, lock, generation | change, mark, save, retry | BLE, Web, Modbus, actor, main loop | change during a save, failure, several savers | nothing acknowledged is forgotten; success means saved |
| Device actor, `device/mod.rs`, `actor/mod.rs` | mailbox, wait slot, ticket words | FlushPending, PersistConfigAndReset, Commit, Reload, idle round | all clients | timeouts and late answers, lost messages | a confirmation is about the caller's own request |
| Planned restart, `main.rs`, `bus/io_state.rs` | reset request | request, take, barrier, cancel, restart | everybody who asks | requests while images change and saves fail | nothing acknowledged before is lost |
| Holding store, `device/holding_store.rs` | two flash slots, active slot, generation, flags | save, load | Modbus, BLE, NFC, actor, main loop | power cuts in the middle of erase and write, bad flash, wrapping | a durable cell |
| Output persistence, `device/mod.rs`, `bus/io_global.rs` | bitmap in NVS, last saved bitmap | throttled save, barrier, load | control logic, Modbus | stale belief of what is saved, pulses | a restart brings the outputs back |
| Protocol image, `device/mod.rs` | A/B blobs, active key, snapshot, flag | commit, reload, write | Modbus, AT, actor | a write during a commit, two committers | what is not flagged is in flash |
| Register map, `bus/backends.rs`, `modbus/shared.rs` | CONFIG, STORAGE, flags, permission for the logic table | single and batch writes and reads, changes by closure | all protocols, NFC, actor | handlers of three tasks take several steps; names and permissions are shared | what must last is flagged; one permission, one commit; the name and its copy agree; an answer is of one moment |
| Event bus, `bus/event_bus.rs` | coalesced bits, one critical slot | send, recv | drivers to main loop | different events share a slot | a state change is not lost |
| Control logic, `control_logic.rs` | table, command queue, schedule, pulse mask | command, tick | outputs | delays, pulses, refresh | a pulse ends; the table is the newest |
| I/O worker, `hal/io_worker_state.rs`, `hal/pca9555.rs`, `io/` | output queue, samples, health | submit, confirm, recover, sample | main loop | faults and recovery, stale samples | the newest output is written |
| Modbus TCP, `modbus/tcp_server.rs` | listeners, connections, cursor and last served of each port | repair, follow ports, accept, serve, close | register map, configuration | churn with swap_remove, deadlines, partial frames, ports that cannot be bound | every request gets its turn; listeners match ports; slow senders are timed |
| Modbus RTU, `modbus/rtu_*.rs` | port settings, a copy of the poll table per port, shared results | reopen, refresh, poll, serve | serial ports, register map | tables of different age over shared results | a result is true |
| BLE link, `ble_at/mod.rs`, `advertising_health.rs` | GAP health, frame slots, request queue, answer ring, connection epoch | GATT and GAP events, tick of the main loop | all handlers | completions lost or late, reconnection between any two steps | found again; no slot lost; nothing crosses a connection |
| Handlers, `ble_at/`, `web/mod.rs` | none of their own | AT commands, binary frames, pages | register map, persistence, reset, update | they call in several steps | see register map and persistence |
| OTA, `ota/mod.rs`, `main.rs` | session, handle, boot data | begin, write, end, abort, confirm | AT, Web, bootloader | one session for two clients, power cuts, bad firmware | status is true; always a way back |
| Supervisor and network, `main.rs`, `protocol/mod.rs`, `health.rs`, `ethernet/w5500.rs` | started flags, driver, configuration, link, mode | start, repeat, apply, heartbeat | all tasks | starts that fail half way, events and requests that meet | services and network settle |
| NFC, `nfc/mod.rs` | tag, its CRC, command slot, flag | backup, restore, examine | holding registers, Web | a tag that goes away half way, writes meanwhile | the tag follows or is flagged |
| Digital inputs, UDP, Wi-Fi, ADC, LEDC, GPIO, I2C, RS485 driver, diagnostics | driver handles, counters | | | hardware | not modelled: device access and conversions |

How they work together: protocol tasks change images in snapshot cells and mark
them dirty; the device actor, and any task that needs certainty, saves dirty
images; clients that must know ask the actor with a ticket and wait; the main
loop serves Modbus TCP, AT commands and BLE frames, events and reset requests
behind a barrier that saves everything; a boot loads all images. Tasks share
memory only; callbacks come from the BLE and Ethernet drivers.

## 2. Modules

| Module | Models | State and actions |
|---|---|---|
| `SnapshotCell` | what `Rcu` promises | one current snapshot, published and acquired atomically, reclaimed when nobody has it |
| `Rcu` | `bus/rcu.rs` | one action per atomic operation of `read` and `write`; memory as reference counts |
| `BitRegister` | what `AtomicBits64` promises | one value, written and read atomically |
| `SeqBits` | `sync.rs:147-273` | one action per load, store and compare-exchange |
| `PendingSave` | `device/pending_save.rs`, `device/mod.rs:836-1241`, `web/mod.rs:191-248` | an image is a version; flag, lock, snapshot, flash write, change check, failure, power cut |
| `DeviceActor` | `device/mod.rs:98-330`, `actor/mod.rs`, `main.rs:460-493` | mailbox, tickets, barrier, idle round, clients, reset; the save of one image is a step, as `PendingSave` justifies |
| `DurableCell` | what the holding store promises | a durable value behind a cache, saved and restarted in one step |
| `HoldingStore` | `device/holding_store.rs` | two slots with generation and version; every flash operation a step that may fail or be cut |
| `HoldingFailedLoad` | `device/mod.rs:489-572` with `HoldingStore` | adds boots that do not load the slots |
| `OutputStore` | `device/mod.rs:873-884, 1250-1326` | bitmaps as sets; read, compare, write, remember, by two tasks |
| `OutputPath` | `io/do_.rs`, `hal/io_worker_state.rs`, output half of `hal/pca9555.rs:414-488` | writers and notify; flag, load, submit; queue; the worker's write, readback, confirmation and recovery; refused transactions and resets of expanders |
| `ControlLogic` | `control_logic.rs:433-453, 535-570, 628-698` | versions and generations of the table, its refresh step by step by any task; ring of commands; schedule, walk, time |
| `RtuPorts` | `modbus/rtu_runtime.rs`, `rtu_master.rs`, the frame handling of `rtu_slave.rs` | per port: settings, the refresh in four steps, the round with its cursor and budget, one transaction with retries; results as the entry they were read for |
| `TcpServer` | `modbus/tcp_server.rs` | one action per stage of a tick: repair, follow, accept, flush, serve, close; a request is two fragments, a clock ages what was received |
| `Registers` | `bus/backends.rs`, `bus/storage_state.rs`, persistence rules of `device/system_config.rs` | one register per area; a handler is the list of calls it has left; write = lock, check, publish, marks; saves, restarts |
| `RegisterReads` | the read side of `bus/backends.rs` | snapshots taken once or per word; what each reader has seen, and history of the registers since it began |
| `ProtoImage` | `device/mod.rs:893-1000, 1328-1420` | blobs, active key, two committers stage by stage, mailbox |
| `NfcTag` | `nfc/mod.rs` | the task's rounds: copy, write in chunks, restore, examine |
| `RegisterClients` | `ble_at/mod.rs`, `ble_at/*_handlers.rs`, `web/mod.rs`, `modbus/shared.rs`, `channel/calib.rs` | every handler that reads or changes registers as its sequence of calls; three tasks; composes the four modules above |
| `BleAdvertising` | `ble_at/advertising_health.rs`, GAP half of `ble_at/mod.rs` | one pending operation, completions that fail, get lost or come late, rename, lease |
| `BleLink` | GATT half of `ble_at/mod.rs` | slots, queue and ring, filled by the stack's task, emptied by the main loop step by step; extends `BleAdvertising` |
| `Network` | `ethernet/w5500.rs`, `bus/event_bus.rs`, `error/recovery.rs` | driver start by parts, requests and their application, event slot, modes |
| `Firmware` | `ota/mod.rs`, `ble_at/ota_handlers.rs`, upload in `web/mod.rs`, confirmation in `main.rs` | session, partitions; of the platform the boot data (`newest`, the slot selected last, and the state in `entries` of each) and the bootloader's choice |
| `Services` | `main.rs`, `protocol/mod.rs`, `health.rs` | boots, starts, rounds of the main loop; composes `Network` and `Firmware` |
| `HoldingStoreProofs`, `ControlLogicProofs`, `RegisterClientsProofs`, `BleLinkProofs` | | theorems about the module of that name and those it extends |
| `CellProofs` | | theorems about `Rcu` and `SeqBits` |
| `DeviceProofs` | | theorems about `OutputPath` and `DeviceActor` |
| `ModbusProofs` | | theorems about `RtuPorts` and `TcpServer` |
| `RebootProofs` | | theorems about `PendingSave` and about `Services` with `Firmware` and `Network` |
| `MC...` | | the TLC instances |

Common abstractions: an image or a register array is a version number (what
matters is which change it contains), or one register per area with its own
rules; a snapshot is an address, a bitmap is a set. Time is left out, except
where an edge, a partial frame or a half second has its time left: a delay or a
timeout may end at any moment. All atomics in these files are SeqCst or are
acquire/release on one word, so behaviours are interleavings. What happens under
one mutex without a call outside is one step.

`DeviceActor`, `Services`, `TcpServer` and `SeqBits` put a name of their own in front
of what `OutputPath`, `PendingSave`, `RtuPorts` and `Rcu` name too (`ActorSpec`,
`ServicesSpec`, `TcpSpec`, `BitsSpec`), so that one module can hold the proofs about
both; the tasks of `SeqBits` are `Tasks` and their next step is `at`.

The modules of a composition take what others prove: `DeviceActor` and
`Registers` save an image in one step (`PendingSave`, `HoldingStore`),
`Registers` and `RegisterReads` publish and take snapshots in one step (`Rcu`);
that CONFIG and STORAGE are published one after the other under the lock is not
seen, so `ReadsOneMoment` speaks of each store by itself.

## 3. Runs

| Run | Instance | Shows |
|---|---|---|
| `rcu` | 3 threads, 3 addresses, epochs modulo 2 | no use after free, exact reference counts, the cell is atomic, a draining writer ends |
| `seqbits` | 3 threads, 3 bits in 2 words, 2 writes | a write ends, the bitmap is an atomic register |
| `pending_save` | actor and another task, three images, 3 changes, 2 refused saves, 1 power cut | nothing acknowledged is forgotten, success means saved, flash never goes back, the flash catches up |
| `device_actor` | 2 clients, 2 images, mailbox of 1, tickets modulo 3 | a confirmation is true, a planned restart loses nothing |
| `holding_store` | 2 savers, 4 changes, 2 failures, 2 cuts, generations modulo 3 | one complete slot always, success means saved, the two slots are one durable cell |
| `output_path` | 2 writers, 2 expanders of one output, queue of 2, 2 writes, 2 faults | a notified change is not overlooked, no expired edge is replayed, a readback that is reported is the newest target, the registers follow the outputs |
| `control_logic` | 2 clients, 2 logics sharing an output, 2 versions of the table, ring and schedule of 2, 2 control words | the table that counts as current is, a client meets its own changes, pulses end in time, the schedule empties |
| `modbus_rtu` | 2 ports, 2 result registers, 3 tables of which one is refused, 2 changes, 1 fault | with every master on the newest table, a result is of the device that table names and gone when that device fails |
| `modbus_tcp` | 2 ports, 2 connections at a time, 3 in all, 2 sets of ports that share one | a waiting request is passed over only so often, listeners are those of the ports in order or repair is scheduled, a part of a request is timed |
| `registers` | 3 tasks, all handlers, 2 handlers begun, 2 permissions, 2 NFC rounds, 2 image writes | what must last is flagged, one permission commits one write, the name and its copy agree, an image without flag is in flash, an answer is of one moment |
| `ble_link` | 2 connections, 2 slots, queue and ring of 2, 5 writes; or 1 rename and 2 faults | no slot is lost, what is handled is one client's own frame, old answers are flagged, the device is found again under its name |
| `services` | two of 1 address change, 1 pulled cable, 1 fault; or 2 update sessions of 2 chunks with 1 refusal or 1 restart | everything that can run runs, the network is as last asked, working firmware is confirmed; update status is true; bad firmware runs for one boot |

Bounds. Three threads give a writer, a reader of the old epoch and one of the
new, or a reader and two writers. Two clients are enough for one that gave up
and one that waits; a mailbox of one is full with one message; three tickets
are a stale, a served and a new one. Two savers are one inside and one that
waits. Three generations are the fewest that can be told apart, and wrap within
the run. Two expanders make a write that stops half way; a queue of two holds an
edge to drop and the newest, and is full with the second. A schedule of two is
full with one pulse, or has room for one edge only; one command is taken in a
tick, so that one is left over. The bound `NoLap` of `DeviceActor` says that fewer
than 2^32 tickets are taken while one is outstanding. Two ports of `RtuPorts` are
one ahead and one behind, and two changes bring a table back to what one of them
still has. Three connections of `TcpServer` are one that waits, one that goes and
one that comes; `MaxUpsets` bounds the disturbances counted while the watched
request waits. Two handlers of `RegisterClients` are one in the middle and one
that comes between; its constraint `OneConcern` explores the tag with one
handler and the protocol image with none, because they share only flags and
holding registers, or only the restart, with the rest. Two connections of
`BleLink` are one whose frames and answers are left behind and the one that
follows; five writes are frames in both slots and one that finds no slot free. Where
one task holds a lock the other tries for, the write, answer or clearing it loses is a
choice of the step; one slot is cleared in one step. Disturbances of
advertising and writes of clients are explored in two halves, because
advertising and frames share only the connection. `Services` explores network and updates in
two halves too: they share the round of the main loop and the restart; in each,
what disturbs comes in pairs. Deadlock is
checked in every run. The `TypeOK` of each module is left out of the listed runs:
it says nothing of the code, and is proved for eight modules (section 4).

Fairness. `Rcu` and `SeqBits`: a call that has begun goes on (the scheduler of
the RTOS runs every ready task, and waiting loops sleep for a tick or yield).
`PendingSave`: the same, and the actor's loop looks at the flag again and
again. Mutexes are not assumed fair. Saves may fail only finitely often in
`CatchesUp`. `OutputPath`: the main loop, the worker and a writer between its
change and its notification go on; writes and faults are finitely many, back-off
times end. `ControlLogic`: main loop and callers go on and time passes; time is
strongly fair because the model stops it in the walk of the schedule, which is
finite. `BleLink`: the main loop runs, the stack delivers the completions it has
and ends a callback it began, and five seconds and a minute pass; clients need
not come, stay or write, and faults are finitely many. `Services`: the main loop
and the launches of a boot go on, the event loop delivers links and leases, a
cable is put back, half seconds and half minutes pass, stalled tasks recover and
clients make the request they were about to make; edits, faults and restarts are
finitely many. The other modules state safety only.

## 4. What is proved

* `CellProofs`, snapshots (any threads, addresses and even epoch modulus):
  `TypeCorrect`, `Safe`, `Exact`, `Refines`. The inductive invariant counts, for each of the two
  counters, the readers registered in it, and says that a reader that validated
  its epoch and has not left keeps every writer that took its snapshot out of
  the cell in the drain loop. Counting is done with finite sets of threads, so
  `Threads` is assumed finite.
* `CellProofs`, bits (any tasks, bits, words and writes): `BitsInvariant`,
  `BitsRefine`. The number is odd exactly while one task writes, so a reader whose
  even number still stands has seen no writer and what it gathered is the whole
  register. The register of `BitRegister` has a write's value from the moment the
  writer is admitted: the words that are not stored yet nobody can return.
* `RebootProofs`, images (any tasks, bounds and images): `TypeCorrect`,
  `NeverForgotten`, `Honest`, `NeverBack`. The invariant says that every version
  made and not in flash is unacknowledged, or the flag is up, or the task inside
  the save will write it or raise the flag again.
* `RebootProofs`, firmware (any size, sessions, refusals, restarts and power cuts):
  `ClientsAreToldTheTruth`, `BadFirmwareRunsOnce`. `OtaIsTrue` and `AlwaysAWayBack`
  speak of what the bootloader would choose now, and neither is inductive: whether
  it holds after a boot depends on what the slot that does not run was left in. The
  invariant keeps four facts about it. What is on trial cannot begin an update, so
  the slot it came from is untouched (`Downloads`). A slot marked new is the one
  selected last and not the one that runs. A slot marked valid that does not run still
  works for as long as the running firmware could need it, and is never chosen before
  the running one (`Retained`). And a bad image never brings up all services, so it
  is never confirmed (`Marked`).
* `HoldingStoreProofs` (any savers, bounds and generation modulus above 2):
  `TypeCorrect`, `KeepsASlot`, `NeverForgotten`, `Honest`, `Refines`. The
  invariant says what the slot that is not active may hold: nothing, the
  generation before, or a complete image that was not published, which is one
  generation ahead and at least as new.
* `DeviceProofs`, outputs (any writers, expanders, queue size and bounds):
  `TypeCorrect`, `NeverMissed`, `NeverReplayed`, `ReportedIsNewest`. The
  invariant says that the worker's command stays the front of the queue until it
  is confirmed, that a recovery writes the newest target unless something was
  queued meanwhile, and that nothing queued is older than the last fault once the
  worker has looked at the queue.
* `DeviceProofs`, saves (any clients, images, orders, mailbox and batch, and any number
  of tickets that the mailbox cannot use up): `ActorTypes`, `ConfirmationsAreTrue`,
  `RestartsLoseNothing`, `FlagsMeanSaved`. Tickets of clients that gave up stay in the
  mailbox and are answered later, so the answer words alone say nothing. The invariant
  follows the ticket of the client that waits: before it is sent the actor has not
  seen it; in the mailbox it is the last ticket (`LastInMail`); once it is served or
  completed no other follows it (`Served`), and what its client is owed is in the list
  the actor still saves; when it is completed the outcome is its own and nothing
  overwrites it (`Completed`). This needs that a ticket is unlike all that are
  outstanding, which `NoLap` and `ActorBounds` give.
* `ControlLogicProofs` (any clients, tables, outputs and bounds):
  `TableIsCurrent`, `OwnConfigIsUsed`, `PulsesEndInTime`. `CONFIG_GENERATION` is behind the stored
  version by the number of changes not yet marked, which is counted, so `Clients`
  is assumed finite; and for each client there is a generation such that whatever
  carries it or a later one (the stamp, a parse under way) holds the client's
  last change. Without the lock, two parsers could publish in the wrong order. For the pulses, the
  invariant says of the schedule, and not of the outputs, that every brief edge in
  it has the end of its pulse in it, no earlier than itself; what `retain` and
  `swap_remove` leave of a schedule is proved once, for any sequence (`Ranked`,
  `Removed`), by counting the places that are kept.
* `ModbusProofs`, serial ports (any ports, wires, tables, settings, retries and bounds):
  `TypeCorrect`, `ResultsTrue`. The invariant says that a port's copy of the table is
  never newer than the mark and is the stored table when it is as new and no change
  waits for its mark; that the ranges that answer belong to the table of one
  task; that every value shown is an entry of the table of the port that read it; and
  that a device that failed leaves nothing of the master's own readings to show.
* `ModbusProofs`, TCP (any listeners, port sets, places, connections, limits and
  bounds): `TcpTypes`, `NobodyIsForgotten`, `ListenersAreRepaired`, `PartsAreTimed`.
  `WaitsItsTurn` is about every way in which slots, places and last served clients
  turn. The invariant gives the watched connection a number, `Ahead`: the places
  between it and the one its slot served last, times the slots, plus the slots between
  its own and the cursor. It is less than slots times places; `fair_client_schedule`
  orders by the same two distances (`FairIs`), so whoever is served before the watched
  connection goes behind it and the number shrinks (`Nearer`); a new connection, at the
  end of the list, leaves it alone. A closed connection, a deadline and a change of
  the ports may set it back to anything and are given a whole rotation. What a tick did
  not reach was left by such a disturbance: until one request is answered the watched
  connection is still in what is left of the order, or a rotation is in hand.
* `RegisterClientsProofs` (any requests, reads and bounds; the three tasks of the
  program): `OnePermissionOneCommit`, `CleanIsCommitted`, `WrittenIsKept`,
  `CopyOfTheName`, `AnswersAreOfOneMoment`. The permissions used plus the one outstanding are at most those
  raised. There is one committer unless two overlapped, and while the image is not
  flagged it has taken the image itself. What must last follows from how handlers are
  made (after a change only flags are left until all of them are up; after a save
  nothing is flagged; a handler that renames also copies the name) and from
  three invariants: what is not flagged is in flash; a tag that was written as a
  whole carries the CRC that is known and differs from the registers only where
  they are flagged or about to be written; the copy of the name differs only
  while a handler has to copy it, after a factory reset or under a restored tag.
  What a reader holds of a store is, per store, of one of the moments since it
  began, because a handler that answers takes one snapshot and no other after it.
* `BleLinkProofs` (any slots, queue, ring and connections): `NoSlotLost`,
  `FramesAreWhole`, `AnswersFollowClients`. A slot belongs to the stack, is queued
  or is handled. A request of an earlier client may still be queued for a slot that
  is used again; whoever took it made room, and the invariant `Filling` says that a slot that
  is handled before its own request is queued finds a place in the queue.
* `BleLinkProofs`, the name (any connections, renames and faults): `NameOnAirIsGiven`.
  Whatever operation failed, completion came late or not at all, or however the
  controller stopped, if no more than one of these happened the device is never on the
  air under another name than the last one unless a mark says that it is still to be
  given. That is the safety half of `Discoverable`. The invariant says of a run without
  a fault that what is pending is the last completion on its way, and that the older ones
  are of starts (`InFlight`), so no late one is taken for the pending one; and that the one
  fault that can leave old data without a mark finds the device off the air, with
  nothing on its way that would start it (`OffTheAir`). Two faults can, and
  `Discoverable` leaves them out as well.
* `RebootProofs`, network (any addresses, thresholds, requests, pulled cables and
  faults): `NetworkInvariant`, `FailedStartsAreUndone`, `StartsFindNothing`,
  `StaticAddressesStay`, `NoRequestIsLost`, `NoLeaseIsLost`, `ModeIsOfFailures`,
  `RestIsSettled`. They are about `ServicesSpec`, with boots, starts and rounds in any
  order. The step a start is at determines what it has allocated (`StartIsWhole`), so
  the one that is refused leaves what it undoes and no more. The handlers are registered
  before the driver runs, so every lease meets them (`Told`); of the two addresses that
  can wait, the one in the slot is never older than the one written (`OlderFirst`), which
  is why a slot for one event is enough. `RestIsSettled` says that where nothing is
  open or in the slot the network is as `ServicesSettle` wants it: what remains for TLC
  is that the services come to rest.

Only model-checked: liveness (`WriterFinishes`, `WritesEnd`, `CatchesUp`,
`OutputsFollow`, `Settles`, `Discoverable`, `ServicesSettle`), which the prover does
not reach. Of the last two the safety half is proved: where the device is on the air,
and where the services rest, all is as promised; that they get there is for TLC.

## 5. Divergences

What the code does against what it says of itself, or against what a client would
expect. The first eight have a counterexample; the runs of section 3 all pass,
so to see one, run `tlc` as named, or on a copy of the run's configuration
changed as named.

* An output that is switched off after a boot before anything was saved comes
  back on after a planned restart: the last saved bitmap starts as 0 and is not
  set by the load (`bus/io_global.rs:13-15`, `device/mod.rs:601-606, 877, 1310`),
  against `main.rs:475`. `tlc -config OutputStore.cfg OutputStore` breaks
  `RestartKeepsOutputs`.
* A boot that did not load the holding slots goes on and saves into slot 0,
  whatever it holds (`device/holding_store.rs:199-203`), against
  `device/holding_store.rs:5-6`. `tlc -config HoldingFailedLoad.cfg
  HoldingFailedLoad` breaks `AlwaysACompleteSlot`.
* The recovery of an expander that lost power rewrites its output registers and
  not its direction, and reports it as verified (`hal/pca9555.rs:463-480`; the
  direction is set in `init` only, 618-621). `MCOutputPath` under `Spec` with one
  writer, one write and one fault and `INVARIANT ReadbackIsDriven`.
* `swap_remove` in the walk of the schedule may apply the end of a pulse before
  its beginning when both are due (`control_logic.rs:688-697`). `control_logic`
  therefore claims `PulseEndsInTime` only while no walk found both edges due; it
  also sets aside a new table that takes outputs from a logic in the middle of a
  pulse (`control_logic.rs:663`), where the end of the pulse is dropped too.
  `MCControlLogic` under `Spec` with one client, `Tables <- MCOneTable`,
  `PerPass = 2`, `MaxScheduled = 3`, `MaxCommands = 3` and `INVARIANT PulseHasItsEnd`.
* The log says that the rest of a round is deferred (`modbus/rtu_runtime.rs:283-287`),
  but the entry at which the deadline is noticed was already counted as visited
  (276-277) and the cursor moves past it; with the deadline spent at the same
  entry in every round, it is never polled. `MCRtuPorts` with `Ports = {p1}`,
  `Configs <- MCOneTable`, no changes or faults and `PROPERTY DeferredIsPolled`.
* The handheld's logic frame raises the permission and writes in two calls, so
  that it persists as a PC does (`ble_at/logic_handlers.rs:227-230`). The permission
  is one flag for all clients (`bus/backends.rs:49-54`): a Modbus write by an RS485
  port between the two calls uses it up, the frame's words are written without it, raise no
  flag, the save has nothing to do, and the handheld is told success though the
  table is not in flash. `MCRegisters` with `INVARIANT AckMeansSaved`.
* The connection epoch is there so that a connection number that is used again
  does not get the queued answers of the old connection (`ble_at/mod.rs:104`), but
  it is compared for requests (1646-1648) and when a fragment that was sent is taken
  off the ring (1342-1345), not before it is sent: the ring is cleared once a tick, so a client that connects and enables notifications between that and the
  sending (`ble_at/mod.rs:1304-1357`) is sent what was queued for the one before.
  `OldAnswersAreMarked` claims what is left, that the flag for clearing the ring
  is up then. `MCBleLink` with `INVARIANT SentToItsOwn`.
* An abort after END forgets the session and leaves the new partition selected,
  though abort does not change what boots (`ota/mod.rs:318-320`: the next boot
  still takes the old firmware). `MCServices` with `INVARIANT AbortKeepsFirmware`.

Met while modelling, without a sentence of the repository against it (the
properties leave these out where they name them, or do not speak of them):

* Registers: the binary frame 0xB3 writes permitted logic and leaves the save to the actor; `AT+CFGWRITE` does not validate TCP ports (`ble_at/cfg_handlers.rs:360`),
  so a bad pair is stored and every later save of the configuration is refused
  until it is put right; `AT+CFGRESET` shows the new name only after a boot; the
  words that were written without permission become durable with the next save
  of the holding registers; sensor ranges written by Modbus raise no flag; the batch write
  at `bus/backends.rs:1277-1292` can fail half way; the first of two commits
  resets the status word of the second; the network command 0xCD reads the mask
  from bytes 8-11 and the gateway from bytes 4-7, where its comment lists mask before
  gateway (`ble_at/mod.rs:2215-2246`); area reads by FC04 and by several binary
  commands read word by word, so an answer may mix moments.
* Protocol image: `AT+RELOAD` that reads a blob while the actor's commit runs
  publishes it as clean after the commit has ended, and the newer image is gone.
  `CleanMeansCommitted` sets aside a reload that overlapped a commit; without
  that condition TLC finds it in seven steps.
* NFC: the CRC of the last backup is kept when a later backup stops half way
  (`nfc/mod.rs:874-902`), so a torn tag may be taken for backed up; the flag is
  lost in a restart; a restore clears the flag after it has given up the lock, so that a
  change made in between is not noticed; a restore neither mirrors the name nor
  contains the system configuration; backup and restore requests share one slot.
* BLE: a second fault while a renaming is repaired costs the name until the next
  renaming (`ble_at/mod.rs:588-594`); a late completion of an operation that
  timed out completes the operation that follows (`advertising_health.rs:72-75`).
* Updates: a Web upload that cannot begin aborts the BLE client's session
  (`web/mod.rs`, around 2012); an upload whose last answer cannot be sent does not
  restart (`web/mod.rs:2071`); a second END drops the session and then REBOOT is
  refused, with the partition still selected; the 30 seconds of confirmation count
  from the start of the loop.
* Boot and network: a failing start of `ble_at`, `io` or `channel` ends the boot
  with `?`; a failed apply of the network configuration is not repeated; a lease
  that arrives while DHCP is off for a moment is not shown later; address
  registers written under DHCP show what the interface does not have; a boot
  without a cable shows the link as up until the first event.
* Not used by anything: `rtu_master::start`, `rtu_slave::start`,
  `rtu_port2::start`, `device_config/`.

## 6. Not modelled

* Digital inputs, ADC, LEDC, GPIO, I2C and RS485 drivers, Wi-Fi, UDP discovery and diagnostics:
  access to devices and counters; their state is one value written by one task.
* Layouts of registers, frames, blobs, NDEF and JSON, text of AT commands and pages, CRCs,
  conversions of the analog channels: functions of their input, to be tested. Where a layout
  decides about control (which register arms, resets, is mirrored or flagged), it is one
  register of its own in `Registers`.
* CONFIG and STORAGE as two publications: a reader of both may see one old and one new.
* Timing: delays and deadlines end at any moment; nothing is said about how long.
* The IDF: the boot data keep one entry per slot, flash operations are atomic per step of `HoldingStore`;
  selecting the same OTA slot twice overwrites the other entry on the device.
* More than one fault of a kind at a time in `BleLink`, several power cuts in a save, and lost
  interrupts: outside the bounds of the runs.
