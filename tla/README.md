# A TLA+ model of xcan-router

The repository holds two programs:

* the **XCAN routing stack** (`stack/`, `modules/`, `examples/`): a single-threaded CAN
  stack with devices, frame queues and a loop that is called again and again;
* the **gateway framework** it grew out of (`_old/`): a FreeRTOS application in which a
  CAN receive interrupt, a PDU router task, a gateway task, a heartbeat task and a
  firmware update hand messages to each other through queues.

At this commit the XCAN stack does not compile: `stack/include/xcan_stack.h:27` lacks a
semicolon and `stack/xcan_router.c` names undeclared variables. Everything modelled here
is in files that are complete in themselves; `route_frame` and `xcan_router_loop` are not,
and are left out. In the framework `sdhc.c:262` calls `SD_OpenFW`, which exists as
`SD_openFW` only and is taken for it. `XCAN_ZALLOC(x)` is `calloc(x, 0)`
(`xcan_config.h:21`), which asks for no bytes at all; the models take memory to be zeroed
and of the size asked for.

## Inventory

| Component | State it keeps | Operations | What makes it hard | What makes it correct |
|---|---|---|---|---|
| Queues, `xcan_queue.h` | head, tail, counter, limit, and a `next` field in every frame | enqueue, dequeue, peek, empty | redundant state, a link field all queues share | it is a bounded FIFO; head, tail, links and counter agree |
| Frames, `xcan_frame.c` | descriptors, payloads, a usage count in the payload | alloc, copy, deepcopy, discard | shared payloads, a `uint8_t` that wraps | a payload lives exactly as long as a frame uses it |
| Device pool, `xcan_device.c` | `devices[]`, `id` and two queues per device | init, destroy, the loops IN and OUT | creation that fails half way, reused ids, nested loops over one score | no freed device in the pool; loops end, serve fairly, and send each frame once |
| Stack, `xcan_stack.c` | nothing of its own | tick, recv | the score passed from one loop to the next | what a tick does in each direction |
| SocketCAN, `xcan_dev_socketcan.c` | a socket | create, destroy, send, poll | the meaning of `send`'s result | it keeps the contract `devloop_out` relies on |
| Router, `xcan_router.c` | the routing table | init, receive, loop | not complete | - |
| CAN interrupt, `can.c` | `user_rxBuff`, `PDU_queue` | receive, filter, build a PDU | runs between any two instructions of a task, calls `malloc` without a look at the result | loses no buffer, finds memory as long as nobody else loses any |
| PDU router, `pdu_router.c` | the PDU it holds, three queues | route DATA, CMD, FW; discard | full queues, preemption inside `free()` | each payload is freed once; it never waits for a consumer |
| Gateway and heartbeat, `gateway.c` | `ecu_list` | parse an answer, ask for statuses | a status tested, then used after other tasks ran | it finds out what the ECUs report |
| ECU interface, `ecu.c` | `ecu_list` | send a command or a PDU, update firmware | dispatch on data that came from the bus | every ECU stays reachable; success means installed |
| Firmware update, `can.c` | position in a dialogue and in a file | one long function | timeouts, late answers, lost frames, two ECUs, read errors | a reported success is an installed image; it ends |
| CAN transmission, `can.c` | one mailbox per instance | send a frame | several tasks, one mailbox; errors are only printed | what is promised above it does not need every frame to arrive |
| SD card, `sdhc.c` | files, `ecu_list` | store, load, open firmware | crashes, errors, endless loops | a fault costs one file, a clean start repairs it, a load brings back what was stored, the loops end |
| HSM, `hsm_she.c` | key slots, counters, the RAM key | load the three keys, erase them | each takes seven calls through one key register, any may fail or be the last | the store of keys it stands for; a clean start provisions every key |
| Console, LIN, Ethernet, start-up | nothing | print, configure | stubs and hardware set-up | - |

The components meet as follows. A driver calls `xcan_stack_recv`, which allocates a frame
and enqueues it in `q_in`; `xcan_stack_tick` runs `xcan_devices_loop` over both queues of
all devices; `devloop_out` calls `dev->send`. In the framework the interrupt puts PDUs in
`PDU_queue`; the router moves them to `gateway_queue` or `fw_update_queue` or sends them;
the gateway task writes answers to `ecu_list`, which the heartbeat and all sending
functions read; an update reads `fw_update_queue`. `main.c` has the calls that start the
gateway task, the heartbeat and the updates (`keyOff`) commented out: the models show the
framework with them. `hsm_she.c` talks to the security module of the chip only.

## Modules

| Module | Models | State | Actions |
|---|---|---|---|
| `XcanFifo` | what users of a queue rely on (abstract) | `contents`, `ret` | `Put`, `Refuse`, `Get`, `Look` |
| `XcanQueue` | `xcan_queue.h` | the fields as named there, `draining` for `xcan_queue_empty`; history: `contents`, `held` | `Enqueue`, `EnqueueFull`, `Dequeue`, `Peek`, `BeginEmpty`, `DrainStep`, `Recycle` |
| `XcanFrame` | `xcan_frame.c` | `data`, `count`, `allocated`; history: `held`, `stale`, `deep`, `copied` | `Alloc`, `Copy`, `DeepCopy`, `Discard`, and what they do without memory |
| `XcanStack` | `xcan_device.c`, `xcan_stack.c`, `xcan_dev_socketcan.c` | `devices`, `id`, lengths of the queues, loop variables; history: `wire`, `accepted`, `taken` | `Create`, `CreateFails`, `Destroy`, `StackRecv`, `QueueOut`, `Tick`, `DevicesLoop`, and the steps of the loop |
| `GwPdu` | interrupt, router and gateway task, and the update as a consumer | the three queues, a program counter and a PDU per task, the heap | one per step between which another task may run |
| `GwFirmware` | `ECU_updateFirmware`, `CAN_updateFirmware` against bootloaders | the answer it waits for, packets read, `fw_update_queue`, the bus, the network `net` it is on; external: `boot`, `image` | one per command sent, `Reject`, `Timeout`; `UpdateElsewhere` (LIN, Ethernet); external: `Handle` |
| `GwEcu` | `Heartbeat_Task`, `ECU_sendCommand`, `GW_parsePDU` | `status` and `protocol` of `ecu_list`, the loop of the heartbeat, `gateway_queue`; external: `asked`, `real` | `Cycle`, `Check`, `Poll`, `Request`, `Parse`; external: `Respond`, `Change` |
| `SdCard` | `sdhc.c` on a card that fails and loses power | the next call of the file system, loop variables, the files, whether the card is `broken`; history: `written`, `clean` | one per call of the file system, but `f_open`, `f_read` and `f_close` of a load, and of a turn of `SD_loadAllECU`, in one; `Report`; external: `Crash` |
| `KeyStore` | what the key slots may be relied on for (abstract) | `store`, `garbled` | `Load`, `Spoil`, `Garble`, `Erase` |
| `Hsm` | `hsm_she.c`: `HSM_initialise` and `HSM_EraseKeys` | the slots and the RAM key of the security module, the locals, the next call of its driver | one per call of the driver, each of which may fail; `Reset` |

`XcanQueue` is shown to implement `XcanFifo`, and `Hsm` to implement `KeyStore`, by
`INSTANCE ... WITH`. A module `XProofs` holds the proofs about `X`: there is one for
`XcanQueue`, `XcanFrame`, `XcanStack`, `GwPdu`, `GwFirmware`, `GwEcu`, `SdCard` and `Hsm`.
The `MC` modules hold the values for TLC.

How the data is abstracted: a frame or a payload is a model value; a queue of `XcanStack`
is its length (`XcanQueue` shows the lists to be FIFOs, so the length is all the loops
see); a PDU of `GwPdu` is the type its id selects, the heap a number of buffers; an answer
of `GwFirmware` is its first byte, which is all the code looks at, and the ECU it is from,
which the code does not see; in `GwEcu` bit fields keep their widths, and the bytes of a
`REQ_ALL` answer its place in them, for either order of bit fields. The fields of `ecu_list`
that are not read there (`fw_version`, `instance`) are left out. In `Hsm` cryptography is
symbolic: a derived key is the key and the constant it was made from, a cipher text or a MAC
is what it was computed over and with which key; a message decrypted with the wrong key is
junk with some counter. `KEY_1_VALUE` and `BOOT_MAC_KEY_VALUE` (`config.h:32,34`) are the
same bytes, hence one value `userKey`. The result of `SECURITY_LoadKey` says little: after a
time-out the key may be loaded or not.

The environment is modelled from how the code uses it: `xQueueSendToBack` without waiting
fails on a full queue, `xQueueReceive` waits, a critical section keeps tasks and interrupt
out, the interrupt is one step. Bootloaders and ECUs answer what they are sent, in order,
with the bytes the code waits for. `CAN_sendFrame` delivers the frame or loses it, and its
caller cannot tell: that stands for a busy bus as for another task that holds the mailbox.
The security module accepts a message if its MAC is made with the key that guards the slot
and its counter grows. A call of the file system may fail once, or the card may break in it
for good: then every call fails until power is lost and is back with another card.

Two things are asked of the callers. `CAN_updateFirmware` neither opens nor rewinds the file
it is given: as in `keyOff` (`Sources/main.c:189`), which opens it for every update, an
update is taken to find its file at the beginning (`UpdateBegins`). And between two
operations on the card its only caller may do anything, but calls the next one only when the
last has returned.

## Runs

| Run | Question | Result |
|---|---|---|
| `XcanQueue` | Are the linked lists bounded FIFOs, with consistent fields, and does emptying end? | holds |
| `XcanFrame` | What does the usage count count, and which discard frees a payload? | holds |
| `XcanStack` | Is the pool sound, does the loop end, spend its score on frames, send each frame once, and serve the first device? | holds |
| `XcanStackOut` | Does a tick send frames out? | violated: never |
| `XcanStackSocketCan` | Does the SocketCAN driver keep the contract of `send`? | violated: frames are repeated |
| `GwPdu` | Is every payload freed once, whatever is full and whoever preempts whom; what does it take for `malloc` to fail; does the router never block? | holds |
| `GwFirmware` | Is an update that runs to its end installed, on five networks: one ECU that answers late, two that do, two prompt ones with lost frames, one on CAN and one on LIN, two late ones until a frame is lost? | holds |
| `GwFirmwareStatus` | Is a reported success installed? | violated: a timeout returns 0 |
| `GwEcu` | Does the heartbeat reach every ECU it has not cut off, and `ecu_list` learn its status? | holds |
| `SdCard` | What does a fault cost the copy of `ecu_list`, what does a restart repair, which firmware is found, does the search for it end when no error lasts? | holds |
| `SdCardLoadAll` | Does loading all ECUs return? | violated: not once there is a file |
| `Hsm` | Which keys may a slot hold after failed calls, cut-off starts and erasures, and what does a clean start repair? | holds |

`SentOnce` holds in `XcanStack` and fails in `XcanStackSocketCan`: the first run gives
`dev->send` the contract `devloop_out` states, the second the results of `prv_send`.
Likewise `CompleteIsInstalled` depends on when bootloaders answer (below). `CountedUses` and
`OneStaleAtMost` state exactly how far the usage count can be relied on; a shallow copy
cannot be used safely, a deep copy can. `FaultNeedsLeak` and `LatestEnds` say that the leak
of the update, and an error that lasts, are the only reasons for which `malloc` fails and
the search for firmware goes on for ever - not that neither happens. `HeartbeatReaches`
states the two ways, and the only ones, in which the heartbeat loses an ECU for good.
`StoreSpec` says what a failed call can do to a key at worst, `CleanStartProvisions` what
the next start makes of it.

### What else the models show

The properties that hold are stated as strongly as the code allows; where they stop, the
code does something its comments do not say. Besides the four violated runs:

* `xcan_stack_tick` takes up to 20 frames in (`ScoreSpent` with `TickScore` 20), its
  comment says 10.
* A frame and its copy count as one use, so the first of them to be discarded frees the
  payload of both (`OneStaleAtMost` allows one such frame). A frame that was never copied is
  not given back when it is discarded: by `CountedUses` its count is 0, and the discard
  makes it 255.
* Of two devices with one id the second replaces the first, and destroying the first empties
  the slot of the second, which is alive (`NoDanglingDevice` does not ask that every
  living device be registered).
* An update that ends on an unexpected answer keeps its payload (`can.c:206`, 226, 254, 265;
  `lost` in `BuffersAccounted`), and nothing limits how often that happens: any heap is
  exhausted in the end, and the interrupt copies to the NULL it gets (`faulted`).
  `FaultNeedsLeak` says how many payloads must be forgotten for that, and that nothing else
  exhausts it.
* `PDU_discardPDU` frees in a critical section, as `pdu_router.h:89` asks for. The update
  frees its answers with a plain `free()` (`can.c:207`, 228, 255, 266), which the
  interrupt and, in principle, other tasks cut into: `DiscardUninterrupted` names exactly
  that exception.
* Late answers carry an update ahead of its ECU: answers to updates that timed out are taken
  for answers to its own commands, also when they come from another ECU, so that it can
  report success while its ECU still has frames to handle. With two late ECUs two updates
  suffice for that, with one it takes the leftovers of several. The frames are all there by
  then, so the ECU will be installed when it has handled them: `CompleteIsInstalled` says just
  that of late networks. Once a frame is lost among late answers neither it nor
  `ImageInOrder` holds any longer, because a left-over answer hides the loss: an update can
  then report success with a packet missing. That is why both end with the first such loss
  (`LossesShow`); where answers are prompt, losses do not matter.
* The update of an ECU that is on LIN or Ethernet reports success and sends nothing
  (`UpdateElsewhere`).
* A failing `f_read` ends the file early: the update is complete with fewer than `Packets`
  packets, and reports success.
* An ECU that reported UPDATING is never asked again, although only its answer would change
  that; and the answer to `REQ_ALL`, copied over `ecu_list` from its command byte on,
  changes the protocol so that nothing is sent to the ECU any more (`CutOff`).
* `SD_loadAllECU` returns only where the first ECU has no file, and then without having
  loaded any: it counts up `next_ecu` but opens the file of `current_ecu`
  (`SdCardLoadAll`). No code calls it at this commit.
* `SD_openLatestFW` opens the current version again when there is no newer one
  (`LatestFound`), does not look behind a gap, and hangs on every error that lasts: a card
  that is gone, or a directory that was never made (the exceptions of `LatestEnds`).
* Nobody looks at the result of `HSM_DeriveKey`: when it fails, the key is encrypted and
  signed with what was on the stack, and what the slot gets may be a wrong key with any
  counter (`Spoil`). If that counter is not below those of `HSM_initialise`, no later start
  repairs the slot, hence `~garbled` in `CleanStartProvisions`; and `HSM_SetAuthKey` returns
  true. With a wrong master key `HSM_EraseKeys` does not work either.
* `CAN_printError` prints three characters for each byte of a frame into 100; the frames of an
  update have 64 bytes.
* `SD_storeECU` reports success when a file cannot be opened or closed; every start
  replaces what is on the card by the defaults of `ecu_table.c`.

### Bounds

* `XcanQueue`: three frames, two queues (one with limit 2, one without). Two queues are
  needed for the shared `next` field, three frames for a head, a middle and a tail.
* `XcanFrame`: four descriptors, three payloads, `MaxCopies` deep copies of one payload.
  Both resources can run out, and three frames can share a payload. Frames and payloads
  are symmetric; only safety is checked.
* `XcanStack`: two slots and two devices, so that ids collide; `TickScore` 3 against up to
  four waiting frames, so that it does and does not suffice; `MaxQueued` and `MaxAccepted`
  2.
* `GwPdu`: queues of 2, 1 and 1 PDUs, all of which fill up; two destinations; a heap with
  room for full queues, a PDU in every task and two payloads that updates forgot, so that
  the third exhausts it. Nothing bounds the updates.
* `GwFirmware`: a file of two packets (first and last), a queue of three answers that
  overflows, one failing read. The networks bound updates and lost frames: `OneLate` seven
  updates, so that answers of some can fill the queue and carry another ahead of its ECU;
  `TwoLate` three, enough for that with two ECUs; neither loses frames; `TwoPrompt` three
  updates and two losses; `OneOnLin` three and one; `LateLossy` three and one.
* `GwEcu`: two ECUs, a queue of four answers (the code has ten for four ECUs: two per ECU
  and some), `MaxRequests`, `MaxChanges` and `MaxLost` of one. The status byte 17 does not
  fit the field of four bits.
* `SdCard`: two ECUs, so that a loop can stop between them; `MaxErrors` 2 and `MaxCrashes`
  1, so that a fault can meet the recovery from another one; firmware files in a row, behind
  a gap, and none; one ECU without a directory. A card that breaks costs one error, its later
  failures none. `SdCardLoadAll` needs neither errors nor crashes.
* `Hsm`: `MaxFaults` 2 and `MaxResets` 2, so that a fault can meet the recovery from another
  one; one erasure, after which the keys are set up again; `JunkCounters` below and above
  the counters the code uses.

Deadlock is checked except where the model ends: `GwPdu` when the interrupt has written to
NULL (`faulted`), and, by its bounds, `GwFirmware` after its last
update, `Hsm` after `MaxResets` losses of power and `MaxErases` erasures, `XcanFrame` when
memory has run out or was misused (`faulted`).

### Fairness

* `XcanQueue`: `WF` on the steps of `xcan_queue_empty`, which runs to its end in one thread.
* `XcanStack`: `WF` on the steps of a loop that was entered, for the same reason; `SF` on
  `Tick`, as the main loop of the example calls it for ever, whatever runs between. Nothing
  else is fair: no frame has to arrive and no device to be created.
* `GwPdu`: `SF` on router and gateway task. They have one priority and take turns; a
  critical section of the other one, or the update, which the application runs at a higher
  priority but which waits in each of its steps, only delays them. The interrupt is not
  fair: frames need not come.
* `GwFirmware`: `WF` on the update, as every `xQueueReceive` returns after `TIMEOUT`.
  Bootloaders are fair where they are prompt (`~net.late`); a late one need never answer.
* `GwEcu`: `WF` on heartbeat and gateway task (one priority, taking turns) and on the
  answers. A cycle of the heartbeat begins with an empty `gateway_queue`: the period is
  seconds, handling ten answers takes milliseconds.
* `SdCard`: `WF` on the steps of an operation that was called, and the power comes back.
* `Hsm`: only safety is claimed; its calls return after their time-out.

## Proofs

All for every value of the constants that satisfies the assumption named in the module. Each
module also proves its type invariant (`TypesHold`).

* `XcanQueueProofs`. `ListsWellFormed` (`Linked` and `Disjoint`) and the types are inductive
  together. `Linked` ties head, tail, `next` and the counter to the history `contents`;
  `Disjoint` says that a frame is at one place of one queue or with its caller. Neither is
  inductive alone: appending to one list writes the `next` field of its tail, which keeps
  the other lists only if that frame is in none of them. `LimitKept` follows with the
  guard of `xcan_enqueue`. `QueueImplementsFifo` is the step simulation: each action is
  an action of `XcanFifo` with the same `contents` and `ret`, or a stutter. `EmptyingEnds`
  gives the variant of `xcan_queue_empty`, the counter.
* `XcanFrameProofs`. `CountedUses` is inductive with two facts about who holds what
  (`HeldHasData`, `HolderAllocated`); the steps count with cardinalities modulo 256.
  `DeepCopiesAreSafe` and `OneGoesStale` need that the count does not wrap, `CountFits`:
  memory for at most 256 frames and deep copies together.
* `XcanStackProofs`. `NoDanglingDevice` is inductive with the types. `ContractSendsOnce` needs
  a driver whose `send` returns 0 exactly when it has sent the frame (`Contract`), which is
  what `devloop_out` takes for granted and `prv_send` does not keep. `ScoreIsSpent` rests on
  `Spending`: a loop knows how many frames still wait (`Waiting`), what it took and what is
  left of its score, and that the slots it has passed are empty unless the score is spent.
  Taking a frame takes one element out of the set `Frames`; the cardinality does the sum.
  `ServedInOrder` is the part of it about the slots passed. `LoopsWindDown` gives the variant
  of the loops: loops left, score, slots left.
* `GwPduProofs`. `PayloadsAccounted` sums the three queues and the hands of the three tasks; it
  needs that a task has a PDU exactly in the places of its code where it disposes of one.
  `OnlyLeaksFault` compares that sum with the size of the heap, whatever that is: `malloc`
  fails only for what updates forgot. `RoutedRight` gives the routing by type,
  `DiscardIsAtomic` that nothing enters the heap while a task is in its critical section.
* `GwFirmwareProofs`. `UpdatesInstall` and `ImagesInOrder` hold on every network, for any
  number of ECUs, packets, updates, lost frames and read errors; where bootloaders answer late
  they speak of the time before the first loss (`LossesShow`). There are two invariants, as
  there are two reasons. Where answers are prompt it is `InStep`: the command the update waits
  for is on its way, or its answer is, or it is lost and nothing is on its way; bus and queue
  are therefore empty when an update begins. Where they are late, and nothing has been lost
  yet, it is `Sound`: each frame on a bus finds the bootloader as its command needs it once
  those before it are handled (`Chain`), and once all are, the bootloader is where the current
  update is (`Ahead`), however far that has run ahead. `UpdatesAdvance` needs neither: each
  wait of an update ends it or moves it on by one of `Packets + 2` commands.
* `GwEcuProofs`. For `OneLateRequest`, which counts the requests of the heartbeat and not those
  of the application (`Request` does not look at the status), `LateOnce` says that an ECU which
  got a late request is still known to be updating, and that the heartbeat is not about to send
  it another.
* `SdCardProofs`. `StartsRepair`, `LatestIsFound`, `FaultsCostOne` and `LoadsGiveWritten`, from
  one invariant on what the calls of a running operation have done so far (`Operations`,
  `FileContents`, `StartRepairs`, `Searching`) and on when a card can break (`DeadCard`: not
  with a file half written, which is why a card that breaks costs one file only).
  `SearchAdvances` gives the variant of the search for firmware, the version, and shows where
  it has none: on a broken card, and without a directory, which takes a call that failed.
* `HsmProofs`. `Dialogue` says what the locals and the RAM key hold at each call when nothing
  has failed, and what they may hold when something has; `ImplementsKeyStore` is the step
  simulation on it. `CleanStart` adds which keys are in place after each call of
  `HSM_LoadKey` (`Provided`): either it loaded its key, or the counter was refused, and then
  the key was there already.

Only model-checked: all liveness (`EmptyEnds`, `TickEnds`, `FirstServed`, `RouterReturns`,
`QuietBusDrains`, `UpdateReturns`, `HeartbeatReaches`, `StatusGetsKnown`, `LatestEnds`),
which is beyond the prover under fairness. Of four of them the reason is
proved as an action property: `EmptyingEnds`, `LoopsWindDown`, `UpdatesAdvance` and
`SearchAdvances` say that each step of the loop decreases something that cannot go below its
bound; what is left to TLC is that fairness makes these steps happen. `ServedInOrder` is the
safety part of `FirstServed`. Every safety property of a passing run is proved.

## Not modelled

* The router of the XCAN stack: `route_frame` and `xcan_router_loop` do not compile, and
  `xcan_router_receive`, which the stack calls, prints and returns.
* Sockets, hardware set-up and printing (the console, start-up, `CAN_initialise`, LIN and
  Ethernet set-up): they keep no state a property could be about. The lookup
  `xcan_get_device` and the stub `xcan_datalink_send` change nothing; `prv_poll` is called by
  nobody.
* The inside of a transmit mailbox and the nesting of receive interrupts over `user_rxBuff`:
  driver and interrupt priorities are not in the repository.
* `HSM_ComputeM4M5`, which nobody calls, and the encryption of firmware packets, which
  changes no control flow.
* Memory errors are modelled up to the point where they happen (`faulted`, `stale`): what a
  program does after one is not. Indices from the bus beyond the tables (`ecu_list`,
  `PDU_Descriptors`) are left out, their effect being up to the linker.

## Plan

The modules were written in this order: `XcanFifo` and `XcanQueue`; `XcanFrame`; `XcanStack`;
`GwPdu`; `GwFirmware`; `GwEcu`; `SdCard`; `KeyStore` and `Hsm`; with the proofs of each
after it. A module for the transmit mailbox was planned and dropped: all it could show is in
a driver that is not here. So was the loop of `keyOff` over all ECUs, which is commented out
and names functions that do not exist (`SD_storeECUInfo`).

What could still be added, as the code grows:

1. the router of the XCAN stack, once it compiles: that a frame reaches each destination of
   its entry once, and the ownership of its payload across `XcanFrame` and `XcanQueue`;
2. an abstract update (installed, or an error reported) and an abstract store of ECUs, once
   the status of `CAN_updateFirmware` and the loops of `sdhc.c` allow them.
