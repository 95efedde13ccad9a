# A TLA+ verification of the USB redirector

The repository redirects a USB mass-storage device from one machine to another:
a *sender* captures URBs with libusb, wraps them in USBIP structures and sends
them over TCP; a *receiver* unwraps them and gives them to a virtual device of
the Linux `vhci_hcd` driver. This directory models its own logic in TLA+, checks
the models with TLC on small instances, and proves with TLAPS that the safety
properties hold for all instances. Every invariant that a run checks is also the
statement of a theorem; liveness stays with TLC.

Paths below are relative to the repository.

## 1. Inventory

### Components, their state and operations

| Component | State | Operations | Model |
|---|---|---|---|
| `UrbCapture` (`sender/capture`) | queue, two atomic flags, device list, statistics, a thread | add/remove device, start, stop, inject, `OnDeviceData`, statistics, `ProcessingThread` | `UrbCapture`, `UrbChannel` |
| `UrbProcessor` (`sender/capture`) | sequence number | URB to USBIP structure | `UrbTransfer` |
| `UsbSender` (`sender/main.cpp`) | device vector, running flag | start, stop, scan, hot plug, three requests, `OnUrbCaptured` | `UsbSender`, `UsbDevices`, `UrbTransfer` |
| `MassStorageDevice` (`sender/usb`) | initialised and capturing flags, endpoints, tag, capacity | search for endpoints, reset, bulk-only transport, capture, URB construction | `MassStorage`, `UsbDevices`, URB construction in `UrbTransfer` |
| `UsbDeviceManager`, `UsbDevice` (`sender/usb`) | libusb context, handles, claimed interfaces, hot-plug thread | enumeration, hot plug, open, claim, close, transfers | `UsbDevices`, transfers in `MassStorage` |
| `TcpSocket` (`common/network`) | descriptor, three flags, client descriptors, two threads | connect, listen, send, close, receive, accept, handle client | client side in `UsbipClient`, server side in `UsbSender`, bytes in `MessageStream` |
| `MessageHandler` (`common/network`) | receive buffer, sequence counter | serialize, cut the stream into messages, resynchronise | `MessageStream`, `MessageChannel` |
| `UsbipProtocol` (`common/protocol`) | none | conversions to and from network structures | `UrbTransfer` |
| `UsbipClient` (`receiver/usbip`) | connected and heartbeat flags, heartbeat thread | connect, disconnect, requests, message and error callbacks | `UsbipClient`, parsing in `UrbTransfer` |
| `UsbReceiver` (`receiver/main.cpp`) | vector of virtual devices, running flag | start, run/reconnect, stop, import, URB dispatch | `UsbReceiver`, `UsbipClient`, `UrbTransfer` |
| `VirtualUsbDevice` (`receiver/virtual_device`) | created/attached flags, port, configuration | create, attach, detach, destroy, answer URBs | `UsbReceiver`, `UrbTransfer` |
| `UsbipManager` (`receiver/virtual_device`) | port table | get and release port, cleanup | `UsbReceiver` |
| `ReverseClient` | - | - | not part of any build target |
| `Buffer`, `Logger` (`common/utils`) | - | - | `Buffer` is used by nobody, `Logger` only writes |

### How they interact

Everything is callbacks on threads. In the sender, device threads call
`UrbCapture::OnDeviceData`; the processing thread calls `UsbSender::OnUrbCaptured`,
which converts and sends; one detached thread per client calls
`MessageHandler::ProcessReceivedData` and through it the request handlers; the
hot-plug thread changes the device vector; the signal handler runs `Stop`. In the
receiver, the receive thread of the socket runs everything from the bytes of
`recv` to the attachment of a virtual device; a heartbeat thread sends; the main
thread connects, watches, reconnects and stops. The sockets, the vectors of
devices and most flags are shared without locks.

### What is hard in this code

* two threads joined by flags: condition-variable waits and their notifications,
  joins that wait for a thread that waits for something else, `std::thread`
  objects that must be joined exactly once;
* a `Stop` on one thread against imports, requests and hot plugging on others;
* imports of four steps of which each can fail, and their undoing;
* descriptor numbers that the kernel reuses while another thread still has them;
* a byte stream cut anywhere, several writers on it, connections that end in the
  middle of a message, and a parser that looks for a magic number after an error;
* devices that come and go while one thread scans, another runs callbacks and a
  third party claims interfaces; objects shared between two vectors; a take-down in
  which the order decides whether a callback meets a freed object;
* a command protocol in which the status of a failed command is never read;
* two structures of different sizes (40 and 48 bytes) on one message type.

`PROJECT.json` lists each of these hazards at its line, with the properties that
watch it.

### What makes each part correct

* capture: what is pushed is delivered once, in order, only between start and
  stop; stop returns and leaves no thread; statistics agree with deliveries;
* receiver: ports are exclusive and never leaked; attached devices are where the
  kernel has them; stop detaches everything;
* connection: an exit leaves nothing behind, connect returns, nobody waits for ever, a loss is
  noticed, a reconnection works;
* stream: messages arrive whole, in order, once; the parser always comes back and
  keeps its buffer bounded;
* server: a handler reads its own client, descriptors are returned, close closes
  every client it knows of and returns;
* devices: what is listed is open, claimed and there once; every handle is closed;
  nothing is added during the take-down; the libusb context goes last; arrivals are
  tried; stop returns from the hot-plug thread;
* mass storage: the endpoints are those of the mass-storage interface, and a
  capacity is the answer to the command it was asked with;
* URB path: a URB and a device list arrive as they were sent, and the device
  answers each URB once.

## 2. The modules and how they correspond to the code

A step of a model ends where another thread can see a difference: at a store to
an atomic, at the ends of a critical section longer than a statement, at a
blocking call. A callback runs on the thread that fires it, as part of its step.
Undefined behaviour (a vector changed while another thread walks it) sets a
variable `ub`, after which the model stops and nothing is claimed.

**`UrbCapture`** — the class of the same name. `worker` is the place of
`ProcessingThread` in its loop, with one step for each of: loop condition, lock,
predicate of the wait, suspension, wake-up (notified or spurious), stop check,
pop with unlock, `UpdateStatistics`, callback, relock. `call[p]` is a producer
between its check of `capturing_`, its push and its `notify_one`; `owner` is the
place of `StartCapture`/`StopCapture`, with a step per store, device loop,
`notify_all` and join. `hand` is the local variable `urb`. Assigning to a joinable
`std::thread` is the state `"terminate"`. History variables record what was pushed
and delivered.

**`UrbChannel`** — the promise of `UrbCapture` to its callback: a FIFO channel
that delivers only inside a session. `UrbCapture` maps `open` to
`capturing_ \/ owner # "idle"`, `pending` to `hand \o urb_queue_` and `out` to
`delivered`.

**`UsbReceiver`** — the devices of the receiver. The receive thread goes through
`ImportDeviceInternal` in the order of the code (create, attach, push, send, and
the undo steps detach, destroy, pop); `main` goes through `Stop`. `vhci` is the
kernel's port table, which differs from `port_usage_` because the result of
writing to the detach file is ignored. A `shared_ptr` is an object name, and an
object is destroyed in the step that drops its last owner.

**`UsbipClient`** — the connection of the receiver with its three threads,
including `UsbReceiver::Start`, `Run` and the destructors at exit. `pc[t] = "none"`
means that the `std::thread` is not joinable, `"exited"` that it has returned and
was not joined. `close()` does not wake a thread in `recv()` (the receiver runs on
Linux). A write to a closed peer (`Send`: the request for the list, the heartbeat, and
what `ReceiveCallback` sends from the receive thread) may succeed, fail, or raise
SIGPIPE, which nobody handles. `fd` is `socket_fd_ >= 0`, the program's view;
`descriptors` is the kernel's, the number of sockets that are open, and differs from it
because `Connect` overwrites `socket_fd_` without closing what was there. `retried`
remembers that `Run` has called `Connect` again. `EndIsAccounted` says how the program
ends: a normal exit leaves no thread, no flag and no descriptor, apart from the one that
was overwritten if there was a further attempt; and `"terminated"` is not reached while
the sender keeps the first connection open.

**`MessageStream`** — one direction of a connection in bytes: `SerializeMessage`,
the loop of `Send` with partial writes, `recv` with chunks of any size, and
`ProcessReceivedData` with one step per iteration: incomplete header, wrong magic
number (search and skip, or clear), oversized length, incomplete payload,
checksum and delivery. A byte is a digit of base `Base`, the magic number two
digits, every other field one. `ConnectionEnds` loses what is under way and gives
the reader a new connection with the same `MessageHandler`, whose buffer keeps what
it had; `torn` records that the loss fell inside a message. `StreamInFrame` and
`Delivery` are stated for connections that were not torn (and for
streams without oversized messages): after a tear the rest of the buffer is taken
for the beginning of the new connection's first message. `BufferBounded` and
`ParseEnds` hold regardless.

**`MessageChannel`** — the promise of a connection to its two ends: whole messages,
in order, at most once, and lost only together with all that are under way.
`MessageStream` maps `pending` to the messages sent and not yet delivered or lost
(`Undelivered`) and `out` to `delivered`.

**`UsbSender`** — the server side: `Listen`, `AcceptThread`, one `HandleClient` per
connection, `Close`, the requests of clients, the scan, hot plugging and `Stop`.
`fdTable` is the kernel's descriptor table; a handler only has a number. `close()`
in another thread makes `accept()` and `recv()` fail (the sender runs on macOS).
`client_fds_` is the set of the vector's elements: `Close` walks all of them, and
`std::remove` takes out every copy of a number, so that order and copies do not matter.
`NoDescriptorLeak` says that every open descriptor is in the hands of a thread that
will close it, and that `Close` leaves no handler waiting on an open connection unless
the number was reused before its former handler had removed it.

**`UsbDevices`** — the devices of the sender, from `Initialize` to the end of the
program. `pc["main"]` goes through `UsbSender::Initialize` and `Start` (scan, capture,
registration, thread), `Stop`, and the destructors in their order; `pc["hotplug"]`
through `HotplugThread`, `HotplugCallback` and `OnDeviceHotplug`. Both use the same
steps to add a device: open, claim, probe, push to `mass_storage_devices_`, add to
`UrbCapture::devices_`. An object `<<d, t>>` is the `UsbDevice` that thread `t` made
for `d` and the `MassStorageDevice` around it. The owners of an object are the vector,
`devices_` and `locals` (local `shared_ptr`s); the step that drops the last of them
contains `Close` and the destructors. The bus is external: a device may be plugged in
and pulled out once, before, during or after anything; a claim is exclusive; every
libusb call may fail.

**`MassStorage`** — `MassStorageDevice::Initialize`: `FindEndpoints` descriptor by
descriptor over the bytes of a configuration, the claim, `ResetDevice`, and
`GetCapacity` with `SendCBW`, `TransferData` and `ReceiveCSW` of READ CAPACITY(16) and,
when its data stage fails, READ CAPACITY(10). The device is a queue of commands and a
queue of answers: it executes, refuses in the four ways a bulk-only device has (data
without meaning, an empty packet, the status alone, a halted endpoint), answers late
or never, and may change its medium. Integers are small (`Max10` stands for 2^32 - 1);
the conversion from big-endian bytes is part of `content`. A transfer goes through only
over an endpoint of the claimed interface (`Claimed`), each direction for itself: with a
foreign IN endpoint the command is sent, its data never come, and the fallback is tried. History variables tell
which command an answer belongs to.

**`UrbTransfer`** — the path of a URB and of a device list through `UrbProcessor`,
`UsbipProtocol`, `UsbipClient` and `VirtualUsbDevice`, with real sizes and byte
orders: `UsbipCmdSubmit` is 48 bytes, `UsbipRetSubmit` 40, integers are 4 or 2 bytes
with `htonl`/`htons` or, in the setup packet, without (`HostShort`); `Array` puts
structures of one width next to each other. The steps are `OnUrbCaptured`,
`HandleDeviceListRequest` and `OnNetworkMessage`, the last with everything it calls up
to the response. A `UsbipDeviceInfo` has all its
fields, `bcdDevice` and the two ids swapped on the way and the six one-byte fields not;
its two names are one element each. The content of a response is a pair of what it is
and a value. The URBs are any that `CreateControlUrb` and
`CreateBulkUrb` can make (`UrbsAssumption`: fields of the widths of `UsbUrb`, endpoint 0
exactly for control transfers, data whose length fits in the `int32_t` of the wire).
The properties select the host-to-device URBs of a history with `Pick`, the elements at
a set of indices. `AnswersInOrder` speaks of the data of an answer for the URBs that are
`Unambiguous`; see "Seen while modelling".

`PROJECT.json` gives the source lines of every definition. Operators whose comment
starts with "Mutant:" are plausible mistakes; each property of a passing run is
violated when one of them replaces the definition it stands before.

## 3. Runs

| Run | Instance | Result | What it shows |
|---|---|---|---|
| `capture` | 1 device and 1 injector, 2 kinds of URB, 2 URBs, 2 sessions | pass | nothing lost, duplicated or reordered; threads joined; statistics agree; implements `UrbChannel`; every URB delivered unless a stop is requested |
| `capture_stop` | 1 session | violation | `StopCapture` can hang: its notification can fall between the predicate and the suspension |
| `receiver` | 4 objects, 2 bus ids, 2 ports, 2 lists of up to 2 | pass | port accounting and attachment through every failure and race |
| `receiver_stop` | 2 objects, 1 list | violation | `Stop` can return with a device attached |
| `stream` | base 4, 6 messages, 2 sent, 1 lost connection | pass | order, framing and delivery, also across connections that end between messages; bounded buffer and termination also out of frame |
| `stream_two` | 2 writers, 2 messages | violation | interleaved partial writes lose messages (two threads on one socket, or two clients of the server, which share one `MessageHandler`) |
| `client` | 2 connections | pass | the program ends by a normal exit that leaves nothing behind, or after a loss; `Connect` returns, losses noticed, every join returns unless it waits for a `recv` on a silent open connection |
| `client_reconnect` | 2 connections | violation | the second `Connect` ends the program |
| `sender` | 2 clients, 2 descriptors, 1 device | pass | handlers read their own client, descriptors come back, `Close` returns |
| `devices` | 2 devices | pass | listed devices are ready, claimed and there once; handles are owned; the take-down is in order; `Stop` returns from the join of the hot-plug thread on; reported arrivals are tried |
| `mass_storage` | 9 configurations, 3 media, 2 objects, 1 change of medium | pass | endpoints of the right interface, capacities that answer the right command |
| `urbs` | 14 URBs, 3 device lists, 4 messages | pass | host-to-device URBs and lists survive the conversions; answers and configuration follow |

The bounds make the interesting cases happen. Two URBs and two sessions: a stale
URB of the first session waits for the second, and one URB is pushed while the
other is in hand. Two ports and two lists of two devices: ports run out and come
back. Four objects: each entry of two lists gets one. Two clients and two
descriptor numbers: a number is reused while its former handler still holds it.
One lost connection at any byte of two messages:
a tear inside the magic number, a header, a payload, and none. Two devices: one that
the scan finds and the hot-plug thread is told of as well, while another comes, goes
or fails half-way (`UsbDevices` was also run once with three devices, 817795 states,
with the same result). Two objects after each other on one storage device: the second
meets what the first left unread. Configurations: plain, composite, with endpoints
before the storage interface, with a second interface after it (with endpoints, or of
the storage class), with missing endpoints, cut off, with a length of zero, and with
the bytes of a libusb structure. Payloads of the stream contain the magic number in both byte orders, and lengths
below, at and over the limit. Four messages: a list, two configurations and a
command in any order, with URBs that come before the import and a second import of
the same device. Not reached: the failure of `accept()` for lack of descriptors
needs more clients than numbers, and with two of each it does not happen.

`CHECK_DEADLOCK FALSE` is used where the program really may stop: after the end
of `main`, after `ub`, or when the bounded environment has nothing more to send.

### Fairness

Weak fairness of each thread, that is, a thread that can run eventually does, and
no fairness of the environment: nobody has to push a URB, send a message, close a
connection or stop a program. In `MessageStream`, a `send` that was begun goes on
and TCP delivers what it has; the writers do not have to send. In `UsbDevices`,
`StopReturns` needs weak fairness of `main` and of the hot-plug thread only. It is
about `StopHotplugMonitoring` and the take-down; the two other calls of `Stop` that wait
for a thread belong to other modules: `StopCapture` before it, which can hang
(`capture_stop`), and `Close` of the server after it (`CloseReturns` of the run `sender`).
The
strong fairness of `HandleEvents` is for `ArrivalsTried` and stands for
`libusb_handle_events_timeout`, which looks at its queue before it returns: without it
the thread could time out for ever beside a waiting event. A violation of a
liveness property is therefore a state in which every thread is really stuck.

### The violations

* `capture_stop`: `should_stop_` is stored, and `notify_all` called, without
  `queue_mutex_`. Between the predicate and the suspension the notification is
  lost, and with no further URB the join never returns
  (`sender/capture/urb_capture.cpp:104`).
* `receiver_stop`: `Stop` clears `virtual_devices_` while an import is under way; if
  the connection is lost, `Disconnect` joins nobody, and the import pushes its
  device after the clear (`receiver/main.cpp:90`). `StopDetachesAtRest` (section 4)
  proves that there is no other way.
* `stream_two`: `TcpSocket::Send` has no lock, and three threads of the receiver use
  it (`common/network/tcp_socket.cpp:132`).
* `client_reconnect`: `receive_thread_` is assigned while joinable
  (`common/network/tcp_socket.cpp:60`). `NoReconnection` (section 4) proves that this
  happens at every second `Connect`.

### Seen while modelling, without a run

* `close()` without `shutdown()` does not end a blocked `recv()` of the receiver, so
  `Stop` waits as long as the peer stays silent and connected
  (`common/network/tcp_socket.cpp:170`); `JoinsReturn` excludes exactly this.
* `close(client_fd)` comes before the removal from `client_fds_`; a new client that
  gets the number is removed in its place and escapes `Close`
  (`common/network/tcp_socket.cpp:249`). The second half of `NoDescriptorLeak` exempts
  every connection whose number had another handler before it, whether or not that
  handler was still to remove it, so it is silent about more than this race.
* `Connect` calls `socket()` while `socket_fd_` may still have the descriptor of a lost
  connection, which the receive thread leaves open; it is never closed
  (`common/network/tcp_socket.cpp:31`). One attempt leaks one descriptor, and further
  attempts that fail leak no other: `EndIsAccounted` counts them.
* When the sender closes the connection while the receiver stops, `main` and the receive
  thread may both be in `StopHeartbeat`; both have seen a joinable thread, and the second
  join ends the program (`receiver/usbip/usbip_client.cpp:145`). The model reaches this
  state; `EndIsAccounted` excludes it, like SIGPIPE, only for as long as the sender keeps
  the connection open.
* A fragment in the buffer of `MessageHandler` survives a reconnection, and the first
  message of the new connection is read as its end (`message_handler.cpp:37`).
* A device that is plugged in between the scan and the registration of the callback
  is missed: the registration does not ask for the devices that are there
  (`sender/usb/usb_device_manager.cpp`, `sender/main.cpp:70` and `:82`).
* A device that is pulled out stays in both vectors until `Stop`
  (`sender/main.cpp:195`), so clients are shown devices that are gone.
* `LoadDeviceInfo` and `GetConfigDescriptor` copy the memory of libusb's parsed
  structure in place of the descriptor's bytes. `FindEndpoints` then meets padding
  and, in most layouts, fails; `MassStorage` has such a configuration.
* `GetMassStorageDevices` tests the class of the device only, which is 0 for most
  storage devices; `FindEndpoints` takes the last bulk endpoints after the storage
  interface, whichever interface they belong to.
* After a failed READ CAPACITY(16) neither its status is read nor a halt cleared, so
  the fallback usually fails as well; tags start at 1 in each object, so after a reset
  that failed a stale answer may have the right tag (`CapacityTrue` assumes `clean`).
  `block_size_` changes even if `GetCapacity` fails, and 2^32 - 1 blocks of the
  10-byte command are taken at face value.
* `Listen` never sets `is_connected_`, so `Send` on the server's socket always
  returns false (`common/network/tcp_socket.cpp:126`), while
  `sender/main.cpp:265` logs "Sent device list with". `CanSend` in `UsbSender` is
  never true; `UrbTransfer` says what would happen to messages that get through.
* A device-to-host URB is sent as a `USBIP_RET_SUBMIT` under the message type that
  the receiver reads as a `USBIP_CMD_SUBMIT`: with less than 8 bytes of data it is
  dropped, with more its first 8 bytes become the setup packet and the data is lost
  (`receiver/usbip/usbip_client.cpp:273`). `ConfigurationInStep` excludes this case
  in so many words.
* The response that goes back to the sender is always empty
  (`common/network/message_handler.cpp:143`), and the sender does not handle it.
* `HandleMassStorageUrb` takes any host-to-device block of 31 bytes or more for a
  command block wrapper, so the data of a write whose 16th byte is 18 or 37 is answered
  as INQUIRY or READ CAPACITY (`receiver/virtual_device/virtual_usb_device.cpp:385`).
  Likewise a host-to-device control request with the code of a request for data is
  answered with that data. `Unambiguous` excludes exactly these; the proof of
  `AnswersInOrder` showed the case, which the URBs of the run had not contained, and the
  run now has blocks of 32 bytes with and without such a byte.
* Every URB goes to the first virtual device (`receiver/main.cpp:194`).
* Every URB has sequence number 1, because a new `UrbProcessor` is made for each
  (`sender/main.cpp:201`), although `usb_types.h` calls the id unique.
* A hot-plugged device is added but never started (`sender/main.cpp:189`).
* The search for the magic number after an error compares in host byte order
  (`common/network/message_handler.cpp:53`), so it skips good messages.

## 4. Proofs

`UrbCaptureProofs` proves, for any set of devices, any set of URB values and any
bounds, under the assumptions named in `UrbCapture` (the injector is not a device;
URBs are records of a transfer type, a status and a length; bounds are naturals):

* `TypeCorrect`: `Spec => []TypeOK`;
* `NothingIsLost`: `Spec => []NothingLost` — what was pushed is what was delivered,
  followed by what is in hand, followed by the queue;
* `StoppedIsJoined`: `Spec => []StoppedMeansJoined` — outside a session there is no
  thread, so that the next start never assigns to a joinable one;
* `Refinement`: `Spec => ImplementsChannel` — `UrbCapture` implements `UrbChannel`.

All of them follow from the inductive invariant of `UrbCapture`

    IInv == TypeOK /\ HandInv /\ OwnerInv /\ NothingLost

None of the properties is inductive alone. `NothingLost` needs `HandInv` (a URB is
in hand exactly between pop and callback), because a pop into a full hand would
lose one; the statement about the stopped capture needs `OwnerInv`, which says for
each place of the owner what `capturing_` is and whether a thread exists. `NextInv`
has one step per action and under it one per conjunct the action can disturb;
moves of the processing thread that touch nothing else share the lemma `MoveInv`.
The lemmas about sequences (`ConcatAppend`, `HeadThenTail`, `Singleton`,
`ConsThenHeadTail`) say that a pop moves the boundary between three concatenated
sequences and changes nothing else; the refinement uses them again: a push is
`Accept`, the callback is `Deliver`, the first and last step of a session are
`Open` and `Close`, and everything else stutters.

`UsbReceiverProofs` proves, for any set of objects, bus ids, any number of ports and
any number and length of lists (assumption: the number of ports is a natural number,
`None` is none of the objects):

* `TypeCorrect`, `PortsNeverShared`, `PortsAccounted`, `NoPortIsLeaked` and
  `AttachmentsAgree`, that is, every invariant of the run `receiver`.

The inductive invariant adds two facts to the properties: `ConstructedInv` (only
objects that were made are created or owned, so an import gets a new one) and
`ImportInv` (the import's object is created when it is attached and destroyed when it
is popped, and what is popped is what was pushed, if `Stop` has left it). `PortsExclusive` and `PortAccounting` carry each other: a
port is given out because it is marked free, and it is marked free only if no created
device has it. The argument is made once per operation of the classes
(`DetachKeeps`, `DestroyKeeps`, `CreateKeeps`, with `LowestFree` for the choice of
`GetAvailablePort`), and the lemma of each action cites them.

* `StopDetachesAtRest`: `Spec /\ []Quiet => []StopDetachesAll`. The property that the run
  `receiver_stop` violates holds in every behaviour in which the receive thread imports
  nothing after `Stop` has cleared the vector (`Quiet`): the vector then stays empty, so
  by `NoPortLeak` no device is created and by `AttachedOnItsPort` none attached.

`UsbDevicesProofs` proves, for any set of devices (assumption: `None` is no object):

* `TypeCorrect`, `ListedDevicesAreReady`, `EveryHandleIsOwned` and
  `TakeDownIsOrdered`, that is, every invariant of the run `devices`.

Its invariant is `TypeOK /\ HandlesOwned /\ PhaseInv /\ OwnerInv /\ ClaimInv /\ OnceInv`.
`PhaseInv` says between which places of `main` the hot-plug thread exists and hence that
two threads never add at the same time, which the code has no lock for. `OwnerInv`
says who owns objects when, `ClaimInv` that at most one object has claimed a device
and that the listed ones have, `OnceInv` that no object is tried twice: arrivals are
unique in the queue, and the scan takes each device once. "Listed once" needs the two
together: two objects for one device cannot both be claimed, and one object cannot be
pushed twice. Steps that only move a thread share `MoveKeeps`, the four that destroy
objects share `DestroyKeeps`.

`UrbCaptureProofs` also proves `StatisticsAreTrue` (`Spec => []StatisticsAgree`). The
property counts the URBs of a part of a sequence that satisfy a predicate; `CountInv`
says the same of the sets of their indices, whose cardinality grows by one exactly
when `UpdateStatistics` counts one.

`UsbSenderProofs` proves, for any sets of connections, descriptor numbers, requests and
devices (assumptions: `None` is none of them, descriptors are numbers, requests are
the three that `UsbSender` handles):

* `TypeCorrect`, `HandlersReadTheirOwn` (`[]ReadsOwnClient`) and `DescriptorsAreHeld`
  (`[]NoDescriptorLeak`), that is, every invariant of the run `sender`.

Its invariant is `TypeOK /\ PhaseInv /\ HandInv /\ OwnInv /\ TableInv /\ ListedInv`. The
heart is `OwnInv` with its converse `TableInv`: as long as a thread has a descriptor
still to close, the number refers to that thread's connection in the kernel's table,
or to nothing once `Close` has closed it; and whatever is open in the table is in the
hands of such a thread. `accept` may give a number away again only when it is free,
which `TableInv` turns into "nobody holds it". `ListedInv` adds what `client_fds_` knows
of the live handlers: all of them, except those whose number was reused. `PhaseInv`
ties the flags and the listening socket to the place of `Close`, so that no number is
given out after `Close` has walked the vector.

* `HandlersCloseTheirOwn`: `Spec => [][ClosesOwn]_vars`. A step that takes an open
  descriptor away from a connection is the `close()` of that connection's handler, or
  `Close`. It is about the double close that a handler risks, because `Close` closes its
  number too and the kernel may have given it to somebody else by then: by `OwnInv` the
  handler finds its own connection under the number, or an empty entry.

`UsbipClientProofs` proves, for any bound on the connections,

* `TypeCorrect` and `EndsAccounted` (`[]EndIsAccounted`), the invariants of the run
  `client`.

`EndIsAccounted` speaks of the last state only; the invariant says of each place of `main`
what has been taken down on the way there. `CloseInv` is about one call of
`TcpSocket::Close`, `DestroyInv` about the destructors (the socket's runs when the
heartbeat thread is gone, and nothing comes up again after it), and `ReturnInv` about
the return addresses of `StopHeartbeat`, which is called by `Disconnect` and by the
connection callback, on two threads: without it, a return could lead `main` past
`Close`.

* `NoReconnection`: `Spec => []ReconnectionEnds`, from the second connection on, `main` is
  about to start the receive thread or the program is over. The run `client_reconnect`
  shows that a reconnection may end the program, the theorem that every one does:
  `receive_thread_` is joined by `Close` only, and a `Close` in the first connection always
  leads to the exit (`UnjoinedInv`).

The rest of `EndsAccounted` needs two more invariants. `DescriptorInv` counts: during the
first connection, the only one that can lead to an exit (`UnjoinedInv`), the open
descriptors are the one in `socket_fd_`, if any, and the one overwritten, if `Run` has
tried again; and `socket_fd_` is not empty before that, so that the first attempt always
overwrites one and no later attempt does. `SurviveInv` says for each place of `main`, as
long as the sender keeps the first connection, what the two other threads do (`Healthy`):
until `Close` the receive thread does not leave its loop, so only `main` joins the
heartbeat thread, and after `Close` there is none left to join.

The next three modules reason by induction over sequences. The library's induction
theorems have an operator as a parameter, which the provers cannot instantiate;
`SetInduction` and `UpTo`, at the head of the modules that need them, state induction for
a *set* of numbers and are derived from the well-foundedness of `<` (`LeastNatural`,
`GreatestUpTo`). From them follow the lemmas on `FlattenSeq`: that its recursive
definition has a solution, what it does to `Append`, `Head` and `Tail`, and that every
part lies contiguously at its offset (`FlattenOffsets`).

`MessageStreamProofs` proves, for any base, magic number, size limit, senders, messages
and bounds (assumptions: the magic number is two digits, the limit and all lengths are
digits):

* `TypeCorrect` and `BufferIsBounded` (`[]BufferBounded`), for any number of senders;
* `StaysInFrame`: `OneSender => (Spec => []StreamInFrame)`. The hypothesis is that the
  connection has one writer; with two, the run `stream_two` shows it to be false;
* `LoopMakesProgress`: `Spec => [][LoopShrinks]_vars`, every iteration that goes on
  shortens the buffer. This is the safety half of `ParseEnds`;
* `StreamIsChannel`: `OneSender => (Spec /\ [](LegalSizes /\ ~torn) => Channel!Spec)`, the
  refinement of `MessageChannel`. The hypotheses are the conditions under which
  `StreamInFrame` says something: one writer, no message over the limit, and no
  connection that ended inside a message. Beginning to send is `Accept`, an iteration
  that delivers is `Deliver` (by `MessageInFrame` it delivers the first of the messages
  under way), a connection that ends between two messages is `Lose`, everything else
  stutters.

The invariant is `TypeOK /\ SizesInv /\ BufferBounded`, where `SizesInv` says that the
messages sent and delivered have a length that fits in its field. `StreamInFrame` is
inductive by itself, but each step needs an argument about a stream cut in two ways (`SameStream`): as long as the
buffer, the wire and the unsent bytes together are the serialized messages to come
(`Framed`), a buffer that holds a full header holds that of the first of them
(`HeadInFrame`), hence its magic number, its length and its checksum are right, hence
none of the error branches is taken and what is delivered is that message
(`MessageInFrame`). That the checksum is a byte (`ChecksumType`) is an induction over
its recursive function, by `SetInduction`; beyond that the proof only uses that it is
a function of the payload, and it does not need that the bytes of a payload differ
from the magic number.

`MassStorageProofs` proves, for any configurations, media and bounds (assumption: a
configuration is a sequence of byte sequences, of which all but the last have the
length they state):

* `TypeCorrect` and `CapacityIsTrue` (`[]CapacityTrue`);
* `EndpointsAreFound`: `ConfigsWellFormed => (Spec => []EndpointsFound)`. A configuration
  is `WellFormed` if its full interface and endpoint descriptors have at least the
  sizes 9 and 7 that the USB specification gives them, no endpoint has address 0, and
  the last descriptor, if its length is not the stated one, states 0 or more than is
  there. All configurations of the run `mass_storage` are. Without it there is nothing
  to find: the fields of the descriptors lie outside of them.

`CapacityTrue` needs to know which answers are still under way. `QueueInv` relates the
commands and answers in the device: ids are unique, a command that is still to be
executed has no status yet, and data that are not true belong to a command whose status
is not 0 and never will be (`Doomed`). `CleanInv` is the argument why the fallback is
safe although the status of READ CAPACITY(16) is never read: in a clean session the
tags and, for the data, the lengths 32 and 8 tell the answers of the two commands
apart (`Told`). For `EndpointsFound`, `ParseInv` says that the loop of `FindEndpoints`
stands at the beginning of a descriptor, by `FlattenOffsets`, and what the loop knows
after `k` of them (`Seen`). The attempt to prove it showed that the property was too strong
as first stated: after a second mass-storage interface without endpoints,
`interface_number_` is the second's and the endpoints are the first's, so
`ClaimInterface` claims the wrong interface. `OneBulkInterface` now excludes this case
too, and the run has a configuration of this kind.

`UrbTransferProofs` proves, for any URBs and device lists as above and any bound,

* `TypeCorrect`, `OutUrbsSafe` (`[]OutUrbsArrive`), `ListsSafe` (`[]ListsArrive`),
  `ConfigurationSafe` (`[]ConfigurationInStep`) and `AnswersSafe` (`[]AnswersInOrder`),
  that is, every invariant of the run `urbs`.

The first part is about bytes: what `htonl` writes, `ntohl` reads back, at any offset of
a payload; every structure of an `Array` lies at its multiple of the width; hence
`HandleUrbSubmit` makes of the payload of a host-to-device URB a URB with the same
visible fields, `ParseDeviceList` makes of that of a list the same list, and what it makes
of a `UsbipRetSubmit` is never a host-to-device URB (its fourth word is the direction).
The second part is about `Pick`: what it does when a sequence grows by an element that is
selected, or by one that is not. The invariant is

    IInv == HistoryInv /\ DeviceInv /\ WireInv /\ ConfigurationInStep /\ AnswerInv

None of the properties is inductive alone: they compare what has been received with what
was captured and say nothing of the messages in between. `WireInv` does: there is a number `n` of URBs that have left the
wire such that the receiver has got the host-to-device ones among the first `n` captured
(`GotFrom`), and the wire is a merge of the messages of the remaining URBs and of the
lists after the last received, each in its order (`Flow`, with two counting functions as
witnesses). `HistoryInv` and `DeviceInv` give the types, and that nothing was attended
before the first import; `AnswerInv` is `AnswersInOrder` in terms of the responses and of
the URBs asked. A URB that is handled either adds nothing to the host-to-device URBs
(`IN`), or adds one to what was received and one to what was asked, and `Response` and
`SetConfiguration` are those of the captured one.

Only model-checked: liveness (`EveryUrbDelivered`, `Delivery`, `ParseEnds`,
`ConnectReturns`, `JoinsReturn`, `LossNoticed`, `ClientReleased`, `CloseReturns`,
`StopReturns`, `ArrivalsTried`), which is out of the prover's reach.

## 5. Not modelled

* libusb, the kernel, the command lines, logging and the file writes of sysfs:
  their results are nondeterministic choices.
* `ReverseClient`, `Buffer`, `UsbipManager::CreateVirtualDevice` and
  `RemoveVirtualDevice`, `ParseHeader`, `ParseRetSubmit`, `CreateUsbipResponse`,
  `CreateUrbSubmit`, `FindDevice`, `FindDeviceByPath`, `InterruptTransfer`,
  `SubmitTransfer`, `GetMaxLun`: no caller in the built programs. `data_callback_` of
  `MassStorageDevice` and `InjectUrb` have no caller either; `UrbCapture` models the
  capture as it works once something calls them.
* The handlers of interrupt and isochronous URBs: the client gives every URB the
  type control or bulk.
* A signal handler that interrupts a thread holding a lock, or that the kernel
  delivers to another thread than `main`: in `UsbDevices` `Stop` runs on `main` when it
  is idle, in the other models on a thread of its own.

## 6. Plan

Done, in this order: the capture with its abstract channel and its proofs; the
receiver's devices; the stream; the client's connection; the server; the URB path;
the sender's devices; the bulk-only transport; lost connections in the stream; the
proofs about the receiver's and the sender's devices; the proofs about the server, the
client, the stream, the bulk-only transport and the statistics of the capture; the
proofs about the URB path, the abstract channel of the stream, and the theorems that
tell when the violated properties hold or fail.

Left: a composition of the stream with the URB path, in which `wire` of `UrbTransfer` is
the channel of `MessageStream`; once `Send` works on the server's connections, a model of
the responses that would then reach the sender.
