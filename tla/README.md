# UN_Orion in TLA+

TLA+ modules beside the code of UN_Orion, a small x86 operating system: a UEFI
loader with an installer, a kernel without processes that polls its devices
from one loop, and a few interrupt handlers. The modules model the parts in
which order, failure and arithmetic at a boundary decide whether the system is
right; TLC checks them on small instances and TLAPS proves the main results for
every instance. `PROJECT.json` maps every definition to the lines it models and
lists the runs, the mutants that show each property can fail, the hazards and
the theorems. Paths below are relative to `src/`.

Run a model with `tlc -config MCDhcp.cfg MCDhcp`, check proofs with
`tlapm DhcpProofs.tla`.

## The system

| Component | State | Operations | What makes it right |
|---|---|---|---|
| Installer, `boot/main.c` | boot medium, disks, queued keys, copy position | two prompts with time-outs, target search, block copy, flush | only a disk the user agreed to erase is written; "complete" means complete; the live boot always goes on |
| Loader, `boot/main.c` | kernel image in memory, firmware memory map and key, `OrionBootInfo` | load segments, fetch map, leave boot services, jump | the kernel is whole; the boot info describes the map of the successful exit |
| Legacy BIOS chain, `compat/i686-bios` | real-mode registers, E820 buffer | read sectors, build boot info, enter protected mode | same contract as the UEFI loader |
| Main loop, `kernel/main.c` | none of its own | initialisation order, DHCP attempt, drain rings, poll, halt | input is served; boot never hangs on the network |
| Interrupts and PS/2, `kernel/interrupts.c` (+ `i686/`) | two rings, tick counter | three handlers, two pops, PIC/PIT/mouse set-up | rings are FIFO queues under any interleaving |
| Page allocator, `kernel/pmm.c` | scan position, recycle stack, counters | init, alloc, free | no page is lost, or handed out twice unless a caller frees what is no longer its own; failure means exhaustion |
| DHCP client, `kernel/dhcp.c` | phase, event, last lease, timers | acquire, wait loop, receive callback | all of one server's lease or nothing; bounded time and traffic |
| Network stack, `kernel/net.c` | addresses, gateway MAC, one transaction each of ICMP, DNS and TCP | resolve, send, handlers run from `net_poll` | next hop resolved; answers belong to their query; one stream delivered in order |
| HTTP, TLS, resources, `net.c`, `tls.c`, `net_resource.c` | current URL, response buffer | redirect loop, framing, chunk decoding | no downgrade; a truncated message is an error |
| Drivers, `kernel/netdev*.c`, `pci.c` | descriptor rings | init, tx, poll | a buffer is not reused while the device owns it |
| FAT16 and block devices, `kernel/fat16.c`, `blockdev.c` | mounted layout | mount, read root sector, find | the layout lies inside the device; the search finds what is there |
| Desktop, `kernel/desktop.c` | windows, focus, drag, mouse packet | key, mouse byte, tick, draw | packets stay framed; a drag ends with its button |
| Vela and Aster, `kernel/vela*.c`, `aster.c` | page, history, scroll | navigate, back, forward, parse, layout | history is bounded and consistent |
| Graphics, serial, libc, tools | frame buffer; none | drawing, I/O, image building | not a matter for these models |

Interaction. The loader hands `OrionBootInfo` and the memory map to
`kernel_main`; `pmm.c` reads that map. Interrupt handlers share two rings and
the tick counter with the main loop. The DHCP client and the network stack are
called synchronously and receive frames through a callback from `netdev_poll`;
time comes from the tick counter. Everything above is called from the main
loop, one call at a time.

What is hard to test here: an interrupt between two accesses to a ring; replies
of several servers that are late, doubled or out of order; a firmware that
changes the memory map between two calls; a failing write after half of a copy;
and the arithmetic of differing block sizes, clipped descriptors and partly
filled directory sectors; segments and answers of an earlier transaction; a
buffer, a ring or a history at its limit; and a poll that runs within a poll. The list, line by line, is under `hazards`.

## Modules

### DHCP: `Dhcp`, `LeaseAcquire`, `MCDhcp`, `DhcpProofs`

`Dhcp` follows `dhcp_acquire` and `dhcp_wait`. `pc` is the place in the code;
`phase`, `event`, `start`, `lastTx` and `rxLease` are the variables of the same
names in C; `config` is what `net_configure` has been given. The loop test
(`LoopTimeout`, `LoopEnter`), the transmission (`Transmit`) and the poll
(`PollFrame` per frame, then `TakeOffer`, `TakeAck`, `PollNak` or `PollAgain`)
are separate actions, because the clock moves between them. A lease is
abstracted to *who supplied each field*; that is what tells a mixed
configuration from a proper one. The network is a set of replies any of which
may be received at any time, any number of times or never. Servers are external:
a server acknowledges only a request that names it, any server may refuse one,
and replies to other clients are on the link too.

`LeaseAcquire` says what the rest of the kernel relies on: the configuration
changes at most once, as a whole, to what a server has granted.
The refinement maps `granted` to the servers with an acknowledgement on the
wire.

Bounds: two servers (a mixture needs two), `PhaseTimeout` of 2 and `Resend` of
1 so that retransmissions happen, three received frames (an offer, a wrong
reply and an acknowledgement), `MaxPhase` above the time-out so that it can be
overrun. A reply has every option or lacks the DNS server, so that a lease can be
put together from an offer and an acknowledgement; replies with other options are
covered by the theorems.

Fairness: weak fairness of the client and of the clock. The client is the only
thing the CPU runs; the PIT interrupts it periodically as `sti` precedes the
attempt. None is assumed of servers. `MaxFrames` limits the frames received,
which stands for a poll being finite: a link that delivers frames faster than
the driver consumes them would keep `netdev_poll` from returning.

### Page allocator: `Pmm`, `MCPmm`, `KernelProofs`

Addresses are page numbers; `scanOff`, `scanAddr`, `scanEnd`, `recycled` and
`used` are the static variables. `claims` (how many callers hold each page),
`stale` and `failed` are history variables. `AllocScan` is one whole call: the
next page ahead of the scan position that is not reserved, and the position after
it. An accepted free is the holder's (`Free`) or that of a caller which does not
hold the page (`StaleFree`); the code takes both alike. It recognises a double
free only while the page is on the recycle stack: if A frees a page, B is given
it, A frees it again and C is given it, then B and C both hold it.
`EveryPageOnce` says that this is the only way to a second holder, with one
holder more for each such free, and that no page is lost. A page that is still to
be handed out is outside the callers' contract (`CallersFree`): `pmm_free_page`
cannot tell it from an allocated one.
The instance has a descriptor below the 16 MiB floor, one across it, an empty
one, one of another type, reserved pages at the start, in the middle and at the
end of spans, and a recycle stack smaller than the memory; one stale free per
page (`MaxStale`) is enough for a page with two holders. `Counted` is the
counting loop of `pmm_init`, one descriptor per step of the recursion.

### Input: `InputLoop`, `InputQueues`, `InputLoopProofs`

A handler runs as a whole (the gates are interrupt gates), but between any two
accesses the main loop makes: `CheckRing`, `ReadSlot` and `AdvanceTail` are the
three accesses of a pop. Bytes carry their origin, and bit 3 of a mouse byte is
arbitrary except in a first byte. `InputQueues` is a bounded FIFO queue per device that refuses a
byte only when it holds `Size - 1`; `RingsAreQueues` states that the rings
implement it. `MCInputLoop.cfg` runs `InputLoop` itself with rings of three
slots, three keys and two packets, so that rings wrap, fill and drop.
Fairness: the main loop (a halt ends with an interrupt) and the PIT.
The i686 file has the same code.

### Installer: `Install`, `MCInstall`, `InstallProofs`

Every prompt, early return and loop of `offer_optical_install` and what it calls.
Bytes of the medium are numbered, so that a block in the wrong place shows.
Keys join the firmware's queue at any time; each one remembers whether the
warning was on the screen when it was typed. Firmware calls fail at will. The
media of the instance have block sizes that divide each other, that do not, that
have no common multiple below the limit, and sizes of zero; disks are too small,
protected, partitions, absent or silent, and there are two.
Fairness: the installer's steps; the wait for a key ends because of the timer,
or is not begun when the timer cannot be made.

### Loader: `Boot`, `MCBoot`, `BootProofs`

`gop`, `info`, `file`, `segment`, `bi`, `probe`, `map`, `get`, `exit` are the
places between firmware calls. Memory is a set of pages with what the loader
put there; pool allocations take any free page, so they may take those the
kernel is linked to. A change of the memory map gives it a new key, and the
map's length moves by at most `Grow` descriptors per allocation or release; that
`2 * Grow <= Slack` is the assumption under which the eight spare descriptors
are enough. `Churn` is the firmware changing the map by itself, at most
`MaxChurn` times: under a firmware that never stops the retry loop need not end.
Fairness: every call returns. A call that can succeed is never obliged to fail,
so that `BootEnds` holds because the retries end and not because an error ends
them; only a call without memory for it must return its error (`OutOfMemory`).
The instance has kernels of two segments, overlapping ones, malformed headers,
and firmware pages where a segment wants to be.

### FAT16: `Fat16`, `MCFat16`, `KernelProofs`

`Mount` is `fat16_mount` with its checks in the order of the code; the fixed
fields of the boot sector (signature, sector size, power of two) are one flag.
`Find` starts a search, `ScanSector` reads and scans one sector. Reads fail at
will, and `Change` exchanges the medium, during a search too. The range check of
`blockdev_read` goes by `BlockCount`, the `block_count` the device was registered
with, which an exchange leaves alone; how many blocks a medium really has is
`image.count`. The media of the run have fewer, as many and more. Two entries per
sector make partly filled sectors cheap; the cluster limits are scaled down.

### HTTP over TCP: `TcpClient`, `ByteStream`, `HttpGet`, `MCHttpGet`, `HttpGetProofs`

`TcpClient` has the variables of the synchronous client (`tcp_event`, the three
sequence numbers, the stream buffer) and one action per wait, per send and per
received segment; `HttpGet` extends it with `net_http_get` and
`tls_https_exchange`. `pc` is the place in the calls; a time-out may strike
wherever the code tests for one. The peer is a TCP that acknowledges what it
has received in order; whatever it could have sent up to now may arrive at any
time, any number of times or never, and so may segments of earlier connections,
under any sequence number. A piece of at most 1200 bytes that the client writes
is one unit of sequence space. A URL is its scheme. A response is one byte of
header, the body, and behind it the last chunk and the close_notify alert
where there are any. The record layer of BearSSL is external: it fails on a gap.

`ByteStream` is what callers can rely on: bytes of the connection's own stream,
once each and in order, with gaps only where the buffer was full. It says
nothing about the end, because a reset, a time-out and a FIN out of order look
like one. So completeness is up to the HTTP layer (`BodyWhole`), which judges it
for TLS and for a Content-Length only: a plain body without a length, or a
chunked one that ends between two chunks, passes as it is. Two details show in
the model: a SYN-ACK and data in one poll make `net_tcp_connect` fail (the event
is 3 by the time it is tested), and the spelling of a Transfer-Encoding that only
`tls.c` recognises leaves the chunk marks in the body. Two more make
`net_http_get` refuse a good response, which costs completeness and not
soundness: a byte order mark is taken off before the length is compared, so that
a body of exactly its Content-Length that begins with one counts as truncated,
and a chunked body with nothing in it counts as undecodable.

Bounds: sequence numbers modulo 12 with a peer that starts at 9, so that the
received ones wrap; a buffer of two bytes, a response of up to five; two pieces
per request; three connections, so that a late segment can meet a redirect.
`SizeMod` is larger than `Modulus` as on x86_64, where `seq+data_len` does not
wrap and a FIN behind data across the wrap is not counted. The numbers sent are
assumed not to wrap (`TcpAssumption`): from 0x13570000 plus the ticks that takes
460 days, after which `net_tcp_write` would compare wrongly.

### ARP, ICMP and DNS: `NetStack`, `MCNetStack`, `NetStackProofs`

The kernel is at one place (`at`): the main loop, a send that resolves its next
hop, a waiting loop, or a poll for one of them (`after`). A poll takes one frame
of the ring per step and the device fills slots in between. `prof` is the
configuration, `gwMac` the gateway's address, `dns` and `reply` the transactions.
Frames of the other network, late answers and doubled ones arrive at will.
An echo request from behind a next hop that is not known makes `handle_icmp`
resolve it, and `resolve_next_hop` polls: as all four drivers release a slot
after the callback, that poll is handed the same request again. `NestedPoll` is
one such activation: `wire.entered` counts the calls of `handle_frame`,
`wire.handled` those that returned. Since no later frame is looked at, nothing
ends the recursion but the stack (`StackFrames`), and the model stops there.
`RxInOrder` therefore speaks of frames whose handling returns: each of them, and
each before it, was given to `handle_frame` once. TCP cannot get there:
a connection is made only over a resolved gateway, and segments to another
address than the current one are dropped.

Bounds: two profiles, one with its name server on the link; two names
(symmetric), two calls, four frames through three slots, so that the ring wraps;
numbers and ports modulo 2, so that they collide one at a time.

### Virtio transmission: `VirtioTx`, `KernelProofs`

`tx` of `kernel/netdev_virtio.c` sends every frame through one buffer and one
descriptor. `txb_head` and `txb_tail` (the buffer `txb`, in two parts),
`desc_len`, `avail_idx`, `used_idx` and `tx_used_seen` are the C names;
`CopyHead`, `CopyTail`, `Publish`, `Confirm` and `Expire` are the steps of a call
between which the device runs: the copy goes byte by byte and the length is
written after it. The limits of both loops may be reached at any time. The device
is external: it takes the entries of the ring in order, reads the length and the
head of the buffer, later its tail, and completes an entry whenever it likes, so
that a frame on the wire can be made of two, either of which may be the newer.
Frames are numbered; `frames`, `confirmed`, `expired` and `wire`
are history. The run has indices modulo 3, six frames and up to four time-outs:
the indices wrap twice, and every order of late completions and later calls
occurs. Fairness: `tx` alone, whose loops are bounded; the device may be silent
for ever. `MCVirtioTx.cfg` runs the module itself.

The first loop of `tx` is marked "drain prior completion"
(`kernel/netdev_virtio.c:18`), but it waits while the used index differs from the
one seen, that is, while a completion is already there. After a time-out the
indices are equal, and the next call rewrites the buffer that the device still
owns: the frame before is sent in part or not at all, and the later one twice, or
the head of the later with the tail or the length of the earlier. `WireInOrder`
says how far this goes: no part is older than the frame of its entry or than the
same part of an entry before, and a tail older than its head is of the frame just
before. A second consequence is proved rather than
run, `TxOutOfStep`: `tx` waits for one value of the used index. If two frames are
overdue at once and both are completed before it looks again, the index has
passed that value, and every later call times out although the device sends the
frame, until the index has gone round.

### Browser and desktop: `Vela`, `Desktop`, `DesktopProofs`

`Vela` is navigation: each level of `navdepth` is one step, which fails, shows
the page, or shows it and follows its script. `Desktop` extends it: a press, a
release, a turn of the wheel and a key are the actions, and those on the browser's
window are Vela's. Nothing else happens while a page loads, as in the kernel.
Geometry is left out: any window that is shown may be hit, in any part. `z` is
the rank of each window's `z` field, which is all that `top_window_at` compares.
`ShownIsCurrent` names its exceptions, which the code has: reloading an edited
address, scripts that redirect during back, forward or reload, and a document
loaded without an address (`vela_load_html`) leave a page that is not the
history's. The same goes for `DragHeld`: a packet in which the
wheel turns over the page is not searched for a release. `MCDesktop.cfg` has three
windows, two pages and a history of three. This module has no type invariant of
its own; `ShownIsCurrent` bounds index and history.

## Runs

| Run | Shows |
|---|---|
| `dhcp` | `LeaseAgreed`: a configuration in use is all of one server's acknowledged lease, or all static. `FallbackJustified`: the static profile is kept for a cause only. `BoundedRetransmission`: even if the clock ticks at the worst places. `ImplementsLeaseAcquire` and `AcquireTerminates`. |
| `pmm` | `EveryPageOnce` (one holder per page, and one more per free by a caller that did not hold it), `UsedCountsHeld`, `FailsOnlyWhenExhausted`, and `FreePagesCover`: the number reported as free is never below what can be allocated. |
| `input` | `RingsAreQueues`, `PacketsFramed` (as long as no mouse byte was dropped), `InputIsServed`. |
| `install` | `OnlyConsentedErase`, `PrefixCopied` (after every failure the target holds a prefix of the medium followed by its old content), `CompleteMeansInstalled`, `InstallAdvances` (every step but a keystroke brings the live boot nearer), `InstallEnds`. |
| `install_type_ahead` | a violation, see below. |
| `boot` | `KernelIntact`, `HandedOver`, `ReplacedOnlyForFirmware`, `BootAdvances` (every step but a change of the map by the firmware brings the end nearer: the retry loop is not kept going by its own allocations), `BootEnds`. |
| `fat16` | `FindAgrees` with a reference definition; `LayoutInside`: what is mounted lies inside the device's block count, whatever the medium. |
| `http` | `ImplementsStream`: reading is a byte stream. `WriteReached`: success of a write means the request has arrived. `NoDowngrade`: no redirect leaves HTTPS. `BodyWhole`: over TLS, or with a length, a body delivered is the whole body, less its byte order mark and with the last chunk where only `tls.c` recognises the coding. |
| `net` | `AnswerIsForQuery`: an answer for another name is taken only if both lookups had the same number and port. `FramesToGateway`: no packet goes to the gateway of another profile. `RxInOrder`: frames whose handling returns are handled once, in order. |
| `net_local_dns` | a violation, see below. |
| `virtio_tx` | `WireInOrder`: every frame once, in order and whole as long as no call timed out; after time-outs mixtures of two frames, with the limits given above. `DeviceBehind`: no more successes than completions. `TxReturns`. |
| `shell` | `ShownIsCurrent`, `ActiveOnTop` (keys and strokes go to the uppermost window), `DragHeld`. |

`TypeOK` is the type invariant of a module; `net` and `http` check theirs, where
it says that nothing overruns a ring or a buffer, and those of the other modules
are theorems. Deadlock is checked everywhere; a finished attempt, an exhausted
stack and a machine that was shut down stutter explicitly.

**Disagreements found.** The installer prints "ALL DATA ON IT WILL BE ERASED"
and "Press Y within 10 seconds to confirm." (`boot/main.c:186-187`), but
`read_key_with_timeout` takes the oldest keystroke the firmware has queued and
nothing empties that queue. `I` and `Y` typed during the first prompt erase the
disk without the warning having been on the screen. `ConfirmedAfterWarning`
states what the text promises; TLC's counterexample has two keys.

The README's default profile has its name server, 10.0.2.3, inside the subnet
(`README.md:98-100`). `resolve_next_hop` asks for that host's address and
`handle_arp` sees the answer, but only the gateway's address is ever kept
(`kernel/net.c:56`, `59`, `92`): the query is never sent and the lookup times
out. `GivesUpOnSilence` states that a next hop is given up only if it did not
answer; TLC's counterexample is one ARP frame and one lookup.

## Proofs

Most are invariance proofs of the shape Init, step, consequence, for every value
of the constants that satisfies the `ASSUME` of the module; action properties and
refinements follow per step from the invariant.

*DhcpProofs* (`ConstantsAssumption`: times are positive, `None` and `Static`
are no server).
`LeaseAgreed` is not inductive. `IInv` adds that replies to this client
carry one source (`WireInv`), that the received lease does too and was wanted in
its phase (`RxInv`), that the offer kept is usable (`OfferInv`), and that all
requests sent name the server of that offer (`RequestInv`): hence the only
server that can have acknowledged is the one whose offer is overlaid, which is
why the missing comparison of the two in `dhcp_rx` does no harm with servers
that keep to the protocol. `Refinement` maps each action to an abstract step or
a stutter with the same invariant. `RetransmissionBound` rests on `TimeInv`:
transmissions are `Resend` apart, and a pass beyond the loop test found the
latest one inside the phase.

*KernelProofs* has three parts. Page allocator (`PmmAssumption`: descriptors do
not overlap). `IInv` adds that the span being scanned is the rest of a
conventional descriptor (`ScanInv`), that the stack holds no page twice
(`StackInv`), that pages on loan, recycled and unscanned partition the
allocatable ones (`Partition`), and that the holders of a page exceed its stale
frees by one if it is on loan and by none otherwise (`ClaimsInv`). With these, the
page a scan returns is neither on loan nor recycled, and an empty scan leaves
every page on loan. `TotalExact` says that `pmm_init` counts
every conventional page above the floor once: a memory map of any length, hence
an induction, which is done by least counterexample (`Least`: a set of natural
numbers that is not empty has a least member). The same lemma gives the equations
of the recursive function `Counted`. `FreeCountCovers` follows from it and from
`UsedCountExact`.

FAT16 (`Fat16Assumption`). `VolumeInv` says that the mounted layout is the one the medium's boot sector
gives as long as the medium is the same, and `SearchInv` that the entries
already passed hold neither a match nor an end mark. So a hit is the first one
(`FirstHit`), and a search that ends has passed every live entry (`NoHitAtAll`,
`NoHitBehindEnd`).

Virtio (`VirtioAssumption`: indices of at least one bit). `CardInv`: each index
is the count of a history modulo `Wrap` (`IndexInv`); every frame published was
confirmed, has expired or is waited for (`CountInv`); the parts of the buffer
hold the newest frame or, during the copy, the one before, what the device has
read being at least as new as the entry it has taken (`BufferInv`); and nothing
sent is newer than the buffer (`SentInv`). Without a time-out the counts leave the device
one frame at most, the one in the buffer; this is the first half of `TxInOrder`.
`Confirm` needs no more of the arithmetic than that an index and its successor
differ; `TxOutOfStep` needs that counts less than `Wrap` apart do.

*BootProofs* (`BootAssumption`). `IInv`: loaded segments keep
their pages and contents (`SegmentsInv`), which stages have an entry point
(`StageInv`), the loader's buffers are allocated and distinct (`BuffersInv`),
the map in the buffer belongs to the key (`KeyInv`), and a buffer that has
become too small was overtaken by the firmware (`CapacityInv`). `BootProgress` is
the safety half of `BootEnds`: `StepsLeft` is a natural number that falls with
every step between two changes of the map by the firmware.

*InputLoopProofs* (`InputAssumption`: rings of more than one slot, packets of
three or four bytes). `SlotInv` says that between its test of a ring and its
update of the tail the main loop owns the slot at the tail: the ring is not empty
and the byte read is still the one in that slot, whatever handlers ran in between.
With it each handler is an `Accept` or a `Refuse` and `AdvanceTail` is the `Take`
of `InputQueues`; the other accesses stutter (`Refinement`). `Framing` needs
`PacketInv`: as long as no mouse byte was dropped, the packets handled, the packet
begun, the byte in hand and the ring's contents are together all the mouse's
bytes, counted through without a gap.

*InstallProofs* (`InstallAssumption`). `Inv` ties each stage of the dialogue to
the answers given (`AnswerInv`) and to the one suitable disk (`TargetInv`).
`CopyInv` is the heart of `Prefix`: both block numbers stand for the bytes
copied so far, and the chunk and what remains are whole blocks of both media,
whatever the two block sizes are. `ContentInv` and `ReportInv` carry that to the
disk's content and to the final message. `InstallProgress` does for `InstallEnds`
what `BootProgress` does for `BootEnds`; that a pass of the copy is never empty
is the part that needs `CopyInv`.

*NetStackProofs* (`NetAssumption`: names are neither of the two numbers that
mark the absence of one). `Shape` fixes which fields a
pending call and a frame have at each place of the code and `CallInv` how a poll
returns to it. `GatewayInv`: a known hardware address is that of the current
profile's gateway. `AskedInv`: the number and port of the open lookup are on
record, and so is what every answer on the link answers. `RingInv`: the slots
from the driver's position to the device's hold the frames not yet handled, in
order of arrival. `NestInv`: `handle_frame` was called once per frame handled,
until the first recursion; from then on the oldest slot holds the frame that
recurs, and the driver stays there. The action property `RxInOrder` follows per
step.

*DesktopProofs* (`DesktopAssumption`: finitely many windows). `VelaInv`: index and
length of the history stay in bounds, a load in progress knows the entry it will
end at, and a page that no exception has touched is that of the current entry
during a load as well. `DeskInv`: the ranks of the windows are distinct, so that
raising one leaves exactly it on top.

*HttpGetProofs* (`TcpAssumption`: the numbers the client sends do not wrap, and
`size_t` is as wide as a sequence number or wider; `HttpAssumption`: a response
is shorter than the sequence space, and a local port is not used twice within
the bound on connections). `CountInv`: what is acknowledged has arrived, and the
numbers sent count the pieces. `PortInv` keeps segments of earlier connections
out. `PeerInv`: the received number, as an `Offset` from the peer's first one
modulo the sequence space, stands for bytes of its stream, or for its FIN behind
the last one; the FIN test in `size_t` arithmetic never counts one elsewhere
(`FinBehindLast`). `PosInv`: byte k of the stream stands in the k-th place of
what was read or buffered, or earlier by at most the number of bytes lost. Hence
the two arguments of `WholeBody`: over TLS nothing is judged before it is
complete and without a gap (`JudgeInv`); in the clear, as many bytes as the
length announces are all that the peer sent, so none of them was lost. For
`Refinement` each segment is shown to take the bytes that follow, as far as
there is room, or nothing (`StreamStep`).

`FallbackReason` in *DhcpProofs* adds `EventInv`: an event stands for a reply on
the wire to this client, and the received lease is that reply's.

Only model-checked: liveness (`AcquireTerminates`, `InputIsServed`,
`InstallEnds`, `BootEnds`, `TxReturns`), since the prover has no rules for
fairness. Every other property of a passing run is also a theorem.

## Not modelled

The legacy boot chain; the initialisation of the drivers and the transmit rings
of the three that have several buffers; the handshake, records and cryptography
of TLS, which are BearSSL's; images and `net_resource.c`; scrolling, drawing and
geometry; the PS/2 wheel negotiation.
Hardware set-up, serial output, PCI configuration, string helpers, the build
tools and tests have no behaviour over time that a model would say something
about. `blockdev_write`, `vela_load_html` and `pmm_free_page` have no caller in
the kernel; the last two are modelled since later callers will rely on them.

Known limits. The models have these and no property excludes them:
`pmm_free_page` accepts a second free of a page that was handed to another caller
in between, which then shares it with the next one (`kernel/pmm.c:65-70`); an echo
request from a host whose next hop is unknown recurses until the kernel's stack is
exhausted (`kernel/net.c:96`, `54-60`); after a time-out the virtio driver may
send mixtures of two frames; a packet of the mouse in which the wheel turns over
the page hides the release of the button, and the window stays on the pointer
until the next release; a body of exactly its length with a byte order mark is
refused. Not in the models: `pmm_free_page` accepts a page that was
never handed out (callers are assumed not to do that); after a dropped mouse
byte packets may be framed from two; the 64-bit tick counter is read in two
halves on i686; the firmware is trusted to answer a size query with "buffer too
small"; `fat16_mount` does not compare the size of the FAT with the number of
clusters; an echo reply is recognised by its identifier alone, so that a late
one answers a later ping; relative links are resolved against the address as
edited, not as loaded.

## Plan

Modelled: DHCP, allocator, input, installer, loader, FAT16, TCP, HTTP, ARP, ICMP
and DNS, virtio transmission, browser navigation, windows. Left, in this order:

1. The transmit rings of the other drivers: the e1000 and the pcnet refuse a slot
   the device owns, the rtl8139 takes its four slots without asking.
2. `MouseInit` negotiation; the E820 conversion and load loop of `stage2.S`;
   the option parser of DHCP against a reference.
