# Verification of the USB CDC stack

TLA+ models of the USB CDC serial-port stack and of the packet API that runs on
it, the TLC runs that check them on small instances, and theorems about the
core that TLAPS checks for every buffer size, packet size and amount of data.

## 1. The system

Two firmware families offer the host a virtual serial port: STM32 (`stm/`, a
patched ST class driver) and TI Tiva (`ti/`, patched TivaWare). On the port runs
either an echo application or the packet API of `common/`, which the Python
tools of `tools/` talk to.

| Component | State it keeps | Operations | Talks to |
|---|---|---|---|
| Ring helpers (`common/ring_buff.h`) | none | size, contiguity and wrap arithmetic | used by everything below |
| OUT pipe (`stm/patches/usbd_cdc_core.c`) | receive ring with a varying size, `USB_Rx_Active` | `DataOut`, `try_start_rx`, `schedule_cdc_out` (interrupts) | endpoint below, VCP above: shared indices |
| IN pipe (same file) | transmit ring, `USB_Tx_Active` | `DataIn` with its zero-length packet, `schedule_cdc_in` (interrupts) | as above |
| VCP layer (`usbd_cdc_vcp.c`) | none | `VCP_Get`, `VCP_Put`, `VCP_Echo`, the `Avail` and `Mark` calls (main loop) | short sections with interrupts off |
| USB driver (`stm/lib`, vendor) | endpoint transfer descriptors | `DCD_EP_PrepareRx`, `DCD_EP_Tx`, FIFO handlers | calls the class driver from the interrupt |
| Packet API (`common/api*.c`) | parser state, current packet, endpoint context | `api_process` and one callback per operation | `com->get`, `com->put` |
| TI buffers (`ti/patches/usbbuffer.c`) | a ring each way, size of the last packet | `USBBufferWrite`, `USBBufferRead`, ... (main loop); `HandleTxComplete`, `HandleRxAvailable` (interrupts) | class below, application above |
| TI CDC class (`ti/patches/usbdcdc.c`) | transmit state, `ui16LastTxSize`, deferred operations, `bRxBlocked` | endpoint interrupts, class requests, the tick, configuration | TivaWare (not in the repository), buffers above |
| Host tools (`tools/`) | sequence number, serial timeout | `send_packet`, stream reads, `flush` | the serial port |

What is hard here:

* **Interleaving.** The main loop samples a ring, copies bytes, and publishes the
  result in three separate steps. Between any two of them, and between any two
  bytes of the copy, an interrupt may change the same ring: `try_start_rx` can
  move the head, the tail *and the size*.
* **The varying ring.** A packet must be received into one piece of memory. When
  too little is left before the end of the buffer the driver closes the ring at
  the head and goes on at index 0; it opens the ring again later.
* **Stop and restart.** With no room for a packet reception stops, and only the
  start-of-frame interrupt restarts it. Transmission likewise starts only there.
* **The end of a transfer.** After a full packet the host waits for more until it
  sees a shorter one, so a zero-length packet may be due.
* **Assertions that halt the device.** `api_process` asserts (`BUG_ON`) that
  `VCP_Get` and `VCP_Put` move all they were asked for; every endpoint callback
  asserts that it is not called for an operation that has ended.
* **Sessions.** The ring's indices outlive a bus reset and a reconfiguration; the
  packet parser outlives the program that was talking to it. A tool may be ended
  in the middle of a message, and the next one starts by writing a flush.
* **The tick.** On TI a packet that finds no room, or comes while reception is
  blocked by a deferred request, raises no second interrupt. Only the tick comes
  back to it, and only while a flag in `ui16DeferredOpFlags` is set.
* **Operations in pieces.** A request stops whenever the receive ring is empty or
  the transmit ring full, and goes on in a later call of `api_process`.

## 2. Modules

| Module | Models | How |
|---|---|---|
| `RingBuff` | `common/ring_buff.h` | one operator per function |
| `UsbFrames` | the frame counter of `usbd_cdc_SOF` | one variable |
| `ByteStream` | what a pipe promises: a bounded FIFO | abstract specification |
| `CdcOut` | OUT pipe, its endpoint, and the VCP calls that look at it | handlers as actions; no main loop |
| `CdcRx` | `CdcOut` with the reader of the packet API | `VCP_Get` in its three steps, skipping in its two |
| `CdcIn` | IN pipe, its endpoint and the host that polls it | handlers as actions; no main loop |
| `CdcTx` | `CdcIn` with the writer of the packet API | `VCP_Put` in its three steps |
| `CdcEcho` | both pipes with `VCP_Echo` between them | five steps; the frame interrupt serves both pipes |
| `CdcSession` | `CdcRx` over several configurations of the device | bus reset, suspend, resume, `SET_ADDRESS`, `SET_CONFIGURATION` |
| `TiRing` | the ring of TivaWare, as `usbbuffer.c` uses it | external; in terms of `RingBuff`, whose arithmetic it shares |
| `TiLink` | the connection as the TI class sees it | bus reset, disconnection, configuration |
| `TiTx` | the transmit buffer over the TI class, its writer and the host that polls | completion, `ScheduleNextTransmission`, `USBBufferWrite` in its steps, sessions |
| `TiRx` | the receive buffer over the TI class, its reader and the host's class requests | packets, deferred operations, the tick, `USBBufferRead` in its steps, sessions |
| `ApiDevice` | `common/api.c` and its buffer, stream and sequence endpoints | one action per call of `api_process` |
| `ApiHost` | `ApiDevice` with the host's driver and the programs over `elink_api.py` | one action per library call that may block |
| `MCCdcRx`, `MCCdcTx`, `MCCdcEcho`, `MCCdcSession`, `MCTiRx`, `MCTiTx`, `MCApi` | instances for TLC | values for the bytes nobody wrote; the requests of each run |
| `CdcOutProofs`, `CdcInProofs` | theorems about `RingBuff`; lemmas: each handler preserves `OutInv`, `InInv` | used by the next three |
| `CdcRxProofs`, `CdcTxProofs`, `CdcEchoProofs` | theorems about `CdcRx` and `CdcSession`, `CdcTx`, `CdcEcho` | section 4 |
| `TiRxProofs`, `TiTxProofs` | theorems about `TiRx`, `TiTx` | section 4 |
| `ApiProofs` | theorems about `ApiHost` | section 4 |

Composition: `CdcRx` and `CdcEcho` extend `CdcOut`; `CdcTx` and `CdcEcho` extend
`CdcIn`; all three instantiate `ByteStream` under a refinement mapping.
`CdcSession` extends `CdcRx` and reuses every action of it. `TiTx` and `TiRx`
extend `TiRing` and `TiLink` and instantiate `ByteStream` too. `ApiHost` extends
`ApiDevice`; the two pipes between them are sequences of bytes, which is what
`ByteStream` promises and `CdcRx` and `CdcTx` are shown to keep: `VCP_Get` and
`VCP_Put` move all that was seen to fit. Only the order of the bytes matters to
`ApiDevice`, so it stands for `ti/usb_cdc_api` as well: `TiRx` and `TiTx` keep the
same promise within a session, `ReadUnspoilt` and `WriteComplete` being the
counterparts of `ReadComplete` and `PutComplete`.

### How state and steps correspond to the code

A variable `rx_head` is `USB_Rx_buff_head`, and so on; the comment beside each
declaration names its C variable. The endpoint is abstracted to a transfer state:
`rx_ep` is `nak`, `armed` or `full`; `tx_ep` is `idle`, `load`, `ready` or `sent`.

An action is one interrupt handler, one section with interrupts off, or one byte
of a `memcpy`. The microcontroller has one core and all USB events come through
one interrupt, so nothing finer can be observed. Since the main loop cannot run
while that interrupt is pending, the FIFO-empty interrupt that copies a packet
out of the ring always comes before the next step of the main loop (`MainRuns`);
other handlers may still come first.

Data bytes are numbered: the k-th byte sent *is* the number k. The program never
looks at them in these modules, so this loses nothing, and it turns "in order,
each exactly once" into an equation. Bytes that no one has written hold `JUNK` or
`BLANK`. The FIFO is popped by whole words, so the last word of a packet may spill
past it; the model overwrites those slots with `JUNK`.

**Sessions.** `device_status` and `device_config` are the fields of those names;
`ep_active` says that the data endpoints are set up, which is not the same: a
resume makes any device "configured". The endpoint takes packets, and completions
reach the class driver, when both hold (`Live`); the start-of-frame callback runs
whenever there are frames, the main loop always. A suspension takes 3 ms of
silence, by when no completion is pending. `usbd_cdc_Init` sets a
reception up at index 0 and leaves the indices alone. `quiet`, `began` and
`first_end` are history: whether the ring was empty when the session began, and
which bytes its first packet brought. `overlong` is history, too: a skip was marked
that was longer than the ring had become. Such a skip may take the tail to an index
the ring does not have; what the unsigned differences of `ring_buff.h` give from
there on is not modelled, and the model ends there (`TailInRing`).

**TI.** A variable has the name of its C field where it has one
(`ui32LastSent`, `ui16LastTxSize`, `bConnected`); `tx_busy` is the transmit state of
the class, `deferred` the set of bits in `ui16DeferredOpFlags`. The endpoint is a
FIFO and a state: `in_ep` is `empty`, `ready` (the host may take the packet) or
`sent` (the interrupt is pending); `out_rdy` is `USB_DEV_RX_PKT_RDY`.

A byte stays in the transmit ring until its completion, so the interrupt moves the
read index and the main loop the write index, as in STM32, but
`ScheduleNextTransmission` runs in both, with interrupts off. The main loop's
copies are one step per byte: `USBRingBufRead` and `USBRingBufWrite` move the index
with each byte and do not look at the other index again. A read therefore goes on
where a flush has put the index meanwhile, and that is modelled: `ControlHandler`
flushes both rings in the interrupt of a new session.

`HandleConfigChange` may find a packet in an endpoint, or its interrupt pending.
Whether the controller keeps it through the reset is not in the repository, so both
are allowed. `spoilt` is history: it marks the states in which a packet was under
way when the device was configured (`TiTx`: until a transfer has ended since;
`TiRx`: until the next announced session). The properties say precisely what holds
outside these states, and which of them hold inside as well.

In `TiRx` the tick comes once per millisecond of a break, and class requests come
on endpoint 0 at any moment, the data of a `SET_LINE_CODING` later than the
request. `asked_at` and `owed` are history: how much had been sent when the oldest
deferred request came, and of which operations the application has yet to be told.

**The packet API.** A byte is a number below 16, and the response flag is 8 where
the code has 0x80. `HDR` is 7: every field of `struct api_pkt` is one byte, so a
stream of bytes cut anywhere can be taken for any header, as in the code. `state`,
`pkt_buf` and `ctx` are the fields of `struct api`; `halted` says that a `BUG_ON`
has fired. An action is a call of `api_process` from its samples to its return: the
pipes can only gain data and room while it runs, and it is written to move no
more than it had sampled, so later arrivals are as good as arrivals after it.
Endpoints 0, 6 and 7 are those `api_init` registers; endpoint 1 is a buffer that
an application registers, so that `api_buf_wr` is reached.

On the host, `h_state` is the place in the library: flushing (`flush`, `drain`),
between requests (`flushed`, `ready`), or inside `send_packet` (`write`, `header`,
`payload`). `Exit` ends the program at any of them, `Open` starts the next. The
record `known` is what a program can conclude from the answers it got, which is
what `elink_api_test.py` asserts about them. `astray` is history: the things that have
happened so far after which device and host may disagree (section 4).

Offsets are 32-bit numbers in the code. `WORD` stands for 2^32, and the sum of
offset and length that `api_buf.c` compares with the size of the buffer is taken
modulo `WORD`. A region that is accepted and leaves the buffer reads whatever is
there (`Around`: any byte of `OUTSIDE`); what a write to it changes outside of the
buffer is not modelled.

Definitions introduced by a comment "A slip: ..." are not part of the model. Each
is the definition that follows it with one plausible mistake; no specification
uses them. They are there to show that a property notices the mistake.

## 3. What is checked

| Run | Instance | Shows |
|---|---|---|
| `rx` | ring 8, packets 0..2, 14 bytes, reads of 1..3 | reception is a FIFO; the window of the next packet is safe; what is being copied stays as it is; `VCP_Get` is complete; reception restarts |
| `tx` | ring 6, packets up to 2, 13 bytes, writes of 1..4 | transmission is a FIFO, and every byte reaches the host; packets are whole; empty packets are sent exactly when due, so every transfer ends; `VCP_Put` is complete |
| `echo` | rings 4 and 4, 9 bytes | the echo is a FIFO from the host to itself, and every byte comes back |
| `session` | ring 7, packets of 0, 1 or 3, 12 bytes, skips of 1 byte or all, 2 sessions, suspended at any moment | indices stay in the buffer until a skip longer than the ring is marked; a session that begins with an empty ring spoils its first packet at most; reception that stops in a session starts again |
| `session_fresh` (violated) | ring 6, 2 sessions | the first packet of a second session is read from the wrong place |
| `api_streams` | 3 programs, 6 requests to the echo and sequence endpoints | no assertion fires; host and device are in step after a flush; streams are exact |
| `api_buffers` | 3 programs, 4 requests to buffers, a write too long, refused ones and one that wraps around | buffers read as written, refusals say why; no assertion fires, host and device are in step and answers are one's own until something is recorded in `astray`; opening ends; every request is answered |
| `api_short_flush` (violated) | `api_streams` with a flush of 11 bytes | a flush as long as the comment asks for does not resynchronise the device |
| `api_empty_read` (violated) | reads of 0 and 1 bytes of the sequence | a read of nothing halts the device |
| `ti_rx` | ring 3, packets 0..2, 4 bytes, 2 class requests, 2 sessions | no packet is forgotten, blocked or not; data and requests keep their order; every byte is read; the application is told of every line coding and line state, every break is over some time, and only a break is ever dropped; only a flush makes a read fall short; reception is a FIFO |
| `ti_tx` | ring 6, packets up to 2, 8 bytes, 3 sessions | what the class, the endpoint and the ring know agrees; a byte leaves the ring only when the host has it; every transfer is closed and everything written is sent; transmission is a FIFO |
| `ti_tx_stale` (violated) | the same with 6 bytes, 2 sessions | after a session that ended with a packet under way, bytes are removed from the ring unsent |

The four runs marked violated are the project's findings: each checks one property
that a comment, an assertion or a test of the repository states, and TLC shows how
the code breaks it. `PROJECT.json` quotes the line under `findings`.

The properties, and the mistakes they guard against, are listed in
`PROJECT.json` under `hazards`.

The type invariants of reception are checked by `rx` and `ti_rx`; those of transmission,
of the same rings, are proved only (`TypeCorrect` of `CdcTxProofs` and `TiTxProofs`).

Three more places where the code does not do what one would expect are part of the
models, and the properties make an exception of exactly them: the tail may leave the
ring after a skip (`overlong`; section 4, Sessions), a buffer access that wraps around
may be accepted (`"wrap"` in `astray`; section 4, What leads astray), and a deferred
break may be dropped (below).

**What the TI patches are for.** `Drains` holds, and fails as soon as the end of an
empty packet is not reported to the buffer, which is what the original did
(`usb_stall_bug.txt`; the slip `SilentEmptyPacket`). `PacketAgrees` and
`TransfersClosed` need `ScheduleNextTransmission` to be one step, the other patch.
`Drains` is stated for sessions the application has heard of. If the host resets
and configures the device without a disconnection between, nobody flushes the
ring; if it is full then, and the packet under way was dropped with the reset, the
writer has no room to write, so nobody calls `ScheduleNextTransmission`, and
transmission stands still until the cable is pulled. `OnlyFirstSpoilt` and
`FreshSessionOK` are the corresponding story of the STM32 driver; with a ring left
full, its first packet takes the head past the tail, and a `VCP_Get` then returns
fewer bytes than were seen.

**A read under a flush.** `ReadComplete` of `TiRx` is not an invariant: in the
interrupt of a new session the ring is flushed, and a main loop that has just seen
bytes available gets none, on which `api_process` halts the device. `ReadUnspoilt`
shows that nothing else does this.

**The order of data and requests.** `NotOvertaken` shows that data sent after a
request is not received before it, not even if a new session comes in between: a
deferred request survives a reconfiguration, and so does the block. The other
direction holds as the code defines "received": a request may be carried out as soon as the *ring* is empty, although an
earlier packet still waits in the endpoint (the comment at `usbdcdc.c:1343` speaks
of data the client has read). The applications ignore these events.

**What becomes of deferred requests.** `Notified` says that a line coding or line
state the host has asked for is told the application some time, and that a break
that is on or deferred is over some time; `OnlyBreaksLost` that what the application
has not been told of is still deferred, unless it is a break. A deferred break may be
dropped: the flag that stands for it is reset with the end of an earlier break
(`usbdcdc.c:1988`, although the comment at 746 says of such a call that the operation
is "retried on the next timer tick"): let a break begin while the ring is empty, a byte
arrive, and a second break be deferred for it; the tick that ends the first one resets
the flag of the second. So `Notified` does not claim that it begins. And one of length zero,
which would end a break if it could be carried out at once, begins one if it was
deferred. The applications ignore breaks.

**Bounds.** `MaxBytes` bounds the bytes sent; it is the only thing that makes the
state space finite. It is larger than the ring in every run, so the ring wraps,
is closed early and is opened again. `usbd_conf.h` has rings of four packets
(256/64) and of two (1024/512): `rx` checks the former ratio, in which the ring is
closed at different indices and becomes full with and without a tail at 0; `echo`
the latter, in which every packet is a matter of restarting. `MaxRead` and
`MaxWrite` exceed the packet in `rx` and `tx`, so calls cross the end of the ring.
The TI buffers are four packets of 64 in 256 bytes with one slot unused: `ti_tx`
has two packets and a half, so packets straddle the end of the buffer at each
offset; `ti_rx` has room for one packet, so a second is read in part or not at all,
and straddles the end as well. Two requests let one be deferred behind another, or
be carried out at once while the other waits; two sessions let the block outlive
the session it was set in; three sessions of `ti_tx` let the leftovers of two
add up.

The run `session` configures the device twice, the second time with whatever the
first session has left. Its ring has room for two packets of 3 and one byte more:
there, other than in a ring of 6, an overlong skip can take the tail out of the ring,
when a skip of 6 is marked in a ring that was closed at 5. To make up for the size its
main loop never enters `VCP_Get`, and skips one byte at a time or all there are
(`SkipsOnly`), and packets are empty, hold one byte, or are full (`FewSizes`).
`VCP_Get` moves the tail no further than a skip of as many bytes does, and what it
copies is the business of `rx`. In the run `session`,
`CDC_IN_FRAME_INTERVAL` is 0: a frame
interrupt may then do its work at any time, which includes every other spacing.
Its ring is not a whole number of packets, so that a packet ends next to the
buffer's end as well as at it.

The API runs give each pipe 8 bytes, one more than a header, so that every answer
with a payload and every request with one is cut at least once; the echo buffer
and the chunk of the sequence hold 2 bytes, less than the longest request; a
program's sequence numbers go round after 4. `MaxSessions` and `MaxRequests` bound
the programs and the requests in all; three programs give one that is cut short,
one that finds its remains and may be cut short while it flushes, and one that
finds the remains of both. `WORD` is 17, so that the offset of 15 with a length of 2
or 3 wraps around and flush bytes in all places of an offset and a length do not, as
they do not in the code (0x80808080 + 0x8080).

**What a flush must be.** In the model a flush of 13 bytes or more works and 12
does not: the 2 bytes that may have been written of a header's operation and
endpoint are completed by 5 flush bytes, which announce a payload of 8. In the
code these are 14 and 0x8080 = 32896 bytes, where `flush` writes 9216. Only a
stream write to a valid endpoint, cut within its header, is affected. `FLUSH_LEN`
is 16 in `api_streams` and `api_buffers`: they show that the protocol works once the
flush is long enough. That a header cut in that way is all that makes a shorter one
fail, as long as it exceeds the longest message, is proved (section 4). The read of `flush` must also be able to hold the longest answer and the
refusal of a header cut short (`QUEUE_SIZE`; 8208 + 32 bytes against 9216).

**A constraint found on the way.** `Resumes` needs a ring of at least two packets:
with a ring of `2 * OUT_PKT - 1` bytes it is violated (an empty ring whose tail is
in the middle has room for a packet on neither side). Both configurations in
`usbd_conf.h` satisfy this, the high-speed one exactly. `OutAssumption` does not
require it, because safety does not depend on it.

**Fairness.** Weak fairness on each interrupt that is pending (they are level
triggered and served by one handler), on the frame interrupt (the host starts a
frame every millisecond), on the steps of a VCP call once begun, on the main loop
reading (`usb_api_process` is called for ever) and, for transmission, on the
host polling the IN endpoint, without which nothing can be sent. Nothing is
assumed about the host sending, nor about the application writing. On TI the same
is assumed of the completion interrupt, the host's polling, the steps of a
`USBBufferWrite` or `USBBufferRead`, the main loop reading, and the tick of a
configured device; the host may reset, disconnect or stay away at any time, and
every liveness property allows for the session ending. In `ApiHost`
the device's main loop, the driver's polling while the port is open and the steps
of a library call are fair; asking, opening and exiting are not. That the read of
`flush` times out only when nothing will come any more (`DrainTimeout`) is a
statement about time: `com_timeout` is a second and more, the device answers in
microseconds. No timeout is modelled inside `send_packet`, except that the
program may end (`Exit`) at every step of it, which is what the exception does.

**Deadlock.** It is checked in all runs but those of the API, where a system in
which no program runs and none will be started has every right to stop, those
of TI, where a device the host has abandoned after `MaxSessions` has, and
`session`, where the model ends once the tail is out of the ring.

## 4. What is proved

For every value of the constants that satisfies the named assumptions
(`OutAssumption`, `InAssumption`: a packet is shorter than the ring, and on the OUT
side a multiple of the FIFO's word; `FrameAssumption`, `LinkAssumption`, and the
`RxAssumption` and `TxAssumption` of each module: the bounds are numbers and `JUNK`
is not one; `DeviceAssumption`, `HostAssumption`: sizes are numbers, the parts of a
request bytes), and with the bounds on sessions, requests and data left open, so
for runs of any length:

* `CdcOutProofs`: no unsigned subtraction of `ring_buff.h` wraps around on legal
  indices; a contiguous write touches no unread byte; a full ring never looks
  empty; two contiguous pieces always suffice.
* `CdcRxProofs`: `TypeCorrect`, `WindowSafe`, `ContentSafe`, `ReadIsComplete`,
  `CopyIsStable`, and `Refinement`: reception implements `ByteStream`.
  `SessionsMemorySafe` and `SessionContentSafe`: what is left of it when the device
  is configured again and again.
* `CdcTxProofs`: `TypeCorrect`, `PacketsWhole`, `TransfersAreClosed`, `PutIsComplete`,
  and `Refinement`: transmission implements `ByteStream`.
* `CdcEchoProofs`: `EchoSound`, and `Refinement`: both pipes and `VCP_Echo` between
  them implement one `ByteStream` from the host to itself.
* `TiRxProofs`: `TypeCorrect`, `PacketsNoted`, `DataNotOvertaking`, `RequestsKept`,
  `ReadsComplete`, and `Refinement`: between two flushes that spoil a read, TI reception implements
  `ByteStream`, across any number of sessions.
* `ApiProofs`: `NoAssertionFires`, `AlwaysInSync`, `AnswersMatch`, and of what the
  answers say `SequenceGoesOn`, `BuffersHold` and `EchoKept`, each as long as nothing
  has led the protocol astray (below); and `SafeOtherwise`.
* `TiTxProofs`: `TypeCorrect`, `LayersAgree`, `TransfersAreClosed`, `WritesComplete`,
  `OnlySentLost`, and `Refinement`: outside spoilt states TI transmission implements
  `ByteStream`.

**Reception.** The state predicate that matters, "the next packet overwrites no
unread byte", is not inductive: whether it survives `try_start_rx` depends on the
indices being legal for the *current* size, whether it survives `VCP_MarkRead`
depends on the reader not marking more than there is, and that depends on what
the reader sampled some interrupts ago. `OutInv` collects what the handlers need
(types, legal indices, the window, the agreement of `USB_Rx_Active` with the
endpoint, the content of the ring). `IInv` adds what the reader knows: `SampleOK`
(its samples still hold) and `ProgressOK` (how far a `VCP_Get` in two pieces has
come). `OutGrows` states what a handler may do to a ring someone is reading, and
`CdcOutProofs` shows of every handler that it preserves `OutInv` and satisfies
`OutGrows`. `CdcRxProofs` then treats every interrupt as one case.

**Transmission** is proved the same way: `InInv` for the handlers, `InDrains` for
what they may do to a ring someone is writing (the head stays, room only grows),
`SpaceOK` and `ProgressOK` for the writer. `PacketContent` is the delicate part. A
packet whose bytes are still to be copied lies *behind* the tail, where the writer
takes the space for free; it is not overwritten because the FIFO-empty interrupt
is served before the main loop goes on. The proof of every step of the writer
uses `MainRuns`, and of the conditions in the specification it is the one that
`PacketContent` cannot do without.

**The echo** needs no new lemma about handlers: each satisfies `OutGrows` or
`InDrains`, and the invariant of `VCP_Echo` (`EchoOK` with its `ProgressOK`) survives
both. What remains are the five steps of `VCP_Echo`; between `EchoWritten` and
`EchoRead` the bytes are in both rings, which the refinement mapping has to say.

**TI reception.** `FifoOK` and `RingContent` say which bytes the endpoint and the ring
hold, `ReadOK` what the reader still finds there unless the session is spoilt;
`PacketNoted` and `NotOvertaken` are inductive with them. The invariant that was
model-checked first excepted spoilt sessions from `NotOvertaken`; the proof shows
that no exception is needed.

**TI transmission.** The layers keep three notions of the packet under way
(`ui32LastSent`, `ui16LastTxSize`, the FIFO), and the ring keeps its bytes.
`PacketAgrees` says that they are one; it is inductive only together with `HostOK`,
which says how far the host has come in each state of the endpoint, that the
packet's bytes are still in the ring, and that an idle pipe's last packet was not
full: without this last fact `WriteSchedule` might send an empty packet nobody
waits for. `RingContent` and `WriteOK` need no exception: whatever a stale completion
removes, the ring stays in order and a write stays complete.

**Sessions.** `usbd_cdc_Init` arms the endpoint at index 0 whatever the indices are,
so `OutInv` does not survive it: the next packet may overwrite unread bytes, and the
head may pass the tail. What survives is `SafeInv`: the indices are legal for the
current size of the ring, an armed endpoint points at room for a packet inside the
*buffer*, and a reader copies no byte beyond the buffer. It says nothing about
unread bytes, so each handler had to be looked at again without `WindowOK`.
`SessionContentSafe` adds `QuietInv`: in a session that began with an empty ring,
either no packet has come yet, or the window is safe again and every byte but the
first packet's is the right one.

The first has one exception, which the run `session` reaches.
`usb_api_get_data(0, n)` samples `VCP_DataAvail` and calls `VCP_MarkRead` with
interrupts on in between. In a session that begins with unread bytes in the ring, a
packet in between can take the head past the tail and close the ring early: fewer
slots are left than the skip has bytes, `ring_wrap` subtracts the size only once, and
the tail ends outside of the ring. (In a trace of the run's instance a second session
begins with 4 unread bytes, a skip of 6 is sampled in a ring of 7, a packet closes it
at 5, and the tail becomes 4 + 6 - 5 = 5 where the indices end at 4.) The code does not bound the skip (`data_len` has
16 bits, `api_str_buf.c:64`). `SafeInv` is therefore stated up to the first skip that is
longer than the ring it is marked in (`overlong`), and after that only as far as it
does not depend on the tail. `SessionContentSafe` needs no exception: in a session
that began with an empty ring no skip is ever longer than what is there, and such a
session can be reached only with the tail in the ring. No theorem puts a bound on
reads, skips or bytes.

**The packet API.** What makes it hard is that a program may be ended between any
two bytes of a message, and the next one pours its flush behind what is left. The
invariant, `ApiInv`, therefore does not speak of the pipes and buffers one by one
but of two sequences of bytes. `Q` is all that the device has yet to take (the
unfinished header in `pkt_buf`, the pipe `up`, and what the host is about to write),
`R` all that it has answered and no program used (the host's buffer, its queue, the
pipe `down`). The host's steps move bytes within `Q` or within `R` and mostly leave
both as they are; a call of `api_process` takes from the front of `Q` and appends to
`R`. `DevInv` is the device by itself: what every assertion of its callbacks asks for
in each state of an operation, most of all that an operation under way has
something left to do (`Left`, `Need`) and stays within its buffer. `HostInv` says,
for each state of the program, which of three stages its message is in: waiting
whole in `Q` (`AskWaits`), taken and its payload awaited (`AskTaken`), or answered in
`R` (`AskAnswered`); and for a message that was cut, the same three (`Cut`), with
the flush behind it long enough to finish whatever it announced. Then no case is
left in which the device would take a byte for something it is not, and the first
three theorems follow.

**What leads astray.** The theorems make no assumption about the requests or the
flush. Five things after which nobody can tell where the protocol goes are recorded in
`astray` as they happen, and each theorem holds until one has:

* `"payload"`: a refused request had a payload. The device leaves it in the pipe, where
  any request may be read from it, until the host flushes.
* `"empty read"`: 0 bytes of the sequence are asked for, which halts the device
  (`api_empty_read`).
* `"wrap"`: a region whose end wraps around, or would with flush bytes for its length.
  `api_buf.c` adds offset and length in 32 bits (lines 22 and 47), so an offset just below
  2^32 with a length that takes the end back to the beginning of the buffer is accepted,
  where `api_pkt.h:60` calls for a "region of interest within buffer address space"; in
  the run `api_buffers` the region of 3 bytes from 15 on is read from a buffer of 2.
* `"long"`: an answer that one flush could not drain, 9216 bytes or more.
* `"torn header"`: a program ended in the middle of the header of a write with
  payload, and the flush is shorter than what its bytes announce when they complete
  the header (`api_short_flush`).

The tools' own requests are of none of the first four kinds; the fifth needs a program
that is ended within 14 bytes of its 16, and a flush of 9216 as the code's then counts
as too short. In every other history the code's flush is covered by the theorems as
it is. `SafeOtherwise` puts the first three theorems in one formula, `SafeUnlessAstray`,
which `api_buffers` checks with refused payloads and a region that wraps around among
its requests; `api_streams` checks the properties without the proviso, on requests and
with a flush that lead nowhere astray, and `api_buffers` shows that what `BufferOK` says
survives refused payloads on its instance.

**What the answers say.** `ApiInv` counts the bytes of `R` and names the header in
front of them; it says nothing of the payload. A payload is made in as many calls
of `api_process` as the pipe asks for, while the program has read its first bytes
already, and the program draws its conclusions (`known`) only when it has all of
it, long after the endpoint has gone on. `ContentInv` closes the gap with four more
parts.

* `Follows`: the operation the device answers is the one the program asked for, an
  answer being read is one the device gave without a complaint, and a program that
  still flushes believes nothing yet.
* `SeqInv`: there is a number `s`, the program's next if it has one, from which the
  bytes of the answer count up, wherever in `R` they are, and the endpoint is as many
  numbers beyond `s` as it has sent bytes.
* `BufInv`: the bytes sent are the buffer's at the offset asked for (`BufSent`); of a
  write, as many bytes are in the buffer as were taken from the front of `Q`, and
  those to come are the rest of the payload (`BufStored`); any other byte is as the
  program remembers it (`BufKnown`).
* `EchoInv`: the same for both directions of the echo stream. `EchoAt` has a position
  `b` from which, as far as the program knows, its bytes are still to be read: the
  device has read on by what it has sent, and the answer's counts refer to `b`.
  `EchoTakes` relates a write under way to what the program knows plus the part
  stored so far. It needs two counts, the bytes taken and the bytes stored, since a
  stream that is full has the rest of a payload taken and thrown away; as long as
  something is still to be stored the two are equal, and this is what makes the
  stored part a prefix of the payload and not just some of its bytes.

The proof treats the host's steps together, since they only move bytes (`Quiet`),
and a call of `api_process` by what it does to the request: it skips it, begins it or
goes on with it (`AskStep`). One lemma for each kind of operation then says that the
part of the invariant about its endpoint survives, and another that the other
endpoints do not notice.

**Only model-checked:** liveness, which is out of the prover's reach: `Resumes`,
`TransferEnds`, `SessionResumes`, `OpeningEnds`, `RequestEnds`, `Delivered`, `Notified`,
`Drains`, and of `ImplementsFairStream` the fairness, its safety part being
`ImplementsStream`, which is proved. Every invariant and every action property that
a passing run checks is stated by a theorem, those of the API with the proviso
`astray = {}`.

## 5. Not modelled, and the plan

Abstracted: bus errors and retransmission (the USB hardware hides them), DMA mode
(the projects are built for slave mode), control transfers, descriptors,
wording and logging.

Left out of the packet API: the overflow flag and the calls of a stream's producer
(`on_new_data`), which have no caller; the operation mask that `info` reports;
what a write to a region that wraps around changes outside of its buffer; `rd_stream_all`, whose
deadline needs a clock; device discovery. Left out of sessions: transmission,
because what the controller does with a packet that waits in the IN endpoint when
the bus is reset is written nowhere in the repository; the halting of endpoints.

Left out of TI: the path of `HandleRxAvailable` for a packet already in memory and
`HandleRequestBuffer`, which the CDC class does not use; the notification endpoint,
whose `USBDCDCSerialStateChange` has no caller; error events; the handlers of
suspend and resume, which only pass an event on; the loop that joins reading and
writing in the echo application. What TivaWare does (`USBRingBuf...`,
`USBEndpointDataPut`) is taken from how the patched files use it.

Most files of the repository are not the program's own: CMSIS, the standard
peripheral drivers and the OTG library make up nine tenths of its lines. Of these
only what a bulk packet or a session passes through is modelled; the rest
(timers, converters, clocks, CAN, I2C, other USB classes) is not called by this
program, and its behaviour is that of hardware registers.

What is left to do, should the code change or grow:

1. **Payloads of refused writes.** The theorems end with the first (`astray`), since
   the bytes the device does not take may be read as any request. To go on after the
   next flush, the invariant would have to allow every request as the one under way,
   and so needs `CutAnswered` for messages that nobody wrote.
2. **Sessions of the IN pipe**, once it is settled what the controller does with a
   packet that waits when the bus is reset.
3. **A producer of stream data**, when an application calls `on_new_data`: the
   overflow flag and the position of the reader then change between two requests.
