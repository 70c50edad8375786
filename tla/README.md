# TLA+ models of the STM32F0 Ethernet firmware

The repository is firmware for an STM32F0 that answers ping and serves one web
page through an ENC28J60 Ethernet controller on SPI, with lwIP in its
operating-system-less configuration (`NO_SYS=1`) and very small pools. All
paths below are relative to `src/ethernet_ping/`. Of about 400 source files
some 1,500 lines are the project's own; the rest is vendored lwIP, the STM32
HAL and CMSIS.

This directory holds TLA+ modules that model the firmware, TLC configurations
that check them on small instances, and TLAPS proofs that hold for all values
of the constants. `PROJECT.json` lists components, runs, the lines every
definition stands for, the hazards, and one mutation of the code per property
that makes that property fail.

## 1. Inventory

| component | state it keeps | operations | talks to |
|---|---|---|---|
| ENC28J60 driver, receive (`ENC28J60/Src/enc28j60.c` 267-317) | `static rxPtr` (next header), the controller's ERXRDPT, EPKTCNT, ERDPT | `PacketReceive` | controller (SPI), main loop (caller) |
| ENC28J60 driver, send (`enc28j60.c` 332-371) | TX memory, ETXST, ETXND, EWRPT, ECON1.TXRTS | `SendPacket` | controller, HAL tick, lwIP glue |
| ENC28J60 driver, registers and start-up (`enc28j60.c` 28-232) | selected bank in ECON1, the control registers, PHY registers behind the MII | `WriteOp`, `ReadOp`, `SetBank`, `ReadReg`, `WriteReg`, `ReadPHY`, `WritePHY`, `Init` | controller, HAL tick |
| network interface glue (`ENC28J60/Src/enc_netif.c`) | a transmit scratch buffer of 600 bytes, MTU 500 | `low_level_output`, `netif_init` | lwIP (callbacks), driver |
| main loop (`Core/Src/main.c` 107-156) | `pkt_buf[400]`, the button level | poll the driver, allocate a pbuf, `input()`, `sys_check_timeouts()`, read the button, delay | everything |
| HTTP server (`ENC28J60/Src/http_server.c`) | none of its own; the page depends on `button_state` | `http_accept`, `http_recv` | lwIP TCP (callbacks) |
| port layer (`Core/Src/sys_arch.c`) | the interrupt mask | `sys_now`, `sys_arch_protect/unprotect` | HAL tick |
| lwIP timeouts (`Middlewares/lwip/src/core/timeouts.c`) | sorted list of one-shot timers, the TCP-timer-active flag | `sys_timeout`, `sys_untimeout`, `sys_check_timeouts`, cyclic timers | pools, TCP, ARP, reassembly |
| lwIP pools and pbufs (`core/memp.c`, `core/pbuf.c`) | free lists, reference counts | allocate, chain, take, free | main loop, TCP, ARP |
| lwIP heap (`core/mem.c`) | a doubly linked list of blocks, `lfree` | `mem_malloc`, `mem_free`, `mem_trim` | everything that sends |
| lwIP reassembly (`core/ipv4/ip4_frag.c`) | datagrams with their fragments, `ip_reass_pbufcount` | `ip4_reass`, `ip_reass_tmr` | pools, timeouts |
| lwIP ARP (`core/ipv4/etharp.c`) | two entries, one queued packet each | `etharp_output`, `etharp_query`, input, timer | glue, pools |
| lwIP TCP (`core/tcp*.c`) | two PCBs, one listener, two segments | accept, receive, write, close, timers | HTTP server, pools |
| lwIP Ethernet/IPv4/ICMP input | none per packet | parse, checksum, echo | — |
| lwIP sockets, netconn, apps, IPv6, PPP, 6LoWPAN | not compiled in by `lwipopts.h` | — | — |
| HAL, CMSIS, start-up | the millisecond tick | SPI transfers, GPIO | — |

How they interact: there is one thread, `main`'s loop. Lower layers are called
directly, lwIP calls back into the glue (`linkoutput`) and the HTTP server
(`tcp_accept`, `tcp_recv`) from inside `input()`. The tick interrupt only
increments a counter. The one truly concurrent partner is the ENC28J60: it
stores and sends frames by itself while the program is anywhere.

What is hard here:

* **The ring shared with the controller.** `PacketReceive` is a dozen SPI
  transactions. Between any two the controller may store a frame. The driver's
  `rxPtr`, the controller's write pointer, ERXRDPT and EPKTCNT are advanced at
  different moments by different parties and nobody compares them.
* **The transmitter that outlives a call.** A call which times out leaves TXRTS
  set; the frame can go out at any later time, up to the moment the next call
  clears TXRTS.
* **Bits of one register shared by three parties**: ECON1 holds the bank, RXEN
  and TXRTS.
* **Waiting for hardware**: CLKRDY without a timeout, MISTAT.BUSY and TXRTS
  with one; the tick wraps after 49.7 days.
* **Pools of two or four**: PCBs, segments, ARP entries, pbufs. What happens
  when one is empty is decided in many places.
* **Ownership across callbacks**: a pbuf handed to `input()`, a PCB closed
  inside its own receive callback.

What makes each component correct, in a sentence: *receive*: every accepted
frame comes out once, in order, with its own bytes, and the ring never stalls;
*send*: the wire carries whole frames, in order, at most once, and the call
returns; *registers and start-up*: no register is touched in the wrong bank, no
bank change disturbs RXEN or TXRTS, every configuration write takes effect;
*main loop*: each buffer is freed exactly once and an empty pool recovers;
*HTTP*: no control block is used after it is freed, each connection that ends
gives its memory back, the response arrives; *TCP*: the application reads the
stream as it was written, and acknowledgement and window say what it has read;
*reassembly*: what is delivered is whole, what does not fit gives way in order of
age; *timeouts*: no timer is lost, none fires early, sorted across the wrap;
*ARP*: a packet that waits is sent to the right address or freed; *heap*:
allocations do not overlap and free memory is found.

## 2. Modules

| module | what it is |
|---|---|
| `RxFifo` | abstract: the receive path as a queue that may be spoiled |
| `EncRx` | detailed: `ENC28J60_PacketReceive` and the controller on one ring |
| `EncRxProofs` | its theorems |
| `MCEncRx` | an instance for TLC |
| `TxWire` | abstract: the send path as "submit, then perhaps emit" |
| `EncTx` | detailed: `ENC28J60_SendPacket`, the transmitter and the tick |
| `MCEncTx` | an instance for TLC |
| `EncRegs` | the registers of the ENC28J60: banks, ECON1, `Init`, the PHY accesses |
| `EncDriverProofs` | the theorems of `EncTx` and of `EncRegs` |
| `MCEncRegs` | an instance for TLC |
| `TimerQueue` | abstract: timers with integer times, no list and no wrap |
| `Timeouts` | detailed: `timeouts.c` under the main loop |
| `TimeoutsProofs` | its theorems |
| `MCTimeouts` | an instance for TLC |
| `ByteStream` | abstract: what a TCP receiver promises its application |
| `TcpReceive` | detailed: `tcp_receive` and the hand-over in `tcp_input` |
| `TcpReceiveProofs` | its theorems |
| `MCTcpReceive` | an instance for TLC |
| `HttpConn` | `http_server.c` and the life of its connections in lwIP |
| `HttpConnProofs` | its theorems |
| `MCHttpConn` | an instance for TLC |
| `Etharp` | the ARP table |
| `EtharpProofs` | its theorems |
| `MCEtharp` | an instance for TLC |
| `IpReass` | IPv4 reassembly, as functions on the list of datagrams |
| `RxPath` | the main loop and every buffer of a received packet; uses `IpReass` |
| `RxPathProofs` | the theorems of both |
| `MCRxPath` | an instance for TLC |
| `Heap` | `mem.c` |
| `HeapProofs` | its theorems |
| `MCHeap` | an instance for TLC |

`EncRx`, `EncTx` and `EncRegs` look at the same driver from three sides: the
first two take for granted that a register access reaches its register, the
third shows it and in turn does not look at the values. `RxPath` composes the
main loop with reassembly and looks at the other users of the packet pool from
outside, as holders of buffers; `TcpReceive` and `Etharp` have what happens
inside two of them, `Timeouts` has when the timers run. `HttpConn` takes a
connection's stream for granted, which `TcpReceive` shows, and takes any failure
of the heap as possible, which `Heap` narrows down.

### EncRx

State on the controller's side: `erxrdpt` and the latched low byte `rdptLow`,
`wrpt` (start of the frame being stored), `frame` (its progress), `pktcnt`.
State on the driver's side: `pc` (which SPI transaction comes next), `rxPtr`,
`hdr` (`nextPtr`, `pktLen`), and `delivered`, what the calls handed over.
`pending` and `damaged` describe the contents of the ring: which unread frames
lie where, and which have been overwritten. `overrun` and `exposed` are history.

| action | code |
|---|---|
| `ReadCount` | bank 1, read EPKTCNT, return 0 if it is zero (283-286) |
| `ReadHeader` | ERDPT := rxPtr, six bytes, assemble nextPtr and pktLen (288-300) |
| `ReadPayload` | `pktLen -= 4`, cut to `max_len`, read, `rxPtr = nextPtr` (301-308) |
| `WriteRdptLow`, `WriteRdptHigh` | ERXRDPT := nextPtr - 1, byte by byte (309-311) |
| `DecrementCount` | ECON2.PKTDEC, return pktLen (313-316) |
| `FrameBegins`, `ByteStored`, `FrameRefused`, `FrameStored` | the controller |

The controller is external. What the model assumes of it is what the driver
relies on: a ring from RXSTART to RXEND; before each frame a header with the
address of the next one, a status and a length; storage stops at ERXRDPT;
ERXRDPT changes when its high byte is written; EPKTCNT counts stored frames.
The model leaves out the padding of odd frames to even addresses, and takes the
whole 16 bits of ERXRDPT where the chip keeps 13: 0xFFFF becomes 0x1FFF, which
is outside the ring 0x0000-0x0BFF as well. EPKTCNT does not overflow in the
model; the real ring cannot hold 255 frames of Ethernet's minimal length. A
header read where no header is yields one of `GarbageHeaders`, any of them.

`Finding.` ERXRDPT gets `nextPtr - 1`. When a frame ends exactly at RXEND, the
controller's `nextPtr` is RXSTART = 0, and the driver writes 0xFFFF, an address
the controller never reaches. From then until the next read storage does not
stop at all, and unread frames are overwritten: `enc_rx_overrun` shows it. The
comments at lines 275 and 307 say that only the area read is freed. The
invariant `SafeUntilExposed` says that this is the *only* way: as long as
ERXRDPT has never left the ring, no unread byte is lost, and that is proved.

### EncTx

State on the controller's side: `txrts`, the TX memory `mem`, `ewrpt`, `etxnd`,
the bytes of the running transmission `onwire`, the history `wire`. On the
driver's side: `pc`, the request `req`, `t`. Time is `tick`, modulo `TickSpan`;
`waited` counts the ticks since `t` was read.

| action | code |
|---|---|
| `CancelTx` | called by `low_level_output`; BFC ECON1 TXRTS (334-335) |
| `SetPointers` | ETXST, EWRPT := TXSTART (337-345) |
| `WriteFrame` | WBM with the control byte, then the frame (347-354) |
| `WriteEnd` | ETXND := TXSTART + len (356-359) |
| `Trigger` | BFS ECON1 TXRTS (361-362) |
| `StartClock`, `PollTxrts`, `CheckClock` | the wait with its timeout (364-370) |
| `SendByte`, `FinishTx` | the controller, which may stall for ever |
| `Tick` | SysTick; at most one per round of the polling loop |

A frame is a number and a length; a byte is the number of its frame and its
position. Cell 0 of `mem` is the control byte. `WBM` is one action because the
controller cannot tell its bytes apart: TXRTS is clear while it runs (and that
it is clear is `StableWhileSending`, not an assumption).

### EncRegs

A function of the driver is the sequence of its SPI transactions: `Setup` is
`ENC28J60_Init` (178-232), `ReadPHY` (107-125), `WritePHY` (145-164),
`PacketReceiveRegs` and `SendPacketRegs` are the packet functions as far as they touch registers
(the specification is `RegsSpec`: one module proves about `EncTx` and `EncRegs`, so names
they would share differ). `todo` is what
is left of the current call, and one action per kind of transaction takes its
head: `WriteOp`, `BitOp` (BFS, BFC), `ReadOp`, `ResetOp`, `AwaitClkrdy`,
`GetTick`, `PollOp`. The controller's side: `econ1` (bank bits, RXEN, TXRTS),
`clkrdy`, `busy`, and `written`, the registers the driver has given a value
since the last reset; `OscillatorStarts`, `TransmissionEnds` and `MiiEnds` come
whenever they like. A write in a wrong bank lands nowhere in the model, a read
in one returns anything. `Call` offers `ReadPHY` and `WritePHY` at any time, which
the main loop never calls; the properties hold with them.

`Restart` stands for a reset of the microcontroller alone (watchdog, button,
debugger): the controller has its own supply and reset pin and stays as it was,
with any bank selected and the receiver running. `Init` must cope with that,
and does, because it begins with the soft reset.

`Finding.` `ReadOp` receives one byte after the opcode (line 55), while its own
comment in the line above says that the controller sends the data after a dummy
byte, as it does for MAC and MII registers. If it does, `WritePHY` and
`ReadPHY` test the dummy byte instead of BUSY: with `MiiDummyByte = TRUE` the
run `enc_regs_mii` shows `WritePHY` returning at once while the PHY is busy.
With `FALSE` every property is checked as the code reads. (Line 225 announces a
filter for unicast, broadcast and CRC, line 227 writes 0, which its own comment
calls "all filters off": a matter of data, which the model does not look at.)

### Timeouts

State: `now` (the tick, modulo `Span`), `list` (`next_timeout` and its
successors), `due` (`current_timeout_due_time`), `active`
(`tcpip_tcp_timer_active`), `pcbs` (connections that need the TCP timer), and
where the main loop is (`pc`, `t0`, `handler`). `lag` bounds how late the loop is.

| action | code in `timeouts.c` |
|---|---|
| `CheckTimeouts`, `Expire`, `NoneExpired` | `sys_check_timeouts`: one reading of the clock, then one handler after the other |
| `CyclicTimer` | `lwip_cyclic_timer`, once its handler has returned |
| `TcpipTcpTimer` | `tcpip_tcp_timer`; `tcp_tmr` may end connections |
| `TcpReg`, `TcpRmv` | `TCP_REG` with `tcp_timer_needed`, `TCP_RMV` |
| `Tick` | SysTick, anywhere |

`SysTimeoutAbs` is `sys_timeout_abs` with its search for the place and with its
silent return when the pool is empty. An entry goes back to the pool before its
handler runs, and this is why a pool with as many entries as timers suffices.
`sys_untimeout`, `sys_restart_timeouts` and `sys_timeouts_sleeptime` are never
called in this firmware and are left out.

### TcpReceive

State: the PCB's `rcv_nxt`, `rcv_wnd`, `ooseq`, the announced window `rcv_ann_wnd` with
`rcv_ann_right_edge`, its edge in the last segment sent; what `http_recv` has been given,
`read` and `eof`; and `n`, the length of the client's stream. A byte is its place
in the stream, so data that is doubled, left out or put in the wrong place shows.

| action or operator | code (`core/tcp_in.c`) |
|---|---|
| `Receive` | `tcp_receive` from the trimming of old data on (1379 ff.), with `tcp_input`'s hand-over (512-541) |
| `InOrder`, `Run` | the segment is next: cut to the window, joined with what waits behind it |
| `AnnWnd` | `tcp_update_rcv_ann_wnd` (`tcp.c` 934-960) |
| `OutOfOrder`, `Queued`, `Before`, `Behind` | the six cases of inserting in `ooseq` |
| `Announcement`, `Acknowledge` | a segment goes out with the window (`tcp_out.c` 1488-1495, 1855-1871), in `tcp_input` or later |
| `FreeOoseq` | `tcp_free_ooseq`, from `tcp_slowtmr` and `pbuf_free_ooseq` |
| `Arrive` | the network: any piece of the stream, at any time, again and again |

`Arrive` makes losses, repetition, reordering and retransmission in other pieces
a matter of the next input; nothing has to be remembered for them. The client may
overrun the window: streams are longer than it, and nothing keeps their bytes or their
FIN inside the right edge but the code (1471-1491, 1786-1801).

The window can be overrun. The first segment of an empty queue is queued uncut (1656), where
the other paths cut what lies behind the right edge. When the gap in front of it closes it is
taken whole, and then the assertions "tcp_receive: tcplen > rcv_wnd" (1549) or "tcp_receive:
ooseq tcplen > rcv_wnd" (1585) are false. `OnlyQueuedOverruns` says that this is the only way:
a step takes more than `rcv_wnd` only if a segment that waits ends behind the right edge. In
this build the assertions are empty macros (`Core/Inc/arch/cc.h` 35), and `rcv_wnd`, unsigned,
wraps to nearly 65536. For a FIN `tcp_input` gives the place back to `rcv_wnd` (538-539), but
`rcv_ann_wnd` already has the wrapped value (1589 with `tcp.c` 943) and keeps it: a
connection whose window is used up announces 65535 with the acknowledgement of that FIN.
For data, nothing is put right. `AckExact` says what the three variables are in every one of
these cases; acknowledgement and stream stay right.

### HttpConn

State: `tcp`, a record of the control blocks (state, `unsent`, `unacked`, `nrtx`,
`rcv_wnd`, the flags TF_CLOSEPEND and TF_BACKLOGPEND), of the list of active ones,
of the blocks and segments taken from their pools and of the listener's
`accepts_pending`; `input`, where `tcp_input` is with which block.

| action | code |
|---|---|
| `Syn` | `tcp_listen_input`, `tcp_alloc` with its attempts to make room, `http_accept(ERR_MEM)` |
| `HandshakeAck`, `Segment`, `Rst`, `SynAgain`, `LastAck` | `tcp_process`, by state |
| `HttpRecv`, `HttpRecvClose`, `HttpRecvEnd` | the callback up to `tcp_output`, its `tcp_close`, the call with NULL |
| `InputDone` | the end of `tcp_input`: delayed close and free, or `tcp_output` |
| `FastTimer`, `SlowTimer` | `tcp_fasttmr`, `tcp_slowtmr` |

`http_recv` runs inside `tcp_input`; the steps are separate to make the moments
between them visible, and timers and other packets wait for `phase = "idle"` as
they do in a program with one thread. An allocation may fail at any moment
(`mem`), a packet may not be built (`ok`). A FIN that is sent but unsent again, because its
repetition could not be built, can still be acknowledged (`LastAck`), and such a
failure counts as a repetition. `FastTimer` also sends for the blocks whose
acknowledgement is delayed; which these are is left open. FIN_WAIT and TIME_WAIT are not reached:
the server never calls `tcp_close` before data or a FIN has come, and the data it
leaves unread turns its close into a RST.

`Finding.` That RST is also why the page never arrives: `http_recv` queues the
response with `tcp_write`, calls `tcp_output`, which returns at once because
`tcp_input` works on this PCB (`tcp_out.c` 1262), and then `tcp_close`, which finds
`rcv_wnd != TCP_WND` since `tcp_recved` was never called, sends RST and frees the
unsent data (`tcp.c` 352-373). `http_conn_response` shows it.

When the request comes in one segment with the FIN, the callback is called a second
time for the PCB it has closed; the comment in `tcp.c` (383-385) calls a second close
erroneous. `InputPcbLive` says that it is harmless: `tcp_input` still owns the block.

### Etharp

State: `arp_table`, `cached` (`etharp_cached_entry`), `ref` (references to each
packet); as history `heard` (what each neighbour last said) and `wire` (what the
step sent). The actions are `EtharpOutput` (`etharp_output` with the cached entry,
the search, `etharp_query`), `EtharpInput` (`etharp_input` with
`etharp_update_arp_entry`) and `EtharpTmr`. `FindEntry` is `etharp_find_entry`:
the entry there is, an empty one, or the one to recycle. The requests that go out
have no state and are left out; static entries are configured off. A packet that is to
wait is referenced, or copied if its buffers refer to other memory, as the fragments of
an answer longer than the MTU do; `QueryNoCopy` is a copy that cannot be made, after
which an entry is pending without a packet, the kind that is recycled before one whose
packet waits.

### RxPath and IpReass

A pass of the main loop is `Receive` and `Returned`, or `PoolEmpty`, or `NoPacket`; then
`FreeOoseq` (`PBUF_CHECK_FREE_OOSEQ` at the head of `sys_check_timeouts`), then any
timers, each followed by another check, then `TimersDone`. `Receive` is `input()` with a
chain of buffers, which it frees or keeps for a while: among the fragments of a datagram,
out of order on a connection, or as an answer that waits for ARP (a ping is answered in
the buffers of the question). `avail` counts the free buffers; `reassdatagrams`, `ooseq`
and `arpq` say who holds the others, and `ip_reass_pbufcount` is lwIP's own count.

What `input()` returns decides who frees the chain: `ethernet_input` returns `ERR_OK` on
every path, also when it has thrown the packet away (`ethernet.c` 245-252), and the loop
frees it after anything else (`main.c` 145-146). `chain` and `err` carry this from
`Receive` to `Returned`; that each buffer is freed once is `BuffersExact` over both.

`PoolEmpty` loses a packet for which there are too few buffers and raises
`pbuf_free_ooseq_pending`; `losses` counts the packets lost since one was received.
`FreeOoseq` then frees what one connection holds, any one of them.

`IpReass` has `ip4_reass` with its two ways to make room (`WithRoom`,
`WithEntry`), the removal of an entry from the list (`Without`), the insertion with its
test for overlaps (`Queued`), the test for completeness (`Whole`), the removal of an
entry that was made for a fragment which is then thrown away (`Unmade`, after a length
beyond 16 bits, `ok`), and the timer. Fragments are cut anywhere and arrive in any
order. None is empty, and the last one, and no other, says that it is the last: a sender
that contradicts itself is left out, as are header fields, checksums and option bytes.

With the firmware's configuration `IP_REASS_MAX_PBUFS` is 10 and there are five entries,
and the pool is 4. Reassembly therefore never evicts anything here: the fragments of
incomplete datagrams can take the whole pool for up to 15 seconds, against the
advice at `opt.h` 811-814, and `RoomAgain` says that it ends. `rx_path` has these sizes.
What the eviction would do with limits below the pool is not run but proved for all limits
(`EvictionTakesOldest`); the firmware never gets there.

### Heap

State: `mem`, the headers in the list by address; `lfree`; `asked`, what every block in
use was asked for. `MemMalloc` is first fit from `lfree` with the split, `MemFree`
is `mem_free` with `plug_holes` (join the block after, then the one before), `MemTrim`
is `mem_trim` with its three cases. Sizes are in units of the alignment. Overflow
checks (`MEM_SANITY`, `MEM_OVERFLOW_CHECK`) are off in this configuration.

The model takes a step that an assertion of the code excludes. Before `mem_trim` makes a new
block behind the one it shrinks, it asserts ("invalid next ptr") that the latter is not the
last of the heap (`mem.c` 777). What follows the last block is `ram_end`, which counts as used,
so the branch is taken for the last block too: in `heap`, two requests of six units fill the
heap to its end, and trimming the second to one unit makes the assertion false. `pbuf_realloc`
can lead there with a packet in the heap. The lines that follow treat the case right (785), and
`HeapSound` holds after it; the assertion is an empty macro in this build (`Core/Inc/arch/cc.h`
35), a build with assertions would stop.

## 3. Runs

| run | question | result |
|---|---|---|
| `enc_rx` | do driver and controller agree on the ring, and do the calls return what was stored? | holds |
| `enc_rx_overrun` | is an unread frame safe from the controller? | no, see the finding |
| `enc_tx` | does the wire carry whole frames in order at most once, and does every call return on time? | holds |
| `enc_regs` | does every register access hit its register, whatever the order of calls and restarts? | holds |
| `enc_regs_mii` | do the PHY accesses wait for the PHY if MII registers have a dummy byte? | no, see the finding |
| `timeouts` | is every timer run when it is due, on a clock that wraps, with no spare pool entry? | holds |
| `tcp_receive` | is the stream put together as it was written, whatever the network does? | holds |
| `http_conn` | does every way a connection can end give back exactly what it took? | holds |
| `http_conn_response` | is the response sent that `http_recv` has queued? | no, see the finding |
| `etharp` | does a table of two serve three neighbours without losing packets or mixing addresses? | holds |
| `rx_path` | is every packet buffer accounted for, and does an empty pool recover, with the firmware's sizes? | holds |
| `heap` | does the heap stay whole under every order of calls? | holds |

Properties of `enc_rx`: `TypeOK`; `CountMatches` (EPKTCNT is the number of
unread frames plus the one being finished); `RingInStep` (the unread frames lie
end to end from `rxPtr` to the controller's write pointer); `SafeUntilExposed`;
`EmptyRingHasRoom` (a drained ring has all its bytes but one free again);
`ImplementsFifo` (refines `RxFifo`); `EveryStoredFrameIsRead` (liveness).

Properties of `enc_tx`: `TypeOK`; `StableWhileSending` (nobody writes what the
transmitter reads); `GivesUpOnTime` (at Timeout + 1 ticks exactly, wrap or not);
`ImplementsWire` (refines `TxWire`); `SendReturns` (liveness).

Properties of `enc_regs`: `RightBank` (every register is accessed in its bank);
`Configured` (types, and RXEN only over a complete configuration);
`FrozenWhileReceiving` (the configuration is not written under a running
receiver); `BitsKeptApart` (bank changes leave RXEN and TXRTS alone); `WaitsForPhy`
(the wait ends with BUSY or the timeout); `CallsReturn` (liveness, if the
oscillator runs).

Properties of `timeouts`: `TimersScheduled` (types; no cyclic timer is lost or
doubled; the flag, the list and the connections agree on the TCP timer); `Sorted`
(across the wrap); `ImplementsQueue` (refines `TimerQueue`: none early, longest
overdue first, rhythm kept); `TimersRun` (liveness).

Properties of `tcp_receive`: `OoseqSound` (the queue has the client's bytes at their
places, in order, without overlap, FIN last); `AckExact` (acknowledged is exactly what
was handed over; `rcv_wnd` and the announced `rcv_ann_wnd` are the window less that, as
differences of their width, which wrap when the client has overrun the window);
`OnlyQueuedOverruns` (lwIP's assertions about the window hold unless a waiting segment goes
beyond it); `ImplementsStream` (refines `ByteStream`); `AllDelivered` (liveness: a stream that
leaves room for its FIN is read to its end).

Properties of `http_conn`: `InputPcbLive` (no use after free inside `tcp_input`);
`PoolsExact` (types; blocks, segments and backlog are exactly what is in use);
`EstablishedKept` (no timer and no other client ends an established connection);
`EndedReleased` (liveness: a handshake that hangs and a client that is done give the
block back).

Properties of `etharp`: `TableSound` (types; one entry per neighbour; each packet
referenced exactly while it waits); `RightAddress` (nothing goes to a stale address,
not by way of the cached entry either); `WaitingKept` (recycling spares a packet that
waits while it can: stable entries and pending ones without a packet go first).

Properties of `rx_path`: `BuffersExact` (types; no buffer lost or freed twice, by the
stack or by the loop; lwIP's own count is right); `WholeDatagrams` (what is delivered is
whole, what waits is not); `OoseqGivesWay` (when the loop asks for a packet, the packets
lost in a row and the connections that hold segments out of order are together no more
than the connections: each loss has cost one of them all it held; it does not say that the
next packet finds room, since fragments and answers hold buffers as well);
`RoomAgain` (liveness).

Properties of `heap`: `HeapSound` (types; blocks end to end, links agree, no free
neighbours, `lfree` lowest, room for what was asked); `SearchComplete` (no block that fits
is overlooked).

**Bounds.** The ring of `MCEncRx` has nine bytes, frames take three or five of
them with their header. Three short frames fill it exactly, so a frame can end
at the last address; a short and a long one do not fit; a long frame wraps.
Register bytes have four values, so addresses have two digits and the low and
the high byte of ERXRDPT both matter; seven of the sixteen addresses lie outside
the ring, as most do in the chip. `MaxFrames` is 7: more than two rounds of the
ring. In `MCEncTx` a frame has one or three bytes, so a short one leaves bytes of
a long one behind it; the timeout is 2 ticks of a counter with 5 values and the
first reading is arbitrary, so the wrap falls before, into and after the wait;
three calls give a late completion a call before and after it. `MCEncRegs` is
finite but for the number of restarts: two, so that one can hit a running
receiver and one the `Init` it has led to; all waits are alike, so one tick of
patience shows in time and too late. In `MCTimeouts` the intervals are 1 : 2 : 2
where the firmware has 250 : 1000 : 1000 ms: two timers are due at the same
time, and the third runs more often and stands in a different place of the list
each time. The clock has 16 values and wraps every eighth interval; `MaxLag` is 2,
so a handler can be more than an interval late and `NextDue` takes both its
branches. The order of times is kept by `Interval[h] + 2 * MaxLag <= MaxTimeout`:
the real bound is 24.8 days. The pool has exactly three entries, as
`MEMP_NUM_SYS_TIMEOUT` works out to.

`MCTcpReceive`: a window of six bytes and streams of up to eight, every one of them cut in
every way, so data as well as a FIN can lie behind the right edge; the
first sequence number is 60 of 64, so the numbers wrap inside the stream. Three
segments can wait, one more than in the firmware, so that one can arrive between two.
The window is a number below 10, so that one that wraps below zero is seen as large. `MCHttpConn`: three
clients for the firmware's two control blocks and two segments; a window of three
pieces lets a client send a request in pieces, fill the window and have its FIN
refused for want of room; one retransmission shows before and after the limit. Its
queues hold at most two segments, so the state space is finite without a bound on
time. `MCEtharp`: the table of two entries, three neighbours, two hardware addresses
and two packets for each; `MaxAge` 3, `MaxPending` 2 and `Rerequest` 2 keep the order
of the real 300, 5 and 270 seconds, so an entry can be stable, asked for again, and
expire. `MCRxPath` with `RxPath.cfg`: the firmware's pool of four, two
connections, two ARP entries and its limits of reassembly, frames of one and two buffers,
two datagrams of three buffers in every cut: both connections can hold segments when
packets are lost, and fragments alone can fill the pool. Ages are scaled down to one or two. `MCHeap`: room for four blocks, requests below, at and above the
smallest block and one that needs most of the heap; a request can fit exactly,
leave a rest too small for a block, or leave a block.

**Deadlock** is checked everywhere but in `enc_rx`, `enc_rx_overrun`, `enc_tx` and `tcp_receive`.
There the bounded instance ends: the wire stops after `MaxFrames` frames, the
caller after `MaxSends`, and a connection whose stream has been read to its end
takes no more segments. That nothing gets stuck before that end is stated by the
liveness properties.

**Fairness.** `EncRx`: `WF(PacketReceive)`, because `main`'s loop calls it for
ever and each step is an SPI transfer that ends by itself; `WF` of the
controller's steps of a frame it has begun, because the wire does not pause
within a frame. Nothing obliges a frame to arrive. `EncTx`: `WF(SendPacket)` for
the same reason and `WF(Tick)`, because SysTick runs. The transmitter has no
fairness at all: the driver has a timeout because it may stall. At most one tick
comes per round of the polling loop: a round is a few bytes of SPI, microseconds
against a millisecond. `EncRegs`: `WF(Driver)` and `WF(TickPasses)`; nothing for
the controller, so `CallsReturn` has to assume that CLKRDY comes, which the
driver awaits without a timeout, and assumes nothing of BUSY and TXRTS.
`Timeouts`: `WF(MainLoop)` and `WF(Tick)`, the same two facts. `TcpReceive`:
`WF(Retransmit)`: the client sends the first byte that is not acknowledged again
and not every copy is lost; it is what every TCP sender does, and without it no
receiver can promise delivery. `HttpConn`: `WF(TcpInput)`, since the callbacks
return; `SF` of each limit of `tcp_slowtmr` and of `tcp_fasttmr` finding memory:
both timers run between packets for ever (`TimersRun`) though a packet may
come in between any two of their runs, and the heap is not short every time.
Nothing obliges a client to answer. `RxPath`: `WF` of the loop and `SF` of each
timer, which `TimersRun` justifies; nothing obliges a packet to arrive or not
to. `Etharp` and `Heap` state safety only, without fairness.

## 4. Proofs

`EncRxProofs`, `EncDriverProofs`, `TimeoutsProofs`, `TcpReceiveProofs`, `HttpConnProofs`,
`EtharpProofs`, `HeapProofs` and `RxPathProofs` prove, for every value of the constants
that satisfies the named assumptions `ConstantsOK`, `TxConstantsOK`, `RegsConstantsOK`,
`TimeoutsConstantsOK`, `TcpReceiveConstantsOK`, `HttpConnConstantsOK`,
`EtharpConstantsOK`, `HeapConstantsOK`, `ReassConstantsOK` and `RxPathConstantsOK`:

| theorem | states |
|---|---|
| `TypeCorrect` | `[]TypeOK` for the receive path |
| `CounterCorrect` | `[]CountMatches` |
| `PointersInStep` | `[]RingInStep` |
| `UnreadSafe` | `[]SafeUntilExposed` |
| `RoomWhenEmpty` | `[]EmptyRingHasRoom` |
| `ReceiveImplementsFifo` | `ImplementsFifo` |
| `TxTypeCorrect` | `[]TypeOK` for the send path |
| `MemoryStable` | `StableWhileSending` |
| `TimeoutExact` | `GivesUpOnTime` |
| `SendImplementsWire` | `ImplementsWire` |
| `WaitIsBounded` | a call waits at most `Timeout + 1` ticks for the transmitter, for any width of the counter |
| `WireInOrder` | the wire carries whole frames in the order of the calls, each at most once |
| `BankIsRight` | `[]RightBank` |
| `StaysConfigured` | `[]Configured`, with the types of the register accesses |
| `ReceiverStaysFrozen` | `FrozenWhileReceiving` |
| `BitsStayApart` | `BitsKeptApart` |
| `TimersAreScheduled` | `[]TimersScheduled` |
| `ListIsSorted` | `[]Sorted` |
| `TimersImplementQueue` | `ImplementsQueue` |
| `QueueStaysSound` | `[]OoseqSound` |
| `AcknowledgesWhatIsRead` | `[]AckExact` |
| `OverrunsAreQueued` | `OnlyQueuedOverruns` |
| `ReceiveImplementsStream` | `ImplementsStream` |
| `InputPcbStaysLive` | `[]InputPcbLive` |
| `PoolsStayExact` | `[]PoolsExact` |
| `EstablishedIsKept` | `EstablishedKept` |
| `EtharpTableSound` | `[]TableSound` |
| `EtharpRightAddress` | `[]RightAddress` |
| `EtharpWaitingKept` | `WaitingKept` |
| `HeapAlwaysSound` | `[]HeapSound` |
| `HeapSearchComplete` | `[]SearchComplete` |
| `BuffersStayExact` | `[]BuffersExact`, with the types of the main loop |
| `DatagramsStayWhole` | `[]WholeDatagrams` |
| `EvictionTakesOldest` | `EvictsOldest`: a fragment that needs room takes it from other datagrams, those with the least time left (in no run, see `RxPath`) |
| `OoseqAlwaysGivesWay` | `[]OoseqGivesWay` |
| `HeapWholeAgain` | `[]WholeAgain`: when all is given back the heap is one free block |

The assumptions on the receive path are that a pointer pair can hold every
address of the ring, that a frame is at least as long as its checksum, and that
one frame with its header is shorter than the ring; on the send path, that the
timeout is shorter than the span of the counter; on the register accesses, that patience and
the bound on restarts are numbers; on the timers, that the pool has one
entry for each and that an interval and twice the loop's lag are below half the
clock's span; on the stream, that the type of the window can count the window and the stream with its
FIN (streams are longer than the window, but not so long that the difference wraps twice),
that this span and twice the window are below half that of the sequence numbers, that the
watermark is within the window, and that the pool has a segment; on the connections, that there is a control block, a segment and a
retransmission, and a window of more than one byte; on the ARP table, that it has an
entry and that the limits of age are in their order; on the heap, that it has room
for one block; on the main loop, that the longest frame fits into the pool, that a
datagram has two bytes at least, that nothing is too old at once, and that connections
and ARP entries are finitely many. The limits of reassembly may be any numbers, zero
and those of the firmware included.

**Receive.** None of the invariants is inductive by itself; `RingInv` is, a
conjunction of three parts. `TypingInv` is the type invariant, `CountMatches`, and
what `pc` says about the frame in hand (`FrameOK`, `IdsOK`, `PairOK`, `BusyOK`).
`Layout` says, while nothing has been overwritten, that the unread frames lie
end to end, that what is unread and what is being stored fit into the ring
together, and that the header in the driver's hands describes the frame it is
about to take. `Guarded` says, while ERXRDPT has never left the ring, that
nothing has been overwritten and that unread and incoming bytes together stay
within the distance from `rxPtr` to ERXRDPT: it is what keeps the next stored
byte off the oldest unread one. The room of a drained ring needs one fact
more, `RdptOK`, which ties the value of ERXRDPT between calls to `rxPtr`.
Distances on the ring are handled by lemmas on `Wrap` and `Dist`, so that no step
does modular arithmetic of its own.

**Send.** `TxInv` relates `pc` to the memory: `Asked` (there is a request while a
call runs or a transmission does), `Quiet` (TXRTS is clear from the cancellation
to the trigger), `Pointer` (EWRPT), `Loaded` (after `WriteFrame` the memory holds
the request, after `WriteEnd` ETXND its length, and both as long as TXRTS is
set), `Sending` (what has been sent is
a prefix of the request) and `Clock`: `tick = t + waited` modulo the span
with `waited` at most `Timeout + 1`, from which the wrapped difference is exact.
`WaitIsBounded` follows from it, under the one-tick-per-round of `Tick`: it is what a
transmitter that never finishes can cost the main loop. `WireInOrder` says without `TxWire` what the
refinement means for the wire: `WireInv` adds to the whole frames and their order that a
request which may still go out is newer than all that went (`NewestPending`), also one that
`SendPacket` has given up on; `CancelTx` keeps it by making the new request the newest.

**Registers.** `EncRegs` gives a function of the driver as a sequence of transactions, and
the proof treats it as a program. A `View` is what decides whether an access is right: the
bank, RXEN and what has been configured, TXRTS left out because the controller clears it at
any time. `Allowed(op, s)` says what a transaction may find, `After(op, s)` what it leaves, and
`Leads(q, a, b)` that the program `q`, started in `a`, does nothing that is not allowed and ends
in `b`. Programs compose (`LeadsOn`), so `LeadsSetup`, `LeadsPacketReceive` and the others put each
function together from its parts, in any view it may be called in: `SetBank` leads from
every bank to its own, the soft reset from everything to nothing. The invariant `RegsInv` is
`Configured` and that what is left of the call leads somewhere from here (`InPlace`). A step takes
one transaction off (`LeadsTail`), a call or a restart starts a program, and what the controller
does leaves the view alone. Neither `RightBank` nor `Configured` is inductive by itself,
because they say nothing of the transactions to come.

**Timers.** `TInv` adds three parts to the types. `Count` relates the length of the
list to the timers that should be in it, one less while a handler runs; it is why
the pool never runs out. `Present` says of each timer that it is in the list once or
that its handler runs, the TCP timer only while it is active. `Times` bounds every
due time relative to `now`, by the lag of the loop on one side and the interval on
the other; within those bounds the comparison of the code, which subtracts modulo the
span, decides as the real order does, which the lemmas on `Dist` show once.
`SetTimeout` keeps the list sorted because it inserts before the first entry that is
later. For `ImplementsQueue` the lemmas on `LeftOf` say what time is left of each timer
of a list with an entry more or less.

**Stream.** `ReceiverInv` says that what has been read is a prefix of the client's
stream, `AckExact`, and that `ooseq` is a `Queue`: a list of pieces of the stream, apart,
in order and beyond what has been read, with a FIN in the last alone. `Queue` is stated
of any list, because a segment is inserted in steps, and each step has a lemma: what a
segment covers goes (`BeforeQueue`), the entry in front of it is cut where it begins
(`CutAhead`), the last one may be followed by a segment cut at the window's edge
(`BehindQueue`), and `QueuedQueue` puts them together. The numbers are not compared as such: a
piece is known by the places of the stream at which it begins and ends, and `Compare`
shows once that `TCP_SEQ_LT` orders two numbers as their places, wherever they wrap,
because all places are within the stream or at an edge of the window. `RunFacts` and `RunBytes` say that the entries
handed over with a segment follow it without a gap and hold the bytes of their places;
that `FlattenSeq` joins those needs no induction: two sequences that begin alike and grow by
the same entries would have a least place where they differ. `WindowLeft` follows
`rcv_wnd` below zero, when data or a FIN behind the right edge is taken, and for a FIN back
in `tcp_input`; `AnnWndLeft` shows that `tcp_update_rcv_ann_wnd` comes to the same wrapped
difference in each of its branches, for which the invariant bounds `rcv_ann_right_edge` by
what was announced before (`Announced`). For `OverrunsAreQueued` the lemmas on what is next
carry a bound along: a segment that has been cut ends within the window (`CutPiece`), joined
with a queue that does so too it still does (`BeforeQueue`), and so does the run that is
taken (`ReadTo`). The
refinement is the same case split: a step either reads on, to the end of the run, or
changes the queue alone.

**Connections.** `HInv` has three parts. `Good(t)` says of the record of all control
blocks that the free ones are blank, that each block's own fields fit together, and
that the counts (`used`, `segs`, `accepts_pending`) are what the blocks add up to; it is
stated of any `t`, because a call such as `tcp_input` goes through several of them, and
each operator has a lemma that says it takes a good record to a good one. `InputOK`
says what is known of the block `tcp_input` holds while http_recv and the acknowledgement
run, above all that only a block that was marked closed may have left the active list.
`Idlers` says an established connection has nothing queued unless http_recv is at work on
it, from which an established block never gives way to a newcomer. Sums and loops over
sets of connections are folds; what such a fold does is proved without induction
over an operator: a loop's sequence of records is a function on the subsets of the
set, and a smallest subset for which a record was not good, of which there is one because
the sets are finite, contradicts the lemma on one round.

**ARP.** `TableSound` needs four facts more. `Young`: an entry in use has not
reached `MAXAGE`, so ages stay in range until the timer takes them. `Waits`: a
packet is held by an entry for its own destination that is pending, and by no
second one. `Known`: a stable entry has the address its neighbour was heard with
last; it gives `RightAddress`, because both ways out, the cached entry and the
search, test for stable and for the destination. `Refs` ties the counts to the
table; for the timer, which frees several packets at a time, the count taken off a
packet is the cardinality of a set that `OneHolder` shows to have one element at
most. `WaitingKept` is then a fact about a single step: an entry changes its
neighbour only when `FindEntry` recycles it, and `Recyclable` is everything only when
nothing is stable and nothing pending is without a packet (`RecycledWaiting`).

**Heap.** `HeapSound` is inductive as it stands, but a call passes through lists in
which two free blocks touch. Its parts are therefore stated again of any list `m`, and
the lemmas follow a call from list to list: `SplitSound` and `JoinSound` say what the two
operations on a list preserve, `JoinAfter` and `JoinBefore` that the two halves of
`plug_holes` remove the touching pairs that `mem_free` has made, at the block after and
before, and `CutOff` that the rest `mem_trim` cuts off may touch only the block after
it. `SearchComplete` takes the lowest of the blocks that fit, which
exists by well-foundedness, and shows that neither `lfree` nor the loop's bound hides
it. `WholeAgain` follows because the only free block next to nothing in use is the
whole heap.

**Main loop.** `RInv` is `BufInv`, `CallInv` and `FlagInv`. `BufInv` has the sum of
`BuffersExact`, the exact count, a list of datagrams that is `Sound` (apart, incomplete, no
identifier twice) and `Filled` (no entry empty), and a delivered datagram that is whole.
`ip4_reass` may evict, evict again for an entry, make the entry, and queue or drop, where
it takes the empty entry back (`UnmadeKeeps`); in
between the list has an empty entry, so `Filled` holds only at the ends. `Balanced` follows
one number through these steps, the buffers held and those freed, and `Evicts` relates the
list before to the one after each of them and composes (`EvictsTwice`): the victims are
closed towards less time (`VictimsOldest`), whatever the tie-break. `ReassResult` states
what every way out has in common. That `Whole` with fragments apart means every byte once is
`WholeExact`: if a byte were missing, the least start behind it would have no end to
meet. `CallInv` says that what `input()` has returned is `ERR_OK`, so that the loop's own
`pbuf_free` frees nothing.
`FlagInv` has what makes `OoseqGivesWay` inductive: the flag is down when a pass begins,
and until the check losses and holding connections may exceed the connections by the one
loss the flag stands for. The holders are summed with
`Total`, as the counts in `HttpConnProofs`; that `Without` keeps the right entries is
shown with the first place at which its scan would go wrong.

**Only model-checked:** the liveness properties (`EveryStoredFrameIsRead`, `SendReturns`,
`CallsReturn`, `TimersRun`, `AllDelivered`, `EndedReleased`, `RoomAgain`), because temporal
reasoning under fairness and `ENABLED` are outside the prover; `WaitsForPhy`, which depends
on a fact about the controller (without a dummy byte it holds, with one it does not:
`enc_regs_mii`), so that a theorem would have to assume the answer; and the
counterexamples of the findings, which TLC gives.

## 5. Not modelled, and why

* By far the most of the repository's 223,000 lines is vendored and not part of the
  running program: the HAL's drivers for peripherals the firmware does not use, the
  CMSIS headers for other processors, lwIP's sockets, netconn, IPv6, PPP, 6LoWPAN
  and applications, all switched off in `lwipopts.h`. Nothing in it has a behaviour
  here. The models cover the firmware's own files and the parts of lwIP that it
  runs and that keep state; this is a small share of the lines and most of the
  program.
* Parsing, checksums and the building of headers in Ethernet, IPv4, ICMP and TCP:
  without state; a packet that fails a test is freed, which is `Consumed` in `RxPath`.
* In TCP: congestion control, round-trip times, the persist and keep-alive timers,
  and the rule by which an acknowledgement is delayed. The server sends one small response
  per connection;
  what they decide is when something is sent, and the models let it be at any time.
  Active open and FIN_WAIT to TIME_WAIT are not reached.
* The copy of an outgoing packet to `tx_buf[600]` (`enc_netif.c` 49) is bounded by the
  interface's MTU of 500 and the 14 bytes of the Ethernet header, a fact of arithmetic.
* The button's counter (`main.c` 151-155) is one variable on which only the page's text
  depends. It counts passes of the loop, five per second, while the button is held,
  where the comment at `http_server.c` 22 speaks of presses.
* Values written to the MAC and PHY registers, beyond whether they arrive; the page's text.
* HAL, CMSIS, start-up code: only the tick matters.

## 6. Plan

Done: `EncRx`, `EncTx`, `EncRegs`, `Timeouts`, `TcpReceive`, `HttpConn`, `Etharp`,
`RxPath` with `IpReass`, `Heap`, each with an instance, mutants and its runs, and with
proofs. Every invariant, action property and refinement that a passing run checks is a theorem,
except `WaitsForPhy`; the liveness properties stay with TLC. What could follow is more of TCP: the
sending half with its retransmissions beyond what `HttpConn` has, and the persist timer.
