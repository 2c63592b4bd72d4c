# Verification of jblib-platform-abstract-netutilities

TLA+ models of the network utilities of JB_Lib (`src/`), TLC configurations that
check them on small instances, and TLAPS proofs of the central properties for
every value of the constants.

## 1. The system

The library sits between Ethernet drivers and lwIP on a microcontroller. Most of
it is compiled for one of two environments: *bare metal* (`JB_LIB_OS == 0`), in
which a main loop calls `voidCallback` of every registered procedure and
interrupts (drivers, the NRT timer) preempt it, and *FreeRTOS*
(`src/src/ethutilities/freertos/`), in which threads share lwIP's sockets.

| Component | State | Operations | Who calls it |
|---|---|---|---|
| EthernetRouter | list of interfaces; per interface the listeners, a list of listeners to delete, link state; one frame buffer; `nrtTimerNumber_` | `addInterface`, `start`, `voidCallback` (route frames, lwIP's ms timer, link check), `routeFrames`, `addListener`, `deleteListener` | main loop, NRT timer |
| ArpController | table of records `ip, mac, timeAfterUpdate` with a counter; table of addresses to answer for with a counter | `parseFrame`, `voidCallback` (ageing), `sendRequest`, `sendGratiousArp`, `getMac`, `addIpForArpReply` | router, application |
| EthernetQueue | ring of frames and sizes, indices `bw_`, `br_`, threshold | `push`, `pull`, `getFree`, `isAboveTreshold`, `setTreshold` | driver interrupt, main loop |
| TcpServerChannel | listening pcb; heap parameter block per connection (state, queued pbuf chain, retries); table of broadcast connections with a counter; callback | `construct`, `initialize`, `deinitialize`, `tx`, destructor; lwIP callbacks `accept`, `receive`, `poll`, `sent`, `error` | application, lwIP |
| DhcpServer | the table of addresses with the client of each; one buffer for packet and answer | constructor, `udp_recv_proc` (DISCOVER, REQUEST, INFORM) | lwIP |
| UdpChannel | pcb, callback, destination, address of the last sender | constructor, destructor, `initialize`, `deinitialize`, `setDestination`, `tx`, `recieveCallback` | application, lwIP |
| WsChannel | list of channels, per channel a list of pcbs and a callback | `createWsChannel`, `initialize`, `deinitialize`, `tx` with `checkPcbs`, open and data callbacks | application, lwIP's httpd |
| DnsServer | its name and address | `udp_recv_proc` with `parse_next_query` | lwIP |
| freertos UdpVoidChannel | socket number, address of the last sender under a mutex, callback | constructor, receiving thread, `tx`, destructor | threads |
| freertos UdpChannel | socket, destination, address of the last sender, callback, its task | constructor, destructor, `initialize`, `deinitialize`, `setDestination`, `tx`, the task's `voidCallback` | threads |
| freertos DnsServer | list of hosts under a mutex, socket, `isStarted_` | `start`, `stop`, `addHost`, `deleteHost`, the task's `voidCallback` | threads |
| EthernetUtilities | `ipId_` | functions on the bytes of a frame: fields, checksums, address changes | everybody |

Interactions. A driver's interrupt pushes frames into an EthernetQueue, the main
loop's router pulls them, gives ARP frames to the interface's ArpController and
the others to lwIP and to the listeners. lwIP calls the channels and servers
back; they call the application back, which may call them again from inside. The
router's timer callback ages the ARP tables once a second.

What is hard, and which properties make a component correct:

* **TcpServerChannel.** Connections come and go in any order while the
  application keeps parameters of dead ones; lwIP may refuse memory at any write;
  the destructor must not leave callbacks behind. Correct: the table holds
  exactly the open connections, nothing freed is used, a broadcast reaches
  everybody once, what is queued is written eventually, a connection closed by
  its peer is closed here.
* **EthernetQueue.** No lock: an interrupt may come between any two statements,
  also between `bw_++` and the wrap test that repairs the index. Correct: it is
  a bounded FIFO queue.
* **DhcpServer.** Offers reserve nothing, refused requests are not answered,
  answers are lost. Correct: one entry per client, an address in use stays
  registered, every client gets an address in the end.
* **ArpController.** The counters wrap, ageing deletes lines of the table it
  walks. Correct: latest address, silent hosts leave in bounded time, fresh ones
  stay, nobody is dropped without having been asked as often as could be.
* **EthernetRouter.** One-shot timers must be armed again on every path; deleting
  a listener is deferred to the next routed frame. Correct: a deleted listener
  is not called after that frame, an added one is. (One that is deleted and added
  again before that frame is removed: the properties leave this case out.)
* **WsChannel.** An application that is called back changes the lists that are
  being walked; lwIP gives the memory of a closed pcb, which a list still holds,
  to the next connection. Correct: an open websocket is in its channel's list, and
  the node a walk stands on survives as long as its connection is open.
* **UdpChannel.** Correct: the datagrams that are sent of a buffer are its first
  bytes in their order, without a gap, an overlap or an empty datagram, and a reply
  goes to the sender. (How many are sent depends on the pbufs there are.)
* **freertos/UdpVoidChannel, UdpChannel.** Threads share a socket number and an
  address of several words. Correct: no datagram goes to a mixture of two
  addresses, the number in `socket_` is another's only between the two statements
  that close and clear it, what waits is received, a reply goes to the sender. (A
  thread that has loaded the number before it was cleared may use another's socket
  later: the code does not prevent it.)
* **freertos/DnsServer.** A task is deleted wherever it is. Correct: a search sees
  one list, and a server that is not started has left no socket and no task behind.
  (The mutex of the list may be lost with its holder, when `stop()` deletes it.)
* **DnsServer.** Correct: a query is read as it was sent, and nothing outside the
  packet and the name's array is touched.
* **EthernetUtilities.** Correct: a receiver accepts the checksums of frames that
  are made, and of forwarded datagrams and segments that came with one.

## 2. The modules

| Module | Models | Runs |
|---|---|---|
| `TcpServerChannel` | TcpServerChannel.cpp | `tcp_channel`, `tcp_full_table` through `MCTcpServerChannel` |
| `TcpServerChannelProofs` | theorems | |
| `EthernetQueue` | EthernetQueue.cpp, statement by statement | `queue_rx_interrupt`, `queue_tx_interrupt` through `MCEthernetQueue` |
| `EthernetFifo` | what the queue promises: a bounded FIFO queue | property `ImplementsFifo` |
| `EthernetQueueProofs` | theorems | |
| `ArpController` | table and ageing of ArpController.cpp | `arp_table` through `MCArpTable`, `arp_table_full` through `MCArpController` |
| `EthernetUtilities` | checksums of EthernetUtilities.cpp | `arp_table` through `MCArpTable` |
| `ArpTableProofs` | theorems of the two | |
| `DhcpServer` | handlers of DhcpServer.cpp, clients and network | `dhcp_safety`, `dhcp_no_memory` through `MCDhcpServer` |
| `DhcpPool` | the loop of DhcpServer's constructor | in `DhcpSystem` |
| `DhcpSystem` | composes `DhcpPool` and `DhcpServer`: the constructor, then the handlers | `dhcp_system` through `MCDhcpSystem` |
| `DhcpProofs` | theorems of the three | |
| `EthernetRouter` | EthernetRouter.cpp: rounds, listeners, timer events | `router` through `MCEthernetRouter` |
| `EthernetRouterProofs` | theorems | |
| `DnsQuery` | parse_next_query of both DNS servers | `dns_server` through `MCDnsServer` |
| `DnsServerTask` | freertos/DnsServer.cpp: task, start and stop, list of hosts | `dns_server` through `MCDnsServer` |
| `DnsProofs` | theorems of the two | |
| `UdpVoidChannel` | freertos/UdpVoidChannel.cpp, access by access | `channels` through `MCChannels` |
| `UdpTaskChannel` | freertos/UdpChannel.cpp | `channels` through `MCChannels` |
| `UdpChannel` | UdpChannel.cpp | `channels` through `MCChannels` |
| `WsChannel` | WsChannel.cpp | `channels` through `MCChannels` |
| `ChannelProofs` | theorems of the four | |
| `ForwardList` | `std::forward_list::remove_if`, as the router, the websocket channels and the DNS server use it | |
| `ListTheorems` | lemmas about sequences, and about removing from them and concatenating them | |

`MCChannels`, `MCDnsServer` and `MCArpTable` put components side by side that do
not interact: a variable that never changes (`channel`, `part`) says which one a
behaviour is about, and the others stay in their initial state.

Every module begins with a comment that says what its variables stand for;
operators keep the names of the functions they translate. Definitions marked
"Mutant" are not part of any specification: each is a plausible bug of the
definition after it, and a run must find the bug when it replaces that
definition. `PROJECT.json` maps every definition to its lines.

### TcpServerChannel

A connection is the heap address of its `TcpServerParameters_t`: `state`, `p`
(the length of the queued chain), `sndbuf` and `sentCb` are the fields of that
block and of its pcb, `connectionsBuffer` and `connectionsCounter` the table,
`handles` the parameters the application has been shown and may pass to `tx()`
at any later time. One action for each lwIP callback (`Accept`, `ReceiveData`,
`ReceiveFin`, `Poll`, `Ack` with `sent`, `Error`) and each call of the
application (`initialize`, `deinitialize`, `Tx`, `Destroy`). On bare metal lwIP
runs in the main loop, so a callback is one step; the loop of `tx()` without a
target takes a step for each slot (`TxAllBegin`, `TxAllStep`, `TxAllEnd`), in
which a failing write can leave data queued, and nothing else runs in between
(`LwipRuns`, `AppRuns`). `malloc_s`, `tcp_write` and the number of pbufs are
nondeterministic: any of them may fail, a write may take only part of the chain.
A freed address may be allocated again.

The console's messages are left out but for those that read memory which is not
there: with `USE_CONSOLE` and `TCP_SERVER_USE_CONSOLE` (`Console`), `receive()` and
`poll()` print a port they take from the connection that `close()` has just freed
(lines 163-168, 245-249), and `accept()` one it takes through a null pointer when
`malloc_s` fails (`AcceptFails`, line 143). `fault` is set there, and
`NoUseAfterFree` is about the builds without these messages.

### EthernetQueue

A step for each statement that reads or writes shared memory; the copies of a
frame take two steps, one for each half. `Preempting` says which side is the
interrupt: that side may run its call between any two statements of the other
and then runs to its end. `D_A_MIN_B_MOD_C` is a macro of another repository;
it is modelled by what its name and its uses say, and as one read of both
indices, which is exact for the preempting side and for a side that reads only
one index that changes. `EthernetFifo` is the abstract specification; the
refinement maps its queue to the slots from `br` on.

### ArpController

The table is the sequence of the first `recordCounter` lines, as no lookup reads
beyond the counter. `parseFrame` covers requests and replies, which change the
table in the same way; the reply frame that is sent has no effect on the class.
`voidCallback` is the ageing loop with its deletions: `Deleted` and `Aged` say
which lines the index meets, as a line that moves into a deleted one is passed
over. `addIpForArpReply` may add an address any number of times; with it is kept
which hosts its mask leaves in its subnet (`subnet`), as `sendArpRequest` asks for
a host from those addresses only, and not at all when `malloc_s` fails
(`noMemory`). Histories count the callbacks since a host was heard (`age`), those of
them that asked for it (`asked`), and those in which its refresh time had passed
and no request could be sent (`hindered`), up to `MaxAge`. `AskedBeforeDelete` says
that together they are at least the callbacks between the two times: a host is
dropped unasked only after as many callbacks in which it could not be asked.

### DhcpServer and DhcpPool

`mac` is the column of hardware addresses of the table; entry *i* is the
*i*-th address of the pool, which `DhcpPool` shows to be the range asked for.
`Discover`, `Request`, `Inform` are the branches of `udp_recv_proc`, from the
packet taken to the answer sent, one step each as lwIP runs it to its end.
`Register` is what the last two share: free the client's entry, look for the
address asked for, allocate, write. A DHCPREQUEST without an address in its
options is dropped at once and is not sent here. The clients and the link are
not in the repository: clients follow RFC 2131's diagram, with repetitions,
timeouts, restarts with a remembered address, and addresses of other networks
(`Foreign`). `current` abstracts `dp_xid`: whether a message belongs to the
client's present exchange. The link keeps each client's order and loses what it
likes. Leases do not expire in the code, nor here.

`DhcpPool` is the constructor's loop with bytes of any width, `startIp + i`
compared as a wide sum and stored as a byte, as in the code. Its precondition is
that the range lies in the subnet, `first + number <= Bytes`: then the wrap of
the byte happens for `startIp` past the end only.

### EthernetRouter

A `forward_list` grows at its front; an iterator is modelled by the number of
nodes from its own to the end, which `push_front` keeps. `round` holds the
iterators of `routeFrames`, and `TypeOK` says that they are in their lists. A
round takes steps (`RouteBegin`, `PullOther`, `PullFrame`, `CallListener`,
`WalkEnd`, `RouteEnd`), between which the application's calls (`addInterface`,
`addListener`, `deleteListener`, `start`) may come, as they do from a listener's
callback, and so may the timer. `armed` counts the timer events in flight.
`RouteNothing` is the early return without interfaces. `link`, `plugged` and
`LinkCheck` are the once-a-second check. The calls for all interfaces are one
action for each interface. Which frames go to lwIP and to the ARP controller is
not modelled. When frames are routed in the timer, an application call from the
main loop is taken as a whole.

### DhcpSystem

The constructor runs to its end before lwIP can call `udp_recv_proc`, so
`Construct` is enabled while `num_entry` is 0 and `Serve` afterwards. The number of
addresses the constructor leaves is the `NumEntry` that `DhcpServer` leases.

### DnsQuery

One action for a turn of the loop in which a label is copied or refused, and one
for its end. The dot that is written before a refused label is not kept: the
query is dropped then. `Byte` is any set of numbers, so that TLC can take a few
and the proofs all 256. `IsChain`, `IsQuery` and `NameOf` are the reference: they
say without a loop which sets of positions are the length bytes of a name.

### DnsServerTask

The task takes a step for each call that may wait and for each record its search
looks at; the application's thread takes a step for each statement of `start` and
`stop`, and changes the list in one step under the mutex. The parsing of a query
touches nothing that is shared and is one step with the receiving of it.
`deleteMainProcedure` and `addMainProcedure` are of another repository: the first
deletes the task where it is, so a task that stops itself ends there
(`StopSelf`), with `isStarted_` still set and its socket open, until the
application calls `stop()`. `seen` and `lost` are histories: the list when the
search began, and whether `stop()` has deleted a task that held the mutex. That
last case does occur, and nobody can change the list after it; `NothingLeftBehind`
says that it is the only one.

### UdpVoidChannel, UdpTaskChannel

In `UdpVoidChannel` a thread takes a step for each access to the object: `Load`
reads `socket_` into the argument of a call, the call itself is a later step, and
an address is copied in two halves. `pc` is the statement a thread is at; `tx`
runs in any thread, also in the receiving one from the callback. `closesocket` and
`socket_ = -1` are two steps, between which lwIP may give the number to another
user (`OtherSocket`). `poll` reports data, a number without a socket, or a
failure, and may wait for ever. `UdpTaskChannel` is one task and one thread; what
the module is about is where a reply goes, with ports in either byte order
(`Swapped`). `taskSocket` tells the socket with number 0 from the others, as the
destructor does not close that one. Its task may call through a null callback when
`deinitialize()` comes between the test and the call (`"crashed"`): nothing in the
code prevents it.

### UdpChannel, WsChannel

lwIP runs on the main loop: a callback is a step, and where it calls the
application there is a step for each of the application's calls from within. In
`UdpChannel`, `chain` is the number of pbufs still to be handed over; `UdpTx`
sends as many datagrams as `pbuf_alloc` gives pbufs for. In `WsChannel`, a pcb is
the address of its block, which lwIP uses again; `checkPcbs` reads the state of
blocks that are somebody else's by then, as the code does, so a list may hold a
connection twice or one of another channel. `walk` is the node `websocketCallback`
stands on. When that node is erased (data that comes with the FIN and an
application that then calls `tx()`) the loop goes on from freed memory: the model
ends the walk, and `WalkSafe` says that this is the only way to get there.

### EthernetUtilities

A frame is what its two checksums cover: the addresses and the sum of the other
words (`rest`, `ipRest`), since a sum does not depend on which words it is made
of. `createUdpFrame` lays out the bytes and calls `calculateNetworkChecksum` as
the code does; `Verifies` and `IpVerifies` are the receiver's test, in arithmetic
modulo 2^16-1. `changeIp` adjusts the checksum of the datagram or segment with
`adjustNetworkChecksum`, then overwrites the addresses, then "adjusts" the IP
header's checksum from the new addresses to the new ones, which leaves it as it
was. A datagram may come without a checksum (0): `changeIp` adjusts this 0 like
any other, which makes it a wrong checksum, as the code does. `checked` remembers
whether the frame came with one, and `ForwardedVerifies` speaks of those that did;
it says nothing of the IP header's checksum either. (An adjusted checksum of a
datagram that happens to be 0 reads as none, and is accepted as well.) `Bytes` is
256 in the code and any number in the module. The test for a datagram that is too
long for a frame is left out: it returns at once.

## 3. The runs

All bounds are CONSTANTS of the .cfg files.

| Run | Instance | Shows |
|---|---|---|
| `tcp_channel` | 2 addresses, 3 slots, 2 pcbs, messages of up to 2 pbufs, send buffer of 1 | `TableInv`, `NoUseAfterFree`, `BroadcastReachesAllOnce`, and under fairness `FlushEventually`, `ClosingEventuallyCloses` |
| `tcp_full_table` | 3 addresses, 2 slots, 2 pcbs | violates `EveryConnectionTracked` (finding 1) |
| `queue_rx_interrupt` | ring of 4, producer is the interrupt | `CopiesApart`, `ImplementsFifo`, `TresholdKept` |
| `queue_tx_interrupt` | ring of 3, consumer is the interrupt | violates `CountWithinCapacity` (finding 2) |
| `arp_table` | 3 hosts, 4 lines, 1 own address, 2 lines for replies, subnets of 2 hosts and of all, times 1 and 3; any requests without memory; bytes of 2 bits, 4 addresses, data of 1 to 4 bytes | `LatestMac`, `SilentHostExpires`, `FreshRecordKept`, `AskedBeforeDelete`; `SentVerifies`, `ForwardedVerifies` |
| `arp_table_full` | 3 hosts, 3 lines | violates `CreatedRecordFound` (finding 3) |
| `dhcp_safety` | 3 clients, 2 entries, 1 foreign address, 1 message each way, hasty clients | `OneEntryPerClient`, `BoundIsRegistered` |
| `dhcp_system` | bytes of 2 bits, all constructor arguments that leave 2 entries and have the own address in the range; 2 patient clients | `PoolIsRange`, `EventuallyBound` |
| `dhcp_no_memory` | 2 clients, 2 entries, pbuf_alloc may fail | violates `NoDuplicateAddress` (finding 4) |
| `router` | 2 interfaces, 1 listener, 3 registrations | `AddedStaysRegistered`, `WalkCallsTheRegistered`, `DeletedUncalled`, `EveryIfaceServed`, `LinkFollowed` |
| `dns_server` | 3 byte values, packets of up to 9 bytes, names of up to 4; 2 host names, lists of up to 3 | `NameFits`, `ParsesQuery`; `SearchUndisturbed`, `NothingLeftBehind` |
| `channels` | void: 1 sender besides the receiver, 2 sockets, 2 peers; task: 2 hosts, 2 ports; udp: 2 peers, chains of 2, buffers of up to 5 bytes, MSS 2; ws: 2 channels, 2 pcbs, lists of 2 | `WholeDestination`, `StaleOnlyWhileClosing`, `DatagramsTaken`; `RepliesToSender`; `SentInOrder`; `OpenIsListed`, `WalkSafe` |

The passing runs also check a type invariant for their modules, except the two
DHCP runs, whose type invariants are proved.

Why the bounds are enough.

* *TCP*: two connections are the least with a table of which a middle part moves;
  three slots leave one free, which is the hypothesis of the invariant; a message
  of two pbufs into a buffer of one is always written in parts. The theorems cover
  all other sizes.
* *Queue*: in a ring of four the indices wrap, the ring is full with three frames,
  and a pull is interrupted by as many pushes as there is room. The theorems cover
  all sizes. Two frames suffice as the queue never looks into them.
* *ARP*: three hosts give ageing two deletions in one callback with a line passed
  over between them; the times 1 and 3 keep refreshing, waiting and deletion apart.
  Size is one more than the hosts, as a full table loses all (finding 3). With two
  lines for replies the second address that is added empties that table, so the
  subnet changes and is empty in turn. The theorems cover every number of each.
* *DHCP*: three clients for two entries give an offer made twice and an exhausted
  pool. One message each way with arbitrary losses and repetitions already gives
  stale requests and answers; theorems cover every number of each. Liveness needs
  an entry for each client.
* *DhcpPool*: the arithmetic depends on the width of bytes by the wrap only, and
  the theorem covers all widths. The run keeps the arguments for which the loop
  steps over the own address.
* *Router*: one listener is registered up to three times over two interfaces,
  so lists with repetitions, empty lists and deletions of several entries occur.
  Two listeners were run too, with the same result, and take too long to keep;
  their order is what `SpecWalkCallsTheRegistered` shows for any number.
* *DNS*: values 0, 1, 2 are the end of a name and labels of two lengths; in nine
  bytes a name of four labels fits, and one that is too long by one; the theorem
  covers all lengths. The task's list of three records has one that is found
  first, one behind it and none.
* *Checksums*: with bytes of two bits a few words give every kind of carry, both
  zeros and both parities; the theorems cover every width.
* *Channels*: the receiver and one sender are the two that disagree about an
  address, and two sockets let another user get the number just closed; the
  theorems cover any number of both. Ports have bytes that differ, so a swap shows.
  A buffer of 5 with MSS 2 has full and short last datagrams and sizes that are a
  multiple. Two channels and two pcbs give blocks used again by the other channel;
  `MaxListed` bounds the duplicates.

`CHECK_DEADLOCK FALSE` stands where the program stops: the channel is destroyed,
the constructor or the parser returns.

### Fairness

* *TCP* (`FairSpec`): `tx()`'s loop runs to its end (weak). `PollWritesAll(c)` is
  strong: lwIP's timer calls `poll` for ever, and memory is not exhausted at every
  one of these calls. `Answered(c)` is strong: what is in flight is acknowledged,
  or lwIP gives the connection up and calls `error`. Nothing is assumed of the
  application or the remote host.
* *DHCP*: the link does not lose all messages of a kind (strong on the server's
  and the client's handlers), a client retries and times out. A patient client
  waits for its answer or for the loss of it, `Hasty = FALSE`: one that always
  gives up before its answer arrives would never be served.
* *Router*: weak for `Route`, as the main loop goes on and callbacks return;
  strong for `LinkCheck`: an event that is set is not passed over for ever.
* *UdpVoidChannel*: threads that can go on do (weak), the mutex is fair to the
  receiving thread (strong on its two `Lock`s), the callback returns. Nothing is
  assumed of the application calling `tx()` or of lwIP.

## 4. The proofs

Every invariant and every action property of the passing runs is a theorem for
all values of the constants; the modules' own assumptions (`ASSUME`) hold for all of
them, and the last column says what a theorem assumes besides.

| Theorem | States | Assumes |
|---|---|---|
| `TcpServerChannelProofs!SpecTypeOK` | `TypeOK` |  |
| `TcpServerChannelProofs!SpecTable` | `TableInv`, `NoUseAfterFree`, `DestroyClosesAll` | `NumPcb < NumBroadcast` |
| `TcpServerChannelProofs!SpecNoUseAfterFree` | `NoUseAfterFree` (says nothing when `Console`) | `NumPcb < NumBroadcast` |
| `TcpServerChannelProofs!SpecBroadcast` | `BroadcastReachesAllOnce` | `NumPcb < NumBroadcast` |
| `EthernetQueueProofs!SpecTypeOK` | `TypeOK` | `Preempting = "producer"` |
| `EthernetQueueProofs!SpecCopiesApart` | `CopiesApart` | `Preempting = "producer"` |
| `EthernetQueueProofs!SpecTresholdKept` | `TresholdKept` | `Preempting = "producer"` |
| `EthernetQueueProofs!SpecImplementsFifo` | `ImplementsFifo` | `Preempting = "producer"` |
| `EthernetRouterProofs!SpecTypeOK` | `TypeOK` |  |
| `EthernetRouterProofs!SpecAddedStaysRegistered` | `AddedStaysRegistered` |  |
| `EthernetRouterProofs!SpecWalkCallsTheRegistered` | `WalkCallsTheRegistered` |  |
| `EthernetRouterProofs!SpecDeletedUncalled` | `DeletedUncalled` |  |
| `ArpTableProofs!SpecArpTypeOK` | `TypeOK` |  |
| `ArpTableProofs!SpecLatestMac` | `LatestMac` |  |
| `ArpTableProofs!SpecSilentHostExpires` | `SilentHostExpires` |  |
| `ArpTableProofs!SpecFreshRecordKept` | `FreshRecordKept` |  |
| `ArpTableProofs!SpecAskedBeforeDelete` | `AskedBeforeDelete` |  |
| `ArpTableProofs!SpecCreatedRecordFound` | `CreatedRecordFound` | `Cardinality(Hosts) < Size` |
| `ArpTableProofs!SpecSentVerifies` | `SentVerifies` |  |
| `ArpTableProofs!SpecForwarded` | `ForwardedVerifies` |  |
| `DhcpProofs!SpecInv` | `PoolTypeOK` and the loop's invariant |  |
| `DhcpProofs!SpecPoolIsRange` | `PoolIsRange` |  |
| `DhcpProofs!SpecOneEntry` | `TypeOK`, `OneEntryPerClient` |  |
| `DhcpProofs!SpecRegistered` | `BoundIsRegistered`, `NoDuplicateAddress` | `AllocFails = FALSE` |
| `DhcpProofs!SystemOneEntry` | `OneEntryPerClient`, `PoolIsRange` of the composition |  |
| `DhcpProofs!SystemLeasesApart` | `LeasesApart`: clients have different addresses of the range, and none the server's | `AllocFails = FALSE` |
| `DnsProofs!SpecBothTypeOK` | `BothTypeOK` |  |
| `DnsProofs!SpecInBounds` | `TypeOK`, `NameFits` |  |
| `DnsProofs!SpecParsesQuery` | `ParsesQuery` |  |
| `DnsProofs!SpecSearchUndisturbed` | `SearchUndisturbed` |  |
| `DnsProofs!SpecNothingLeftBehind` | `NothingLeftBehind` |  |
| `ChannelProofs!SpecTypeOK` | `TypeOK` of the four channels |  |
| `ChannelProofs!SpecWholeDestination` | `WholeDestination` |  |
| `ChannelProofs!SpecStaleOnlyWhileClosing` | `StaleOnlyWhileClosing` |  |
| `ChannelProofs!SpecRepliesToSender` | `RepliesToSender` |  |
| `ChannelProofs!SpecSentInOrder` | `SentInOrder` |  |
| `ChannelProofs!SpecOpenIsListed` | `OpenIsListed` |  |
| `ChannelProofs!SpecWalkSafe` | `WalkSafe` |  |

The arguments.

* *TCP.* `IInv` is `TypeOK`, `PcbInv` (no more connections are open than lwIP has
  pcbs), `TableInv`, `NoUseAfterFree`, `DestroyClosesAll` and `LoopInv` (what the
  loop of `tx()` has reached is what the slots behind its index hold). `TableInv`
  alone is not inductive: without `PcbInv` an accept may find the table full, and
  then the deletion of line 499 breaks it, which is finding 1. The hypothesis
  `NumPcb < NumBroadcast` is what a configuration must keep.
* *Queue.* `IInv` is `TypeOK` and `RingInv`: while the interrupted side is at a
  statement, indices and count stand in a fixed relation, the slot being copied
  out is not free, and what `getFree` promised is still free. It fails for a
  consumer that interrupts (finding 2).
* *DhcpPool.* The loop's invariant says which part of the range the entries so far
  are, and that the own address is passed over at most once.
* *DHCP.* `IInv` is `TypeOK`, `OneEntryPerClient` and, for each client, `ClientInv`:
  its messages of the present exchange stand behind those of earlier ones, those
  of the present exchange ask for its address only, and once one of them is
  answered (`Settled`) the address is registered and no earlier message is left.
  `BoundIsRegistered` alone is not inductive: a late request for another address
  would free the entry of a client that is bound. The hypothesis is needed:
  finding 4 is what happens without it.
* *DNS.* While the call runs, the positions of the length bytes read so far form a
  chain, the name is what stands between them, and *every* name that the packet
  can have begins with this chain (`OnTheWay`). The last part makes the refusals
  right: a label that is cut off or too long is one of every such name.
* *Checksums.* `Minus` and `Plus` keep a number congruent, modulo 2^16-1, to the
  difference and to the sum, and in the range of a word (`MinusIsRight`,
  `PlusIsRight`); so the adjusted checksum plus the new addresses is congruent to
  the old one plus the old addresses (`AdjustIsRight`), and `Verifies` is kept by
  every frame in which the code adjusts (`needProtoCsCalculation`), which those that
  came with a checksum (`checked`) are.
  For `SentVerifies`: the sum by words is the sum of the bytes with their weights,
  for an even and an odd number of them; two folds leave a word that is congruent
  to a sum of at most 2^16 words, so the pseudo header's sum may be the start of
  the next; and the word that is written makes the whole a multiple of 2^16-1 that
  is not zero. The module assumes a frame shorter than 2 (2^16-1) bytes: a third
  fold would be needed otherwise, and the code makes frames of 1536 bytes at most.
* *ARP.* `ArpInv` is `TypeOK`, `OneRecord` (no address has two records), for each
  line `IsTold` (what the record says of its host's address, and how its time
  stands to `age`, `asked`, `hindered` and the line it is in), and that `asked`
  and `hindered` are at most `age`. `Deleted` and `Aged` are described line by
  line (`DeletedLines`, `AgedLines`); from that follows where a record comes from
  and that a pass takes it to a line further to the front for each deletion before
  it (`AgedPlaces`). `SilentHostExpires` alone is not inductive: the time of a
  record that is passed over does not grow, and only the line it moves to bounds
  how often that can happen. `SpecCreatedRecordFound` says when finding 3 cannot
  occur.
* *Router.* `IInv` has `ListInv`, which relates a listener's `fate` to the two lists
  (what is neither added nor leaving is not in the list; what is leaving is
  in the list of deletions), and `WalkInv`: the list a walk goes over ends with the
  listeners that were in it when the walk began, and the walk has called those in
  front of its iterator. None of the three properties is inductive alone: the two
  action properties speak of one moment of a walk, and that an added listener is
  in the list does not say what becomes of the others when it is deleted.
  That the iterators count from the end makes them stand still when callbacks
  add to a list, and nothing is removed before the walk's end.
* *UdpVoidChannel.* `IInv` has the threads' places, `MutexInv` (a thread at one of
  the four statements between lock and unlock holds the mutex) and `AddressInv`:
  `dstAddr_` is a mixture only between the receiver's two stores, and what a sender
  has read of it is a half of what is there now. `WholeDestination` alone is not
  inductive: it says nothing of a copy that is half done. `StaleOnlyWhileClosing`
  needs the types only, as the socket is closed by nobody but the threads that
  clear the number next.
* *UdpTaskChannel.* `SourceInv` says how much of the sender `dmSource_` holds at each
  of the task's statements; a port turned over twice is itself (`SwappedTwice`).
* *DnsServerTask.* `IInv` has `MutexInv` (who holds the mutex at which statement, or
  that it is lost) and `StartInv` (how many sockets and tasks there are at each
  statement of `start()` and `stop()`). `SearchUndisturbed` alone is not inductive:
  without `MutexInv` the list may change within a search.

* *UdpChannel.* A lemma for each: where the datagrams begin (`DatagramsWithin`), how
  long they are, and that their concatenation counts from 1. `UdpInv` says that
  what was sent are the first datagrams of the buffer, as `pbuf_alloc` may fail at
  any of them, and that `dmSource` is the sender of the chain being handed over.
* *WsChannel.* `WsInv` has `OpenIsListed` and, for the walk, where its node is in the
  list. `checkPcbs` removes closed connections only, so the node keeps its
  connection and is moved by what is removed before it; `ListTheorems` says where
  the elements of a list are after a removal (`FilteredLines`).
* *DhcpSystem.* Neither part disturbs the other (`SystemImplements`), so both parts'
  theorems hold of the whole. The table has no repetitions, so it has as many
  entries as the range has addresses (`NumEntryIs`), which is the number the
  server leases; then two clients with different entries have different addresses.
* *Types.* The runs' type invariants speak of several components at once;
  `BothImplements` and `AllImplement` say that a behaviour of the run is one of each
  component. For the server's list and the websockets' the types need that
  removing does not make a list longer (`FilteredShorter`).

Recursion: a recursive function of the models (a list after a removal, the table
after ageing, a sum, a concatenation) is dealt with as a function whose value at
*i* is given by the one at *i - 1* (`RecursionOf`); a claim about all its values is
proved by the least number for which it fails.

Only model-checked: the liveness properties `FlushEventually`,
`ClosingEventuallyCloses`, `EventuallyBound`, `EveryIfaceServed`, `LinkFollowed` and
`DatagramsTaken`, because fairness and ENABLED are out of the prover's reach, and
what the violating runs find.

## 5. Findings

1. *TcpServerChannel.cpp:499.* The shift that closes the gap of a deleted entry
   stops before the last slot, which is not cleared. After a deletion from a full
   table its last connection stands in it twice; the next connection finds no free
   slot, is counted but not stored, and gets neither broadcasts nor answers.
2. *EthernetQueue.cpp:71.* `bw_` is incremented in one statement and wrapped in the
   next. A consumer that preempts in between, with `br_` already wrapped, counts
   `size_` frames in an empty queue, and pulls old frames. (This depends on
   `D_A_MIN_B_MOD_C`, a macro of another repository, adding the size to a negative
   difference only; a true remainder would give 0 here.)
3. *ArpController.cpp:196.* The record that fills the table sets the counter to 0,
   which makes all records unreachable. The property is about hosts whose hardware
   address was not known or has changed.
4. *DhcpServer.cpp:309, 344.* The client's entry is freed before the answer is
   allocated. If that fails, the address of a client that uses it is given away.

More observations are in the models and no run is about them, as nothing in the
repository says otherwise:

* `changeIp` leaves the IP header's checksum as it was before the addresses changed
  (EthernetUtilities.cpp:294), and gives a datagram that came without a checksum a
  wrong one (283).
* `receive()` and `poll()` of the TCP channel print from a connection they have
  freed, and `accept()` through a null pointer (TcpServerChannel.cpp:163, 245, 143),
  in builds with the console's messages.
* `stop()` of the FreeRTOS DNS server (freertos/DnsServer.cpp:236) may delete the
  task that holds the mutex of the list of hosts.
* A thread of the FreeRTOS `UdpVoidChannel` may use a socket number it loaded before
  another thread closed that socket (freertos/UdpVoidChannel.cpp:196), and the
  FreeRTOS `UdpChannel` never closes socket number 0 (freertos/UdpChannel.cpp:119).
* A listener that is deleted and added again before the next frame is removed
  (EthernetRouter.cpp:278).
* A websocket's walk goes on from an erased node when data comes with the FIN and
  the application answers it (WsChannel.cpp:175).

## 6. Not modelled

* lwIP's callbacks in a timer interrupt (`routeFramesInTimer`) during a call of
  `TcpServerChannel`, and ageing that preempts `parseFrame`: whether they can is
  decided by the platform, outside this repository.
* The destructor of the FreeRTOS `UdpVoidChannel`: it closes the socket and frees
  the object without ending the receiving thread, so every step of that thread
  after it is undefined.
* Contents of frames except checksums, console output (but see `Console`), the
  pools of memory (leaks), constructors and destructors that keep no state.
* DHCP options byte by byte, so also not the reading of options that a longer
  packet left in the buffer.
* The branches for the ZYNQ, whose hardware computes checksums; joining a
  multicast group; the build of the DNS server that answers every query.

## 7. The plan

Done: all components of the inventory but the build files, and a theorem for every
invariant and action property of the passing runs. What could follow:

1. Theorems about the other sides of the findings: with which configurations
   `CountWithinCapacity` and `EveryConnectionTracked` hold.
2. Refinements: the ARP table as a map from hosts to addresses, the broadcast table
   as a set.
3. `ArpController`: ageing that preempts `parseFrame`.
4. `TcpServerChannel`: the pool of pbufs, callbacks that preempt.
5. The composition of `EthernetRouter` with `ArpController` and `DhcpServer`, which
   are its listeners.
