# Z80ATmega128 in TLA+

The board runs CP/M on a Z80 whose memory, devices and interrupts are served by
an ATmega128. The firmware (`src/avr/src`) emulates a console and a disk, whose
images are files on an SD card; the BIOS (`src/z80/cpm22/bios/bios.asm`) uses
them from the Z80; a monitor and a debugger look into the Z80's memory while it
runs. The two processors run at the same time and meet at a few wires, an
interrupt queue, two ring buffers, the request records of a disk and the bus.
That is where this code can go wrong in ways a session at the terminal hardly
shows, and it is what is modelled here, down to the sectors of the card.

All modules are plain TLA+. `MC*.tla` give constants to TLC, `*.cfg` are the
runs, and `*Proofs.tla` hold the proofs, one module for each module proved about.
`PROJECT.json` lists components, runs, hazards, findings and, for each
definition, the lines it models.

    tlc -config MCZ80ExtInt.cfg MCZ80ExtInt.tla
    tlapm Z80ExtIntProofs.tla

## 1. The system

### Components, their state and operations

| component | source | state | operations |
|---|---|---|---|
| interrupt path | `z80io.c`, `isr.c` | `int_queue` with head and tail, `z80_int_vector`, the `/INT` pin, `/WAIT` | `Z80_EXTINT_enqueue`, `INT4_vect` with `Z80_EXTINT_dequeue`, `Z80_RESET`, and the monitor's `Z80_EXTINT` |
| bus arbitration | `z80io.c`, `isr.c` | `/BUSREQ`, SRE, the shadow window, Timer2's nesting flag | `ExtMem_attach`, `ExtMem_detach`, `Z80_BUSREQ` |
| console device | `em_consoleio.c`, `xconsoleio.c` | `cb_rx1`, `cb_tx1`, two interrupt levels; the monitor's own line | UART receive, Timer0 transmit, ports 00-08 |
| BIOS console | `bios.asm` | `IS_CONIN_QUEUING`, `IS_CONOUT_FREE` | `CONIN`, `CONOUT`, `ISR_02`, `ISR_03` |
| emulated disk | `em_diskio.c`, `isr.c` | `fd[]` with a read and a write request each, `cfd`, the latched positions, two levels, `tmpbuf` | ports 0A-14, `em_disk_read` and `em_disk_write` in Timer2, `init_em_diskio` |
| FatFs | `fatfs/ff.c` | the sector window, the volume, the file objects | mount, open, read, write, seek, sync, close |
| SD card driver | `fatfs/mmc_avr_spi.c`, `fatfs/diskio.c` | `Stat`, `CardType`, two timers | `disk_initialize`, `disk_read`, `disk_write`, `disk_ioctl`, `mmc_disk_timerproc` |
| BIOS disk calls | `bios.asm` | `IS_READ_DONE`, `IS_WRITE_DONE` | `READ_SUB`, `DO_WRITE`, `SELDSK`, `BOOT`, `WBOOT`, `ISR_00`, `ISR_01` |
| BIOS blocking | `bios.asm` | `DMABUF`, the cache flag, the pending write | `READ`, `WRITE`, `WRITE_FLUSH`, `SELDSK`, `WBOOT` |
| debugger | `em_debugger.c`, `bios.asm` | the table of breakpoints, the RST codes in RAM, the report | set, delete, list, `dbg_Continue`, the stop port |
| monitor | `monitor.c` | the line buffer | the command table; load, save, EEPROM images |
| external RAM | `monitor.c` | none | `read_extram`, `write_extram` |
| Intel HEX | `intelhex.c` | a record | the loader |
| XMODEM | `xmodem.c` | block and retry counts of both sides | `r_xmodem`, `s_xmodem` |
| port dispatch | `emuldev.c` | handler tables, sequencers | INT0, INT1 |
| boot of the AVR | `main.c`, `timer.c`, `usart.c` | pins, rates | the order of the set-up |

The vendored headers (ASF) and the CP/M loader, patches and images are not
modelled.

### How they interact

* Z80 to AVR: an `IN` or `OUT` stops the Z80 in `/WAIT` and raises INT0 or INT1;
  the handler runs with interrupts off and calls the function of the port. So a
  port access is one atomic step of both processors.
* AVR to Z80: any handler calls `Z80_EXTINT_enqueue`. The first entry pulls
  `/INT`. The acknowledge cycle of the Z80 holds it in `/WAIT` and raises INT4,
  which puts the vector on the bus, lifts `/INT`, releases the Z80, and only then
  dequeues and pulls `/INT` for the next entry.
* The service routines of the BIOS only set a flag. `CONIN`, `CONOUT` and the
  disk calls clear their flag, ask, and spin on it.
* Timer2 polls the requests of the selected drive and runs FatFs **with
  interrupts on**: every other handler, and the Z80, may run inside a transfer.
* To touch the Z80's memory the AVR asks for its bus and maps it in. Timer2 does
  so inside a transfer, and the monitor in the main loop.
* FatFs calls the card's driver, which waits on two counters, `Timer1` and `Timer2`, that
  the handler of the AVR's timer 2 (`TIMER2_COMP_vect`, called Timer2 here) counts down.
* The monitor runs in the main loop; it resets the Z80, copies memory, sets
  breakpoints and raises interrupts of its own at any time.

### What is hard, and what would make it right

* Two views of "the queue is empty", in enqueue and in INT4, must agree, or all
  interrupts stop: `LineMirrorsQueue`, `VectorIsHead`, `EveryVectorDelivered`.
* A flag set late, by a vector that waited in the queue, must not be taken for the
  answer to a later call: `OutputNeverLost`, `ConinHasChar`, `NeverRejected`,
  `SuccessIsTransfer`.
* A call that spins must be woken: `ConoutReturns`, `ConinReturns`,
  `DiskCallsReturn`.
* The drive may not change under a transfer: `SeldskFindsIdle`. The code sees to it
  except across a reset of the Z80 while a call waits.
* One buffer is a read cache and a write buffer: `ReadsBack`, `PendingFits`,
  `CacheIsOnCard`.
* A card that fails in the middle of a call may cost that call, but neither the
  other files nor what was promised before: `ChainsSound`, `PromisesKept`,
  `ReadsTrue`; and the user must get the drive back: `SelectRecovers`.
* A driver that spins must not spin for ever, and may not call a card ready that
  is not: `BootEnds`, `TransferEnds`, `ReadyIsInitialised`.
* The bus is the AVR's while it copies, and nobody waits for a Z80 that waits for the
  waiter: `BusHeld`, `BusFree`, `SpinIsServed`. Attach and detach do not nest, so a
  transfer that comes into a command takes the bus from it.
* Memory is the program with its breakpoints, whatever the order of the commands
  and stops: `MemoryIsProgram`, `TableIsAsked`, `BreakIsReported`.
* Retries and time-outs over a bad line: `ReceivedInOrder`, `SuccessIsComplete`,
  `ReceiverEnds`, `SenderEnds`.

Where the code breaks such a promise in a known case, the model has the case, a
history variable records it (`withdrawn`, `lost`, `crossed`, `mistaken`, `stuck`,
`refused`, `ackLost`), and the property names it as its exception. So a property says:
this and nothing else goes wrong. Section 6 lists the cases as limits of the code.

`PROJECT.json` lists the hazards one by one with their lines; a hazard without a
property says there why.

## 2. The modules

### Interrupts and the console

**BoundedFifo** is the promise of every queue here: accept in order, refuse only
when full, give the oldest. It has no index and no pin.

**Z80ExtInt** is the interrupt path. `Z80_EXTINT_enqueue(v)` is one step, as its
callers have interrupts off. INT4 is two, `INT4_release` and `INT4_dequeue`,
because it ends the `/WAIT` before it advances the queue: the Z80 may do anything
between them, no other handler of the AVR can. `Z80_accept` is the acknowledge
cycle. `Z80_RESET` may come at any moment the main loop runs, also between the
acknowledge and INT4, and leaves queue and line alone. The model relies on the
10 ms of the reset pulse in one place only: a latched INT4 is served before the
Z80 executes `EI` again. `Pending`, the entries not yet put on the bus, is
the refinement mapping to BoundedFifo.

**Z80ExtIntMonitor** adds the commands `int` and `cont`, which write
`z80_int_vector` and the pin from the main loop, statement by statement.

**ConsoleBuffer** has the functions of `xconsoleio.c` on a buffer as operators.
NUL is what `x_dequeue` gives for an empty buffer, and is also a character.

**BiosInt** is the Z80 under the BIOS as far as interrupts go: acknowledge, service
routine, flags. It uses the *abstract* queue, which Z80ExtInt is proved to
implement. `refused` remembers that a full queue dropped a vector. `MainRuns`
says that the main line executes only when no interrupt is due.

**BiosConsole** composes BiosInt and ConsoleBuffer. A BIOS call is cut at each
instruction another actor can see: `CONOUT_check` (DI, IN the count, clear the
flag, EI), `CONOUT_wait` (the spin), `CONOUT_put` (OUT), and the same for CONIN.
The actions `Enqueue_RX1_Buf` and `Transmit_TX1_Buf` are the two handlers.
`BOOT` may come at any time, as after a reset by the monitor.

**Terminal** is the monitor's own line: what `x_puts`, `x_printf` and the help send
and how `x_getc` waits. **Rates** computes divisors and timer periods as the C
expressions do.

### The disk

**EmDisk** is the device, with Timer2 cut into check, start, transfer, notify and
done; each step looks `cfd` up again, as the code does. A transfer has any result;
a write that fails may have reached the card. The byte-wise set-up of a position is
one step here; **Ports** has the sequencers, levels and handler tables of the
port dispatch, and shows that what the BIOS sends byte by byte is what arrives.

**BiosDisk** puts the BIOS on top of EmDisk: boot, warm boot, SELDSK, read, write.
The read of LOAD_CCP_BDOS goes through the same steps, but halts on an error.
`Z80_RESET` and `EndReset` are the two edges of the monitor's reset pulse, 10 ms apart.
They come wherever the Z80 is, also while a call waits, and tell neither the disk nor
the interrupt queue. The monitor is the main program, which Timer2's handler interrupts,
so an edge never falls inside a run of the handler; but the request of a call that was cut
short may be served during the pulse, or wait until BOOT makes its own. `crossed`
records that the last reset ended with a request not at rest.

**CpmDisk** is what programs may expect of a disk with deferred writes; a warm boot
forgets what was not written through, anything else may not.

**BiosBlocking** is blocking and deblocking, one call a step: calls do not overlap
and each waits for its transfers, whose steps are BiosDisk's. `Seen` (the card and,
over it, what waits in `DMABUF`) is the refinement mapping to CpmDisk.

**FatVolume** and **FatFile** are FatFs as this firmware configures it. A function
of `ff.c` is an operator from a state to a state; the accesses to the card are
counted down in `trouble`, so that any one of them can fail, once or from there on
because the card was pulled, and a failed write may have reached the card (torn).
`masked` says that the call is made with interrupts off: then nobody notes that the card was
pulled, and `disk_initialize` answers NEVER, as its first wait has no end.
**FatCreate** adds the modes of `f_open` that create and empty files; `ff.c` compiles them
and this firmware never calls them, so they are checked on their own and are in no run. **FatName**
is how a path becomes an 8.3 name, **FatGeometry** how a boot sector becomes the
numbers of a volume.

**DiskTransfer** is what Timer2 does for one request, over the file functions,
which are parameters of it: `em_disk_read` and `em_disk_write` with `tmpbuf` and
the read-modify-write at both ends, SELDSK with its closing and opening again in INT1,
`init_em_diskio`, and a power cut at any access of a write. A SELDSK that comes to start a
card again never returns, and one under which the card is pulled may not (`stuck`): the
AVR does nothing more until a `PowerCycle`. `content` is what a
program may expect: exactly what it wrote after a success, the old or the new after
a failure. Between EmDisk and DiskTransfer the cut is this: EmDisk has all
interleavings and any result; DiskTransfer has one request a step and the true
result.

**MmcDisk** is the driver, cut at every wait: the waits read `Timer1` and `Timer2`,
which `mmc_disk_timerproc` counts down only while interrupts are on. The card is
of one of several kinds, may be pulled, put back, busy or silent. **CardInfo** has
packets, tokens, response polling, the registers and `disk_ioctl` as functions.

### The bus, the debugger and the monitor

**ExtMemBus** has the users of the bus as they nest: a command in the main loop
with its copies, Timer2 over it, and the I/O handlers over both, against a Z80
that runs, waits in `/WAIT`, gives or takes back its bus, or is reset. `top`
counts the handlers of Timer2 inside each other, `MaxDepth` bounds them. A transfer
comes wherever the command is; its detach disables external memory and lifts `/BUSREQ` under
a command between its own attach and detach, which `withdrawn` records until that command
ends.

**Debugger** is the table of breakpoints, the RST 7 it puts into memory, the stop
port and `cont`; **DebugReport** the report of a stop, byte by byte as
`bios.asm` sends it and as `em_debugger.c` takes it, and what the monitor prints.

**ExtRam** has `read_extram` and `write_extram` as pieces with and without the
shadow window, and the EEPROM images built from them; **IntelHex** the loader,
state by state; **Commands** the line editor, the tokens and every command as the
calls it makes, with its checks in the width the C code computes them.

**Monitor** composes ExtMemBus and Debugger: the commands that reach memory run
piece by piece over the bus while the Z80 executes its program, meets breakpoints
and reports. A command without the bus copies all the same: what it reads is whatever is on
the lines (`Noise`), what it writes reaches memory or does not; and a transfer that comes
while a command has the window open writes below the AVR's RAM. Either is recorded in
`lost`.

**Board** is the pins as the set-up, the pulses and the card's set-up drive them.

### XMODEM

**Xmodem** joins `r_xmodem` and `s_xmodem` by a line that loses packets, EOTs and
answers, flips bits in headers and data, cuts packets short, and puts the receiver out
of step. Blocks are known by their index; on the line they carry a number that wraps. A
packet that was cut takes the missing bytes from what follows, and what is left of that,
as a packet that lost its SOH, is read byte by byte where a packet is expected
(`R_loose`): its bytes mean nothing, or EOT, or CAN, or SOH. `mistaken` records what they
were taken for.

### What the models abstract

Contents of records, units and characters are members of small sets. A sector has
a few units and a FAT sector a few entries. Time appears in four named places:
`StatusSettled` (below), the reset pulse, the quiet line of Xmodem, and the timers of
MmcDisk, which count.

## 3. The runs

All passing runs explore their state space completely, within the bounds below.

| run | states | shows |
|---|---|---|
| `interrupt_path` | 90 112 | queue, line and INT4 agree; FIFO order; nothing accepted is left behind |
| `console` | 799 759 | CONOUT never loses a character, CONIN never invents one, both return, both directions keep their order |
| `disk` | 3 480 396 | unless a reset has crossed a request: success means the data moved; an error is reported exactly when there is one; no request is rejected, no drive is selected under a request; calls return |
| `blocking` | 46 912 | records read back as written (refinement of CpmDisk) |
| `blocking_errors` | 82 048 | with failing transfers and two drives `DMABUF` still holds what its flags say |
| `xmodem` | 35 748 | in order, once each; complete on success unless a byte out of step was taken for EOT; ends unless an ACK is lost or such a byte was taken for SOH |
| `disk_transfer` | 119 332 | with a card that fails, is pulled or loses power at any access, the FAT stays sound, promises hold, reads are true, and SELDSK recovers a drive unless the card was out |
| `mmc` | 510 178 | the boot and Timer2's transfers end, success means all blocks, ready means initialised |
| `monitor` | 22 370 809 | only a command robbed by a transfer copies or polls without the bus; all is given back; memory is the program with its breakpoints until a copy was lost; each stop is reported |

Three runs end in a counterexample; see section 6.

Functions without state are checked by `ASSUME`s, which TLC evaluates at the start of
the run whose MC module states them:

| module | functions | against |
|---|---|---|
| `MCBiosConsole` | Rates | the rates and periods meant |
| `MCBiosDisk` | Ports | what the BIOS sends, and the buffers' sizes |
| `MCDiskTransfer` | FatCreate, FatName, FatGeometry | nobody else's file is harmed whatever fails; an 8.3 reference for names; a volume accepted has its parts apart |
| `MCMmcDisk` | CardInfo | packets, responses and sizes by the card's specification |
| `MCMonitor` | ExtRam, IntelHex, Commands, DebugReport, Terminal, Board | copies byte for byte, the records of a HEX file, the effect each command names, the registers as saved, texts, pins |

### Bounds

* `INT_QUEUE_SIZE` is the real 8 in `interrupt_path`; 3 elsewhere, so that the
  queue does fill up (`refused` is reached) and wake-ups do wait behind each other.
* Two vectors in `interrupt_path`: order and staleness need two different ones.
* `console`: `TX1_BUF_SIZE` 4 with `CONOUT_LIMIT` 2, half as in the code (128 and
  64); `RX1_BUF_SIZE` 2 fills at once. Two characters in each direction tell an order. What
  is typed is either at any time; programs print A and B in turn (`PrintsInTurn`), which
  tells any two neighbours in the output buffer apart and halves the states.
* `disk`: two drives with one sector tell a wrong drive, two contents tell a stale
  buffer; wrong positions are told apart in `disk_transfer`. It checks liveness and
  uses no symmetry. After a reset that crossed a request only transfers that succeed on files
  that are there are followed (`CrossedSucceeds`): every property excepts such a reset,
  and what has to be seen is how the next reset finds its way back.
* Blocking: a `Factor` of 3 has a first, a middle and a last slot. Six records are two
  blocks: an eviction, a cross-block run. `Selectable` includes a drive that does
  not exist in `blocking`. `CountBound` 8 cuts `WRT_COUNT`, a byte, in the guard of
  WRITE; with sequential callers it never passes `Factor - 1`.
  `blocking_random` takes the real factor of 4.
* `xmodem`: `SeqMod` 3 lets numbers wrap within 5 blocks, and leaves room between a
  repeated block and the one expected. `Faults` 5 exceeds `MAX_RETRY` 3, so each limit is
  passed by faults alone. `LineSize` 2 is what the UART of the AVR keeps. The variable
  `retry` saturates above the limit, where its value is no longer looked at. Each packet of
  the line can lose its beginning, so a second fault is not needed to be out of step.
* `disk_transfer`: seven clusters of one sector, sectors of two units, two FATs over
  three sectors each, an MBR; two images of four and two units, the larger one in
  clusters that are apart. Requests start inside a sector and at one. A call makes
  few accesses; one of the first seven (`MaxAccess` 6) goes wrong, in one call
  (`MaxTroubles` 1) of any number of calls. `Safely` keeps requests inside
  the image or, in whole sectors, where the volume has room.
* `mmc`: three kinds of card, transfers of one and of two blocks; a long time-out of
  two ticks and a short one of one: all that matters is which ends first.
* `monitor`: eight addresses, of which the first three lie under the AVR's own RAM and
  are reached through the window at four; copies in blocks of two; breakpoints
  under the RAM, above it and at the last address, that of a free slot; two slots; handlers
  nested twice (`MaxDepth`), so that Timer2 meets itself. `Noise` is one value, the byte
  read without the bus. Behind a copy that was lost memory is not followed further
  (`KnownMemory`); what still holds then is in the proofs, which have no such bound.

### Assumptions on callers and timing

* `StatusSettled`: `em_disk_read` raises the interrupt *before* it sets IDLE. The
  Z80 needs an acknowledge cycle, a service routine and a turn of its loop to read the
  status; Timer2 has two instructions left. The model lets Timer2 win. A long
  interrupt handler of the AVR between the two would falsify it, and the BIOS
  would then take "busy" for success.
* `Sequential`: while a deferred write waits, the next write goes to the record that
  follows. A program that writes a file from front to back does so. `blocking_random` drops it.
* Resets by the monitor come at any time in Z80ExtInt, BiosConsole, BiosDisk, ExtMemBus
  and Monitor. In BiosDisk the two edges of the pulse lie outside Timer2's handler: the
  monitor is the main program and does not run while a handler does.
* `Xmodem`: both sides wait equally long, so a time-out happens only when neither has
  something to read. The line turns no byte into a control code; a byte of a packet
  that is read out of step may be one.
* `monitor`: commands do not write over a set breakpoint, and write inside the
  memory modelled (`Safe`); the program of the Z80 does not change itself; lines name
  their addresses. What a transfer brings goes to the program's own buffer, which is not followed.
  The command `cli`, and `Z80_HALT` and `Z80_RESET_GO`, which write without a request, are
  not part of the bus model.

### Fairness

* `Z80ExtInt`: INT4 is served once latched (WF). The program does not keep
  interrupts off for ever (WF of EI), and an instruction ends some time with
  interrupts on and `/INT` low (SF of the acknowledge): the program may switch them
  off and on for ever, but the acknowledge comes at the end of any instruction.
* `BiosConsole`: Timer0 is periodic (WF). The Z80 takes and ends its interrupts (WF).
  The main line gets its turn although interrupts keep coming (SF of `Bios`): a service
  routine is far shorter than the time of a character on the line. Nothing is assumed of the user
  or of programs; in particular no one need type.
* `BiosDisk`: as above with Timer2 for Timer0. `[]<>MainRuns` says that the other
  devices leave the main line some time.
* `Xmodem`: both polling loops go on (WF). The line owes nothing.
* `MmcDisk`: the driver executes (WF of `Driver`), Timer2's handler runs (WF of
  `mmc_disk_timerproc`) whenever interrupts are on. The card owes nothing.

The properties `ConoutReturns`, `ConinReturns` and `DiskCallsReturn` except a full
interrupt queue (`refused`): it drops a vector without a trace, and a call that
waits for that vector waits for ever. This is what the code does; on the
board it takes a Z80 that keeps interrupts off, or is reset, while seven vectors come
(each character typed raises one).

`DiskCallsReturn` also excepts a reset that crossed a request (`crossed`), after which BOOT's
own request may be rejected, and `ReceiverEnds` and `SenderEnds` a lost ACK or a byte taken
for SOH (`Endless`): both leave a packet behind the one expected, and from then on each is
answered NAK, sent again, and its retry compared with no limit.

Deadlock is checked in all runs but `mmc`: a SELDSK initialises a card again inside
INT1, with interrupts off, and then spins on a timer that no one counts; the AVR
stops (section 6).

## 4. The proofs

### Z80ExtIntProofs

From `QueueSizeAssumption` (at least three slots) and `VectorsAssumption` (0, what
the C start-up leaves, is a vector), for every queue size and set of vectors:

* `Invariance`: `Safety => []IInv`, and from it `TypeCorrect`, `LineIsMirror`,
  `HeadIsSent` and `Acknowledged`.
* `Refinement`: `Safety => FifoOrder`; the ring, the pin and the two halves of INT4
  implement BoundedFifo.

`IInv` is `TypeOK /\ LineMirrorsQueue /\ VectorIsHead /\ AckIsAnswered`. No part is
inductive alone. That enqueue may leave the line alone for a second entry
needs `LineMirrorsQueue`; that an acknowledge finds an entry to give needs it again,
with `AckIsAnswered` to carry it from the acknowledge to INT4; that the vector
released is the head needs `VectorIsHead`; and all of them need the indices in the
ring. The argument goes: arithmetic of the ring without the modulus (`CountValue`,
`CountEnqueue`, `CountDequeue`, `SlotValue`, `SlotsInUse`, `SlotShift`); one lemma per
action for `IInv`; then one lemma per action for the mapping: enqueue is `Accept` or
`Refuse` (`EnqueueAppends`), `INT4_release` is `Take`, everything else a stutter.

Three slots are needed: with two, a full queue holds one entry, and the call that is
refused would load its vector over that of the entry.

The composition rests on this: BiosInt, and so BiosConsole and BiosDisk, use
`BoundedFifo` in place of the ring, which `Refinement` justifies for the vectors and their
order. That `/INT` is low while the FIFO holds a vector, and pulled again by INT4
soon after an acknowledge, is `LineIsMirror`.

### ExtMemBusProofs

From `DepthAssumption` and `CommandsAssumption`, for every depth to which Timer2 may
interrupt itself, every set of commands, and transfers that come into a command anywhere:

* `Invariance`: `Spec => []IInv`, and `TypeCorrect`.
* `CopiesHoldTheBus` (`BusHeld`): a transfer that copies has the memory enabled and the Z80
  off the bus, and so has a command unless a transfer's detach withdrew it; the window
  is open exactly while a command copies below the AVR's RAM.
* `BusIsReturned` (`BusFree`): when nobody uses the bus, the Z80 has it back, with the
  memory disabled and the window shut, however commands and transfers met.
* `PollersAreServed` (`SpinIsServed`): who polls `/BUSACK` has asked for it and leaves
  interrupts on, so that an I/O the Z80 waits for can end; but for a command whose request was
  withdrawn, which polls with none out.

`IInv` is `TypeOK /\ Kinds /\ OneBusy /\ Wires /\ WindowOpen /\ InterruptsOn`.
`BusHeld` alone is not inductive: whoever ends gives the bus back for all. `OneBusy` says
that the flag `in_progress` lets one activation of Timer2 through however deep they nest, and
that those above it are about to return, so only a command can be robbed. `Wires`
ties the wires to the program counters in both directions: what is set belongs to somebody,
and everybody has what it set but a command with `withdrawn`. `WindowOpen` ties the shadow
window to the main program, `InterruptsOn` the I flag and its saved copy to the short part of
a transfer that clears it. There is one lemma per action.

### BiosConsoleProofs

From `SizesAssumption` (each buffer's size fits its byte, `CONOUT_LIMIT` is half the
output buffer's, which is a multiple of four: 128 and 64 in the code) and
`IntQueueAssumption`, for all such sizes, every set of characters and of codes typed:

* `Invariance`: `Safety => []IInv`; `NothingLost` (`OutputNeverLost`) and `CharIsThere`
  (`ConinHasChar`).
* `TypedInOrder` (`KeyOrder`) and `PrintedInOrder` (`ScreenOrder`): each ring buffer, with its
  head, tail and count, is a queue that only a flush empties out of turn.

The hazard is a wake-up that waited in the interrupt queue and sets its flag for a later
call. `IInv` says what it finds then. For output: while a wake-up is under way, or its
flag is set in the wait of CONOUT, the buffer is less than half full, because only CONOUT
fills it and it does so only after its own wake-up. So the invariant is stronger than what is checked:
the output buffer is never more than half full. For input, a wake-up without its
character can only be one from before a reset, whose flush took the character; it is
delivered while the program runs with interrupts on and so before CONIN, which clears the flag with
interrupts off. `MainLine` says where interrupts are on.
The lemmas about the ring first get rid of the modulus (`AtValue`, `AtSteps`).

### BiosDiskProofs

From `ZeroAssumption` and `IntQueueAssumption`, for every set of drives, sectors and contents and
every queue size:

* `Invariance`; `SuccessMeansTransfer` (`SuccessIsTransfer`), `ErrorsAreReported`
  (`ErrorIsReported`), `NoneRejected` (`NeverRejected`).
* `SelectFindsIdle`: the action property `SeldskFindsIdle`.

Resets come anywhere, and each of the four properties excepts those that crossed a
request. `IInv` is `Always /\ (crossed \/ Followed)`: `Followed` holds from one reset that
finds all requests at rest to the next that does not, and a later one may start it again.
It follows one request through both processors. `OneRequest`: a request is at rest
unless the BIOS is in the call that made it, or in the reset that cut the call short. `Timer2Serves`: Timer2 is past its check exactly
with that request. `OneWakeUp`: a vector of the disk is in the queue or on the bus at most
once, and only after the transfer, with its flag still clear; vectors from before a reset are
taken in before BOOT's first disk call (`Restarting`). `FlagIsAnswer`: the flag
stands for the end of this transfer, no older one. `Transferred` and `PositionKept` then
tie success to the data. `StatusSettled` (section 3) is part of the model and so of
the proof.

### BiosBlockingProofs

From `BlockingAssumption`, for every blocking factor, number of records in an image and set
of drives:

* `BufferInvariance`, `TypeCorrect`: what `DMABUF` and its flags mean, whoever calls and
  however transfers fail.
* `CacheCoherent` (`CacheIsOnCard`), with `ExistingOnly`.
* `RunInvariance`, `PendingFitsAlways` (`PendingFits`) and `NoGaps` (`OnlyConsecutive`), with
  `Sequential`.
* `Refinement` (`ReadsBack`): `Seen` maps every call to a step of CpmDisk or a stutter, with
  `Sequential`, `ExistingOnly` and `FALSE \notin Outcomes`.

The hypotheses are about callers and the card. `Sequential` is that of section 3, and
`blocking_random` shows it is needed. `ExistingOnly`: only drives that exist are
selected, or there is one drive only. SELDSK answers for a number past the last drive
before it clears the cache (`bios.asm:489`); a program that goes on reading then has the
cached block of the drive before taken for one of drive A. CP/M programs reach
SELDSK through BDOS, which starts again after such an error. That no transfer fails is
needed for the refinement only: a deferred write that fails later has already been
reported as a success, so no promise of a plain disk can hold.
`blocking` and `blocking_errors` meet the hypotheses of the theorems whose properties
they check.

### MmcDiskProofs

From `TimesAssumption`, `KindsAssumption` and `CountAssumption`, for every set of card
kinds, number of sectors in a call and pair of time-outs:

* `Invariance`; `CardIsInitialised` (`ReadyIsInitialised`) and `SuccessMeansMoved`
  (`SuccessIsComplete`).

The card may be pulled and another put in at any moment. `IInv` has three ideas. `Gone`:
while the driver takes an empty socket for ready, no tick has found it empty, so nobody
had the time to put in another card. `Progress`: what the answers to the commands so far say about
the card that is *now* in the socket, which for an exchanged one is that it is not
ready; in particular the branch for old cards never makes a card with block addresses
ready. `Moving`: sectors moved and sectors left make up the call, and a ready card in the
socket counts addresses as the driver does (`Addressed`) even if NOINIT has been set
since. That a card change takes two ticks, and that the last answer and the store
of `Stat` lie less than that apart, is part of the model (`Inserted`, `Seen`).

### XmodemProofs

From `XmodemAssumption`, for every number of blocks, every modulus of the numbers from two
up (256 in the code), every retry limit, line size and number of faults:

* `Invariance`, `TypeCorrect` (`TypeOK`), `OrderKept` (`ReceivedInOrder`) and
  `SuccessComplete` (`SuccessIsComplete`).

A number that wraps is enough because the two sides never part: `Together` says that
the sender is at most one block ahead, `LineOK` that packets under way carry the last block
received or the next one, in that order, and `AnswersOK` that at most one ACK is under
way, for the last block sent. Two blocks in a row have different numbers for any modulus
of at least two (`NextDiffers`). `Ended` says the same of the EOT and its answer.
Noise only thins the line or damages a packet (`LineThins`, `LineDamaged`), and so does a
packet that takes its missing bytes from the next (`CutNarrows`).
All this is `InStep`, and `IInv` is `InStep \/ Fooled`: a receiver that has taken a byte
out of step for EOT has returned, with its blocks in order but perhaps not all of them. Nothing
more is promised then, and nothing else leads there: `SuccessComplete` has this one
exception.

### MonitorProofs

From the assumptions on sizes (`MapAssumption`, `BufAssumption`, `WindowAssumption`,
`DigitAssumption`, `NumBPAssumption`, `EepromAssumption`) and on what is typed and received
(`AddressesAssumption`, `LinesAssumption`, `BytesAssumption`), for every size of memory, window, buffer and table and every set of
lines, packets and records, with transfers inside commands and breakpoints at any address:

* `MonitorUsesTheBus`: `MSpec => Spec`; every step of the monitor is one of ExtMemBus or a
  stutter. So `MonitorKeepsTheBus`: `BusHeld`, `BusFree` and `SpinIsServed` hold of it too.
* `MonitorInvariance`: `MSpec => [](IInv /\ MInv)`; from it `MemoryStaysProgram`
  (`MemoryIsProgram`), `TableStaysAsked` (`TableIsAsked`) and `BreakStaysReported`
  (`BreakIsReported`).

The three properties speak of the time between calls, and a call takes many steps in which
they do not hold. `MInv` says what holds within: `MemoryNow`, that memory is the
program with the breakpoints but for the bytes copied so far (`DoneBytes`); `BufferNow` the same of what
has been read; `TableNow`, that the table holds the breakpoints asked for and, in an add,
one more, whose byte it has once it was copied; `InCalls` how far the call is; `Jobs` what
calls may still come, which needs `CommandOps`: a command makes calls of data or of
breakpoints, never both. `Reporting` follows an address through its two bytes.
`TableNow` keeps a table of any size sorted after each call (`SortSorts`), and
that a piece is copied where it is meant is `ReadTiles` and `WriteTiles`, for each case of
`read_extram` and `write_extram`.

A copy that a transfer spoilt leaves `lost`, and with it only the parts of `MInv` that do
not speak of bytes: how far the call is, which addresses the table has, what is reported.
The others are together in `Exact`, which is `MemoryNow /\ BufferNow` and that each slot
has the byte it covers (`OpcodesNow`). A breakpoint at `Top`, the address of a free slot, cannot be told from one
(section 6); `MemoryNow` and `TableNow` leave out that byte and those slots, and so the
theorems say that it disturbs no other.

Of the functions the monitor is built from, for every argument:

* `SortSorts`: the bubble sort leaves the same slots, in order.
* `ReadsAreExact`, `WritesAreExact`, `EepromRoundTrip` (from `SavesAreExact` and
  `LoadsAreExact`): copies move the bytes asked for and no others, at every place against
  the edge of the AVR's RAM, reads also round the end of memory; blocks of any size
  put together are the whole. Writes are those that end in memory: past it the code
  copies over the AVR's registers.
* `FilesLoad`: `xload` writes the bytes of the records up to the first with a wrong
  sum, for every file of `HexRecord`s, each with one byte of data or more.
* `DumpShows`, `FillGoesRound`: the rows of `d` are the bytes asked for; `f` goes round
  the end of memory.

What a recursive function computes is proved without the library's induction: `Induction`
shows that a set of naturals with 0 that is closed under steps up to `n` has them all, from
the least element outside it; `RunExists` and its instances (`StoredRun`, `SavedRun`, ...) show that
a recursive function satisfies its equations. `MCMonitor` keeps the same facts as
`ASSUME`s over small arguments.

### Only model-checked

* All liveness (`EveryVectorDelivered`, the calls that return, the ends of a boot, a
  transfer and of both sides of XMODEM), which tlapm cannot prove under fairness.
* The four invariants of `disk_transfer` (`ChainsSound`, `PromisesKept`, `ReadsTrue`,
  `SelectRecovers`): one call is a recursive operator over the accesses to the card, through
  FatVolume and FatFile, and in a module that declares such operators tlapm has no SMT
  backend. Recursive functions, as in MonitorProofs, would need a domain known
  beforehand; a chain of the FAT that may be damaged has none. The step is the whole of
  the code of a call, with a fault at any access.
* The functions checked by `ASSUME` that MonitorProofs does not name: FatCreate, FatName,
  FatGeometry, CardInfo, DebugReport, Terminal, Board, Ports and Rates; of Commands the line editor,
  the tokens, `test` and the boot. Several fold over sequences with an operator as
  argument, which the provers cannot be given.

## 5. Not modelled

* What the firmware's configuration leaves out of `ff.c`: `FF_USE_LFN` 0, `FF_FS_TINY`
  1, `FF_VOLUMES` 1, `FF_FS_MINIMIZE` 2, no exFAT, no LBA64, no locks, `CODE_PAGE` 932.
  About 1140 lines of that file are compiled; the rest is never built.
* `STA_PROTECT` and fast seek; volumes whose FAT is past 2^31 bytes.
* The bytes of one SPI exchange are not interleaved with anything; `deselect` and the
  driver's extension commands, which nobody calls.
* CONST, LIST, PUNCH, READER, SECTRAN, SETTRK and the like: one IN, one OUT or one store.
* BDOS and CCP: a program that calls the BIOS in any order. The loader reads a
  fixed range of sectors; patches, images and tools are data.
* The vendored headers: macros for compilers and parts, most of them unused here.
* Dumps of the AVR's own memories, and what the command `test` compares (where it
  writes is modelled); the heartbeat LED; the wording of messages.

## 6. Findings and known limits

| run | property | what the code does |
|---|---|---|
| `monitor_sends` | `QueuedVectorServed` | the command `int` lifts `/INT` over a waiting entry; as enqueue pulls the line only for a lone entry, it stays high for ever |
| `blocking_random` | `OnlyConsecutive` | records written out of order are counted into one run: one is lost, another overwritten |
| `xmodem_ack` | `GivesUp` | after a lost ACK the same block is sent and refused for ever; neither retry limit is reached |

`PROJECT.json` quotes the document or comment each of them contradicts.

Two more counterexamples come from a change of the configuration of a run:

* `Printed <- WithNul` without `PrintsInTurn` in `MCConsole.cfg` violates `ConoutReturns`: a
  NUL leaves the output buffer without the check that wakes CONOUT, so a program that
  prints NULs can hang. `doc/EmulatedDeviceSpec.md:177-180` promises the wake-up.
* `SeldskEnds` as a further property in `MCMmc.cfg` is violated: selecting a drive after the card
  was changed initialises it inside INT1, with interrupts off, where nobody counts
  `Timer1`: the AVR hangs. DiskTransfer has it as `stuck`.

And these are in the models, as the exception of the properties named:

* A transfer inside a monitor command (`z80io.c:34-59`: `BusHeld`, `SpinIsServed`,
  `MemoryIsProgram`, the opcodes of `TableIsAsked`). Its detach lifts `/BUSREQ` and disables
  external memory under the command, which copies from and to nothing or, if it still
  polled, polls with no request out and is answered only when it happens to look just after a
  later transfer had the bus. With the command's window open the transfer's data goes below
  the AVR's RAM instead of to the buffer.
* A reset of the Z80 while a disk call waits (`monitor.c:863-877`, `em_diskio.c:97-127`:
  `SeldskFindsIdle`, `NeverRejected`, `SuccessIsTransfer`, `ErrorIsReported`,
  `DiskCallsReturn`). The request stays. BOOT's SELDSK moves `cfd` and resets the requests of
  drive A: under Timer2, which looks both up at every step; BOOT's read meets the old request and is
  rejected without an interrupt, so that it waits for ever; or the end of the old transfer
  is taken for its own. `doc/bugfix/BugFixPlan1.md:241` lists it as BUG #7. The next reset that
  finds all requests at rest ends it.
* A byte read out of step (`xmodem.c:79-154`: `SuccessIsComplete`, `ReceiverEnds`,
  `SenderEnds`). A data byte or block number 04 read between packets ends `r_xmodem` as a
  success with blocks missing. Taken for SOH it makes a packet of the rest, which takes bytes of
  the next one, and so on without a limit.
* A drive that failed and whose card was out meanwhile (`em_diskio.c:109-119`:
  `SelectRecovers`): SELDSK does not bring it back but hangs, as above.

Seen while modelling, and kept in the models as the code has it:

* Debugger: a breakpoint at 0xffff is taken for a free slot by the sort, as a free slot has that address
  (`em_debugger.c:49`, 85): after a `del` the free slot comes before the used one, a second `brk`
  of 0xffff takes it, and saves the RST 7 as the byte of the program. The runs
  and proofs have such breakpoints and show that no other is disturbed. A report of a stop exchanges AF with AF' (`bios.asm:90`), checked by
  `OnlyAFChanges`. `FindBreakPoint` misses the last slot. `cont` leaves a breakpoint
  where it went on even if none was asked for, sets it 10 microseconds after
  the start, and drops the -1 of a full table. The debugger's HALT is ended by any
  interrupt. `doc/EmulatedDeviceSpec.md:299-309` gives the registers in the order
  SP, IY, IX, I; the code sends SP, I, IY, IX.
* Monitor: `f`, `esave`, `esave2` and `eload` check sums in 16 bits, which wrap
  (`monitor.c:585`, 750, 772, 826). `test` over 0xB00 to 0x10FF or near the top
  writes the AVR's own RAM or registers.
* Disk: `f_mount` failing at boot leaves no drive selected and the files without names, so
  that SELDSK does not recover (`em_diskio.c:66-84`, 117-118); `SelectRecovers`
  therefore speaks of drives with names. On a full volume `f_write` returns success with
  fewer units, and nobody looks. The dropped result of `f_sync` risks only the size
  of an image that was lengthened: data in whole sectors goes past the window.
* FatFs: FSINFO may be written over the first sector of the FAT when `RsvdSecCnt` is 1;
  the first cluster of the root directory is not range-checked; a double-byte character after a
  separator ends the path (`ff.c:3040`); a `dir_clear` that fails leaves a cluster of
  garbage in a directory (this firmware creates no files).
* SD card: the multiplier of the erase group is read from the wrong byte
  (`mmc_avr_spi.c:531`, not called); the pull-up of MISO is off as PUD is set
  (`:87`); CS is low during the first 80 clocks (`:341`).
* Terminal: `x_puts` stops at the first byte of 128 or more; `x_printf` reads past its
  buffer for texts longer than 127. 19200 baud are 18868 (-1.7 %), 9600 are 9524.

## 7. Plan

Done: every module of the first plan (interrupts, console, disk, blocking, XMODEM), then
ExtMemBus, the debugger and the monitor over it, the transfers with FatFs down to
sectors, the card's driver, and the functions around them; proofs of the interrupt path,
the bus, the console, the disk calls, the blocking, the card's driver, XMODEM, and the
monitor with its debugger, copies and HEX loader.

What is left, in order:

1. Monitor: what the boot brings back of an image saved by `esave2`, for every image, from
   `EepromRoundTrip`; an EEPROM word would have to be two bytes.
2. DiskTransfer: `em_disk_write` without its recursion, the units of the head, the
   whole sectors and the tail as one set, to prove which units a request touches.
3. Time between the two edges of the reset pulse and Timer2's period, to tell how likely a
   request survives it.
4. `STA_PROTECT`, and the SPI exchange byte by byte.
