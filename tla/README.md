# A verification project for FTDI2SPI

FTDI2SPI is a Windows DLL that reads, writes and erases the flash of a game
console over an FT2232H USB chip. A GUI program loads it, runs one long call
(`spi`, `emmc_read`, `emmc_write`, an ISD2100 export) on a worker thread, and
polls progress or asks for a stop from other threads. There is no lock and no
test suite; the timing of the console, of USB and of the GUI threads decides
what happens.

This directory holds TLA+ modules translated from the source in `src/FTDI2SPI`,
TLC configurations that model-check them, and proofs checked by TLAPS.
`PROJECT.json` lists every run, the code lines each definition stands for, the
hazards of the code with the properties that cover them, and for every property
a mutant of the model that breaks it.

## The system

| Component | Source | State | Operations | Talks to |
|---|---|---|---|---|
| SPI session | `Main.cpp` 25-272, 398-414 | `block_flash`, `start_spi`, `stop`, `End_Block` (unlocked globals); file, buffer, device handle | `spi`, `spiStop`, `spiGetBlocks`, `spiGetConfig` | NAND read/write, geometry, ECC, USB |
| NAND write and erase | `Flasher.cpp` 76-79, 119-152; `XNAND.cpp` 14-36, 78-141 | `gNextBlock`, `gWORDsLeft`, `gGlobalStatus` | `FlashDataWrite`, `FlashDataErase` | SPI registers |
| NAND read | `Flasher.cpp` 81-117; `XNAND.cpp` 38-76, 147-199 | the same globals | `FlashDataRead`, `FlashDataReadBatch` | SPI registers |
| eMMC | `Main.cpp` 273-397; `XeMMC.cpp` | `is_selected`, `is_block_set`, `eMMCblocks` | `emmc_read`, `emmc_write`, `emmc_init`, the card commands | SPI registers |
| SPI registers | `XSPI.cpp` | none | read and write of a register, queued or at once | USB |
| USB transport | `wrapper_spi.cpp` 292-378 | `byOutputBuffer`, `dwNumBytesToSend` | stage, `SendBytesToDevice`, `GetDataFromDevice` | the D2XX library |
| NAND geometry | `sfc.cpp` | `Sfc` | `SFC_init` | - |
| ECC and spare area | `Flasher.cpp` 154-242 | none | `fixECC`, `fixSpare_ECC` | geometry |
| ISD2100 | `ISD2100.cpp` | `g_ftHandle`, `g_currentSSState`, `percentage` | initialise, dump, write, verify, erase, play, power down | the D2XX library; the channel of `spi` |
| Vendored | `FTD2XX.H`, `FTCSPI.h`, libraries | - | - | - |

What is hard about it:

- **Interleaving.** `spiStop` and `spiGetBlocks` each test one global and then
  use another, while `spi` resets and advances them (`Main.cpp:44-46`, `118`,
  `217`, `413`). A GUI thread can sleep between the two steps for a whole call.
- **State that survives a call.** `gNextBlock`/`gWORDsLeft`, `Sfc` and
  `is_selected`/`is_block_set` are globals; a call that was stopped, timed out or
  left by an exception, or one for another console, leaves them for the next.
- **One channel, two libraries.** `spi_init` and `FTDI_INIT` open the same
  channel B through different libraries with handles that do not know of each
  other, and `FTDI_DEINIT_IMMEDIATELY` closes it under a running call.
- **Late answers.** Every wait is bounded and then given up; the controller, the
  card and the USB chip go on with what they were told.
- **Ignored failures.** Command statuses, short USB writes and several time-outs
  are not looked at.
- **Exceptions.** `GetDataFromDevice` throws a string that nothing in the DLL
  catches: every register read may leave a call in the middle.
- **Liveness.** A full disk, or a controller that stays in reset, can hold a call.

What makes each component correct:

- session: success means the whole range; a stop is neither lost nor carried
  over; progress is true and never goes back; resources are given back;
- NAND write: after a call the NAND holds a prefix of the image and nothing
  outside the range is touched, wherever it was cut short;
- eMMC: no block is missed, doubled or misplaced; the set-up commands are never
  skipped; a late card cannot disturb another block;
- transport: a reply belongs to its request, whole and in order; every request
  ends;
- geometry and ECC: what is written for a console fits that console, with a
  right code and nothing of the console before;
- ISD2100: the channel has one owner; what is read or written is what the chip
  holds if the chip listened; the bus shows chip and driver the same bits.

## Modules

### CancellableJob and SpiSession

`CancellableJob` is what one call promises: it is set up or refused, works
through its range, may be asked to stop, and its answer is consistent with that.
`SpiSession` is the code. One worker thread runs `spi()`; each element of
`UIThreads` runs `spiStop` or `spiGetBlocks` whenever it likes.

| Model | Code |
|---|---|
| `Call`, `Limit` | arguments and first lines of `spi` (35-78); `block_flash_max` |
| `ResetBlock`, `ResetStop` | the stores of lines 45 and 46, one action each |
| `InitDevice`, `Identify` | `spi_init`, `FlashDataInit`, `SFC_init`, the branch on the mode |
| `OpenForWrite`, `OpenForRead` | file, buffer and range, with the answers -8, -9, -11 |
| `MarkStarted`, `FirstPage` | `start_spi = true` and the initialiser of the loop |
| `LoopTest`, `PageDone`, `PageThrows` | one round of the loop |
| `FinishEraseOrWrite`, `FinishRead`, `SavePage`, `SaveDone` | the code after the loop |
| `StopTest`, `StopSet` | the two steps of `spiStop` |
| `PollTest`, `PollRead` | the two steps of `spiGetBlocks` |
| `DiskChanges` | external: the disk fills up or is freed |

An action is what lies between two accesses to the shared globals. `todo`,
`worked`, `asked`, `stale` and `polled` are history: only properties read them.
`asked` is set by a `StopSet` that the running call can still see; `stale` marks
the threads that were inside `spiStop` or `spiGetBlocks` when the call began,
whose poll belongs to the call before. Page numbers do not wrap in the model:
the products of `Main.cpp:39-42` stay below 2^32 for every NAND the code knows.
`todo` is the range the code itself computes; `End_Block` compares an absolute
page with a page of the file (`Main.cpp:155`), and which page of the file then
goes where is the subject of `ImageWrite`.

### NandWrite

`FlashDataWrite`, `FlashDataErase` and the loops of `spi` around them, down to
the controller commands of `XNAND.cpp`. A page is `Words` words whose value says
which word of which page of the image it is. The controller (external) holds one
command, may finish it at any time, may fail it, and may lose or delay a command
sent while it is busy; `Load` may garble the buffer of a busy controller. `failed`
is history: it becomes true with everything the code ignores (a failed command, a
time-out, an exception), and the exactness properties speak of calls without it,
while `OutsideUntouched` speaks of all.

### Emmc

`emmc_read`, `emmc_write` and every function of `XeMMC.cpp` they reach. A block
of data is a number: block k of the file, or a block of the card. A command carries
the byte address that `lba << 9` makes of a block in 32 bits (`Address`,
`XeMMC.cpp:165` and `279`), which starts over at block 2^23: the card finds the
block with `BlockAt`, and answers for none past its end. Controller and card
(external: `ResetDone`, `Accept`, `Store`) answer late or never, and work on after the driver gave up; a new command replaces the one in
work. `confirmed` is history: the set-up commands the card has really answered
since the reset.

### Transport

Staging buffer, `SendBytesToDevice` and `GetDataFromDevice` for one request
after another. Bytes of a reply carry their request and position. The D2XX driver
may take any part of a write or fail it, and a read returns any part of what has
come. Once the chip has missed bytes of a request it is `desync`: what it answers
from then on is anything.

### NandRead

The read loop of `spi` in its two builds: `FlashDataReadBatch` (`ReadBatch`, with
`NAND_FAST_READ`) queues the commands of many pages and lets the NAND have a
fixed delay for each; `FlashDataRead` (`ReadStart`, `Poll`, `ReadProcess`) asks page
by page. `Init` chooses the build. The FT2232H executes its queue while the
controller loads pages (`Execute`, `ExecuteLoad`, `ExecuteWord`, `Elapse`: external),
and time is counted in ticks of the controller, any of `LoadTimes` for a page.
`slow` is history: the pages whose load takes longer than the driver allows, or
was asked for while another was still at work; `PunctualPagesExact` promises the
others.

### Registers

What the accesses of `XSPI.cpp` become: every register read and write of the
drivers as the MPSSE bytes of `wrapper_spi.cpp`, staged, sent and executed by the
FT2232H (external) while the driver goes on. A driver function of `XNAND.cpp` or
`XeMMC.cpp` is a sequence of steps (queue an access, clear, send, get), and any
function may follow any other. The chip decodes the bytes, moves its pins and hands an
access to the flash controller when chip select goes up. `queued`, `sent`,
`strange` and `dropped` are history: they compare what arrives with what was queued.
An `FT_Write` waits when more than `UsbRoom` bytes are unexecuted, as the bulk
endpoint does. Short writes and short reads belong to `Transport`.

### SfcGeometry, SpareEcc and ImageWrite

`SfcGeometry` is `SFC_init` as the record it makes of the record it finds: a case
of its `switch` that does not assign a field leaves the one of the console before,
and a NAND it does not support leaves the record half assigned. `SpareEcc` is
`fixECC`, round by round as the loop of `Flasher.cpp` has it, and
`fixSpare_ECC`; a page is its bits, and the sizes of page and code are constants. What the code
should be is stated apart from it: `IsCodeWord`, the multiples of the generator
polynomial. `ImageWrite` composes the two with the write of an image: `Begin`
(identification and `SFC_init` with the console that is attached now), `Load` (file,
buffer, `fread`), `WritePage` (`fixSpare_ECC` and
`FlashDataWrite`, which finds its erase blocks with `Sfc` while the NAND has its
own), `LoopEnds`. A page is written well and in one step; what may go wrong in it
is `NandWrite`'s subject.

Three conversions of `Load` wrap, and each is modelled: the bytes `malloc` is asked
for (`BufferBytes`, `Main.cpp:143`), the size of the file in an `int` (`ftell`,
`Main.cpp:151`), and the number of pages `fread` is asked for (`Main.cpp:160`). When
`fread` writes past the buffer the model stops at "overrun", since anything may
happen then, and the program is started again (`Restart`).

Two things the code does are visible in the properties. `GeometryIsOwn` says
nothing of `PagesCountInNand` for size code 0, because the case of
`sfc.cpp:68-79` really keeps the size of the console before. `sfc.cpp:138-142`
derives five more fields from that size (`BlockCountInNandDataPartition`,
`NandSizeBytesRaw`, `NandSizeMB`, `LastBadBlockPos` and
`NandSizeLastDataPartitionBytes`), which are stale with it; nothing reads them, and
they are left out. And `BufferHoldsImage` names the calls for which `fread` may leave
the buffer: a limit whose product with 528 is 2^32 or more, a file of 2^31 bytes or
more, a `startblock` past the limit.

### Isd2100

The exports of `ISD2100.cpp`: initialise, dump, verify, write, erase, play and
power-down on a worker thread, and `FTDI_DEINIT_IMMEDIATELY` on another, which may come in
the middle of any of them. Opening and closing are the steps the code has:

| Model | Code |
|---|---|
| `OpenFTDIByDescription`, `FTDI_AutoInitialize` | `FTDI_INIT`: `FT_OpenEx`, then the store in `g_ftHandle` (742-774) |
| `StatusRead`, `CloseHandle`, `ClearHandle` | `ISD_INIT` whose chip has the wrong status: `FT_Close`, then NULL (776-784) |
| `DeinitTest`, `DeinitSelect`, `DeinitClose`, `DeinitClear` | `FTDI_DEINIT`: the test (787), the selection and its sleep (789), the reset, purge and `FT_Close` (792-798), the clear (801) |

Each step uses the `g_ftHandle` of its moment: "NULL", the handle of a device that is "open",
or one that is "closed" already and not cleared yet. `closing` says where the thread in
`FTDI_DEINIT` is (one thread at a time is), `found` is the worker's handle before it is stored.
`FT_SetBitMode`, `FT_Purge` and `FT_Close` are one step, `DeinitClose`: from the first
of them on the chip hears nothing, so until it comes what the worker sends is heard or
not (`Heard`). The chip (external) is busy for as long as it likes, ignores what
it is sent meanwhile, and what is read from it then, or through a NULL or closed handle, is
anything. `failed`, `lost`, `fresh`, `unreset`, `fileRead` and `orphaned` are history: whether the
chip missed a command or a packet, whether it was erased when a write began,
the two cases in which an answer or a progress means nothing, and the handle of
an open device that was overwritten.

`opened`, `ftHandle` and `spi` are the channel and its other users: `SpiBegins` and
`SpiEnds` stand for `spi`, `emmc_read` and `emmc_write` on a thread of their own,
which open the channel if nobody has it, give it back with `closeDevice`, or leave it open by an
exception. A call that finds the channel still open from such a call either
gets it again or is refused and closes it; both are allowed, since the library
that decides is vendored.

### IsdPins

One level down: the bus of the ISD2100, pin by pin. The functions `SPI_*` become
commands for the FT2232H (`SetPins`, `ReadPins`), each `FT_Write` and `FT_Read` a step
of the driver, and `Execute` (external) works through the commands behind it; an
export is the sequence of its selections, transfers and waits. `DeinitSelect`,
`DeinitWritePins` and `DeinitClose` are `FTDI_DEINIT` on another thread. The data on
the lines is the place it comes from, bit k of byte j of the current selection,
so that a bit taken twice, missed or moved shows. `cut` is history: the channel
was closed under the worker, and no new selection has begun since on a channel
that is open. `Isd2100` has a word on the bus as one step; that this is fair is
what `FramesExact` and `RepliesExact` say.

## Runs

| Run | Question | Bounds |
|---|---|---|
| `spi_safety` | Is every answer of `spi` true, whatever the GUI threads do? | two GUI threads, so that a stop and a poll overtake each other and the call; two start blocks, a length of none and one of two blocks, batches of two pages, erase blocks of two and four (one of them longer than the range); any number of calls |
| `spi_implements_job` | Does `spi` with `spiStop` implement `CancellableJob`; does a call, and a stopped call, end? | the same with one GUI thread |
| `nand_write` | What does a write or erase leave on the NAND, and does it return when the controller does not? | two erase blocks of four pages, pages of two words, images of no, three and five pages (a block and more), erased ranges of none, two and six, calls that start inside an erase block, one poll before a time-out; any number of calls |
| `nand_read` | Is what a read returns what was on the NAND, in both builds? | three pages of three words, of which two or three are read, batches of two, a delay of two ticks, load times of one, two and five |
| `register_accesses` | Does the controller see what the drivers queue, and does every reply fit its request? | pages of two words, a batch of two pages that fills the staging buffer to its last byte, 50 bytes on their way |
| `usb_requests` | Does a reply belong to its request, and does every request end? | chunks of two bytes, a buffer of six, three reads; requests of no, one, three and too many chunks |
| `usb_throw` | violation: the exception is thrown for a complete reply | the same |
| `emmc_blocks` | Are the right blocks moved, is the set-up never skipped, and does a call end? | card of three blocks, as many as an address tells apart (blocks of two bytes, 6 for 2^32), calls that begin in the card and run past the place where the address starts over, or begin beyond it, two polls, lengths of zero and of four blocks, files that are empty, longer than the card, or with a rest |
| `emmc_init_limit` | violation: `emmc_init` never times out | the same |
| `isd_exports` | Are the answers of the ISD2100 exports true, who has the channel, and does a call end, with a chip that is slow, off or closed under it, one step of the closing at a time? | three words, two per read, checkpoints of two, one sample, one poll |
| `isd_pins` | Do chip and driver see the same bits, and does each reply answer its own command, while another thread may close the channel? | two bits in a byte, commands of one byte, two bytes of data, words of one, one poll that is repeated |
| `image_write` | Does every page of a file, patched or not, get to its place in the shape its console wants, one console after another? | consoles with each of the three sizes of erase block (two, four and eight pages), the case that keeps a size, an undefined shift, and two NANDs that are refused; eight pages, files of one, five and 17, start blocks before, in and past the file; four bytes for the 528 of a page and numbers below 64 for 2^32, so that 17 pages are more than an int holds and the product of the limit 18 wraps; pages of two bits of data, nine spare bytes of one bit, and a code of three (x^3 + x + 1) |

The bounds are the smallest at which every branch of the code is taken: more than
one batch and a shorter last one, an erase block longer than the range, a limit
that comes from the size instead of the length, a file shorter than the range, a
page split between two executes, a poll that is an address that
wraps, a packet before and after a checkpoint, a call that begins in the
middle of an erase block. TLC's coverage confirms
that every action fires.

With the real sizes a page of a batch costs 4914 bytes of MPSSE commands, and a
batch 32 * 4914 + 1 = 157249 of the 524288 of `OUTPUT_BUFFER_SIZE`;
`register_accesses` scales the buffer so that the batch just fits, and one more
byte per page (the mutant `DelayFrameOneMore`) overflows it.

**Fairness.** `WF_vars(Worker)` and `WF_vars(Driver)`: the operating system
schedules the thread, and each D2XX call returns because the code sets read and
write time-outs in its library. `ISD2100.cpp` sets none, and its `FT_Read` waits
for all it asked for; there `WF_vars(Worker)` only says that a read whose bytes have
come returns, as does one whose handle is closed, and `ExportsReturn` that the bytes come.
`WF_vars(Execute)` in `NandRead`, `Registers` and `IsdPins` (`pinsVars` there): the FT2232H executes what
it was sent; a `Sleep(1)` after a selection outlasts what was sent before it. Nothing
else is fair: the GUI, the disk, the controller, the card and the ISD2100 owe nothing. Where a property needs more it
says so itself (`<>[]~diskFull`, `pc = "initWait" ~> ready`). In `Transport` the
fairness also says that a large `FT_Write` which is never refused takes some byte
in the end; a driver that answers success with no bytes for good would hold
`SendBytesToDevice` (`wrapper_spi.cpp:323`).

## What the runs found

- `XeMMC.cpp:187`: the time limit of `emmc_init` never counts (`emmc_init_limit`).
- `wrapper_spi.cpp:374`: a reply completed by the last read is thrown away
  (`usb_throw`).

Found by way of the properties that hold, whose premises say it:

- `ISD2100.cpp:766`: an `FTDI_INIT` of a device that is open loses its handle for good,
  and so does the late clear of an `FTDI_DEINIT` that has closed the device (798) when an
  `FTDI_INIT` opens it again before line 801 (`orphaned` in `ChannelHasOneOwner`);
- `XeMMC.cpp:165` and `279`: a call from block 2^23 on, which the unsigned `startblock`
  allows, reads or overwrites the low blocks and answers 0 (the modulus in `ReadIsExact`
  and `WriteIsExact`);
- `Main.cpp:143`: from a `block_flash_max` of 8134408 on the product with 528 is 2^32 or more and
  `malloc` gives a smaller buffer than `fread` may fill; a `size` of 4096 makes it 134217728 bytes
  (`BufferHoldsImage`);
- `sfc.cpp:68-79`: size code 0 of the last controller keeps the size of the data
  partition of the console before (`GeometryIsOwn`);
- `Main.cpp:155`: a write with a `startblock` stops that many pages short of the
  file and answers 0 (`ImageInPlace` promises the pages up to `End_Block` only);
- `Main.cpp:371`: a file with a rest is rounded up to whole blocks, its last
  `fread` is short, and the answer is -21 with every whole block on the card
  (`WriteIsExact`);
- `ISD2100.cpp:726`: "Successfully wrote" depends on ten sampled words, and the
  answer is true whatever they are (`WriteLands` needs `lost` and `failed` to
  exclude it).

Met while reading, with no property behind it because only a measurement can
decide it: `XNAND.cpp:171` asks for `nPages * wordsPerPage * 4` below the 4 KB of
the receive FIFO, `Flasher.h` sets 32 pages (16896 bytes) and says that the D2XX
driver drains the FIFO meanwhile.

## Proofs

Eight modules hold proofs, one for each component that has theorems, but that `UsbProofs`
has those of both `Transport` and `IsdPins`. Each theorem speaks of every value of the
constants that satisfies the `ASSUME`s of its component's module, and of nothing else:
no sizes, numbers of threads or bounds on a wait. Every invariant the runs check, every
action property and the refinement is one of these theorems. None of the invariants is inductive
by itself; each proof states what has to be added, proves
it kept with one step per action, and draws the theorem from it.

Two things several proofs need, and state where they need them. The block of a page
is a quotient: `QuotientIs` (a quotient is the only number whose multiple is that
near), with `QuotientAtLeast`, `QuotientAndRest` and `QuotientOfNext`. And
induction: the library's principle takes a predicate, which no installed prover
can instantiate, so `Induction` states it with a set, and proves it from the
well-foundedness of `<` (`NatLessThanWellFounded`, `WFMin`) by way of the least
number that the set does not have (`LeastNatural`). With it what the loops of
`fixECC` and of a batch do is proved for any number of rounds.

**SpiSessionProofs.** `TypesHold`, and four theorems about answers:
`SuccessTheorem`, `CancelTheorem`, `ErrorTheorem`, `ReleaseTheorem`. `IInv` adds
what the code relies on without saying so: where the mode can have led
(`ModeInv`), that the range is fixed from `openFile` on (`RangeInv`), that the
loop has done exactly the pages between `StartBlock` and the smaller of
`block_flash` and `End_Block` (`CoverInv`), and that between its reset and its
last test `stop` says the same as `asked` (`StopInv`). `StopInv` is why the
unlocked flag works at all: `start_spi` is cleared before `stop`, so the only
stores to `stop` in between come from threads that had passed their test in an
earlier call, and the reset of line 46 or the tests of the loop see them. Two more
theorems are about the polls: `ProgressTheorem` (`ProgressIsBacked`) and
`PollsTheorem` (`PollsNeverGoBack`), from `PollInv`: while a call is being set up,
whoever is inside `spiGetBlocks` began in an earlier call, and from `resetStop` to
the first page `block_flash` is 0. `RefinementTheorem` shows, step by step and
with `IInv` on both sides of the step, that `spi` implements `CancellableJob`.

**NandWriteProofs.** `OutsideTheorem`: a call that begins on an erase block
touches no page outside the erase blocks of its range, whatever fails or comes
late. What carries it is that the command a late controller still holds is for a
page of this range (`JobInv`: a call begins with a reset of the console), and
`GlobalsInv`: the two globals that say where the next page goes agree with the
loop's counter in every call that begins on an erase block, although they outlive
calls. `RangeTheorem`: as long as nothing fails the NAND is exactly what
`RangeIsExact` says; `ExactInv` follows a page through its fill, its erase and its
program. The arithmetic of erase blocks is in lemmas (`RoundUpIs`,
`NextBlockAligned`, `BlockInRange`, `BlocksApart`), which rest on `QuotientIs` and
`QuotientAtLeast`.

**EmmcProofs.** `SetupTheorem`: no data command before the set-up commands were
answered; `SetupInv` ties `is_selected` and `is_block_set` to `confirmed` and to
the command in work. `ReadTheorem` and `WriteTheorem`: a read delivers its own
blocks in order; a write puts them in their places and nothing anywhere else, not
even when the card stores a block after the driver has given up. Both are about the
blocks modulo 2^23, since the number of blocks and the byte address wrap: the address sent
for block n leads to block n mod 2^23 (`AddressOfBlock`), and two blocks of a call that are fewer than 2^23 apart
have different places (`PlacesDiffer`), so that of the blocks of a longer call the
last one at a place is there. Both are arithmetic of quotients and rests
(`Division`, `OneRest`). `ReleaseTheorem`: a call that returns has given back what
it took.

**Isd2100Proofs.** `OwnerTheorem`: the channel has one owner, in every order of
the calls of both libraries and of the steps of three threads. `OwnerInv` adds what holds
between the steps: a device that `FTDI_INIT` has opened and not yet stored is the channel's,
and no other handle of it is in the global; and what `ISD_INIT` has closed is not opened
again before it clears the global, since the thread that would open it is its own. `ReadTheorem`: a dump or verify is right if the chip
listened, because nothing writes to the chip during a read (`ReadInv`), and stays so
while a later `FTDI_INIT` opens the device (`AnswerInv`).
`WriteTheorem`: a write that lost no packet leaves the file in a chip that was
erased (`WriteInv`). `ProgressTheorem`: the progress is back at 0 (`ResetInv`:
only a transfer that has its file moves it).

**UsbProofs**, of `Transport`. `ReplyTheorem`: a reply is that of its own request,
whole and in order, however the driver cuts up writes and reads. `GotInv` adds that
nothing has been read while the request is sent and never more than was asked for;
the rest are lemmas about sequences.

**UsbProofs**, of `IsdPins`. `FramesTheorem`: the chip takes the bits it is sent, each
once and in order, and all of them once the FT2232H is idle. `RepliesTheorem`: the
bytes of a transfer are the bits the chip put out for them, and a wait looks at RDY
when all that was sent before has been taken. `AnswersTheorem`: a read whose
commands have been executed has exactly the replies it asks for (`ReadsAnswered`,
the safety half of `ExportsReturn`). For bytes of any width, exports of any length and
any number of polls, with the channel closed from another thread between any two
steps and opened again.

The invariant `PinsInv` follows the queue between driver and chip, as `RegistersInv`
does. A situation is the pins, the bits taken and put out, and the replies still
due; the commands on their way are a `Path` of situations, given here by the
situations in between. `Steady` says where this path leads: to a rest at which the
clock is high, all bits of `SentBytes` are taken, no reply is due, and SS is as the
level says at which the rest of the export begins (`Levels`: never selected since
the channel was opened, selected, deselected again; `ExportsDo` shows that every export
keeps to the levels `Allowed` for its functions, with its loops run any number of times).
A reading command is only passed where the path shows what the reader waits for
(`Looked`), so that a reply is right when it is made, and the replies that lie in the
channel are right until they are read (`RepliesInv`). That `Waveform` is such a
path is shown bit by bit (`ClockBitRuns`) and put together with `PathFlatten`, and
from the bits of a reply to the bytes returned it is a quotient and a rest
(`BitOfByte`).

All this holds while the channel is `Live`, open and not being closed under the
worker, whereas `cut` says what has happened since. Three more parts make it inductive:
nobody who is not cut off works while somebody closes (`OwnedInv`); who lost the
handle without being cut off, after a bad status, left no reply behind (`QuietInv`);
and what the last function returned stays right until the next one (`AnswerInv`).
Opening starts the path anew, since it purges both queues and resets the pins
(`OpenOrder`); with the purge of the replies left out, the mutant `KeepReplies`, it
would not.

**ImageWriteProofs.** `GeometryTheorem`: whatever consoles came before, `SFC_init`
leaves the geometry of this one (`InitIsOwn`). `BufferTheorem`: the `fread` of
`Main.cpp:160` leaves the buffer only for the calls `BufferHoldsImage` names, and fills
what the loop takes of a file whose size an `int` holds (`SizeIsTold`), although the number
of pages may wrap (`LoadFits`); `BufferFits` is that a product which does not wrap is
enough for every page below the limit. The other theorems are about such files too. `ImageTheorem`: the file is in its place on
the NAND, page by page, and nowhere else. It stands on both: with the console's
own geometry the loop and the NAND agree where an erase block begins
(`BlocksFollow`), and what the loop takes from the buffer is the file's
(`BufferTheorem`); `PlaceInv` adds that the driver's `gNextBlock` is the page of the
loop once one is written, and `SpareKeepsData` that patching the spare never
reaches the data. `PatchTheorem`: every page written in mode 4 is right where it
lies (`PatchedPagesFit`), for any polynomial, any number of code bits and any page.
That `fixECC` makes a code word is an argument about its loop: dividing the bits
that round k has taken in by the generator leaves what the register holds
(`Divides`), one round keeps that (`RoundDivides`), so all rounds do
(`AllRoundsDivide`, by `Induction`), and with the register written behind them the
bits are a multiple (`CodeFits`). `PatchInv` says of the pages written so far that
each is what `fixSpare_ECC` makes of the file's with the number of its own block,
which is where `GeometryIsOwn` comes in.

**NandReadProofs.** `PunctualTheorem`: every page that was ready in time is in its
place, whole, in both builds. For the batch the invariant says how far the chip
has come, as a page and a command of that page (`QueueFrom`): the rest of the queue
is the rest of that page's commands and those of the pages after it, and a
punctual page is the one being loaded, then the one in the buffer, for all of its
words (`At`). Page by page the loading is over before the polls are: what is left
of it never exceeds the polls that are left (`PollInv`). Which command of which
page is the k-th in the queue is a quotient and a rest (`QuotientAndRest`,
`QuotientOfNext`).

**Types.** `Emmc`, `NandRead`, `Transport`, `Registers` and `IsdPins` have no type invariant
among their properties: their safety properties say of the same variables what the
values must be, not only of what type. The others have one, and it is a theorem:
`TypesHold` in `SpiSessionProofs`, and a `TypeTheorem` each in three more modules. These
need more than types. In `NandWriteProofs` it is `PagesInv`: a call that begins inside an
erase block pushes `gNextBlock` on by no more than a page for each of its own, and one,
and a counter of words is only decremented while it is positive. In `Isd2100Proofs` it is
`CountInv`, a sample is taken only while some of the ten are left, and the percentage
is one because no more words are done than there are (`Percentage`). In
`ImageWriteProofs` it is `NextInv`, the same as `PagesInv` for the calls of many consoles and
files with anything in them.

**RegistersProofs.** `AccessesTheorem`: the controller sees every access as it was
queued, whole and in order, however late the chip comes to it. `NothingLeftTheorem`:
between two functions of a driver no access waits in the buffer, none was dropped for
want of room, and no byte of a reply is left for the next function to read.
`LinesTheorem`: no access moves the lines that keep the console in flash mode.
`AnswersTheorem`: the chip never stops at bytes it makes no command of, and once it is
through, a `GetDataFromDevice` has what it asks for: the safety half of `FunctionsEnd`. For
pages, batches and delays of any size, under one assumption besides the types of
the constants, `BatchFits`: a batch fits in `OUTPUT_BUFFER_SIZE` with the byte that
makes its answer come at once, and a delay in one command. With the sizes of
`Flasher.h` and `wrapper_spi.h` that is 157249 of 524288 bytes and 375 of 65536;
`AddByteToOutputBuffer` has no other defence than to drop what is too much, and
the run shows that with one byte more per page it does.

The state holds three sequences that are still to be worked through: what the chip has
been sent, what is staged, and what is left of the function. Each is a program for
a machine: bytes that take the chip from a situation (its pins, the bits since chip
select went down, the accesses and reply bytes to come) to another (`Runs`), or
steps that take the worker's tallies (bytes staged, reply bytes asked for, reply
bytes due) to another (`Does`). Both are a `Path`: there is a set of
situations that has the first one, and with each that is not the end the
situation after its first command. Defined by such a set, and not by recursion,
paths can be taken a command at a time from the front and put together at the end
(`Runs` of a concatenation), which is all that the actions need.
`RegistersInv` joins the three: what the chip has leads it to rest with exactly the accesses
sent; the staged bytes lead it on from there, through exactly those queued, to the
pins the driver last set; and what is left of the function ends with an empty
buffer and no reply byte due (`Leads`). That every action keeps it is one lemma
per action (`QueueKeeps`, `SendKeeps`, `GetKeeps`, `ExecuteKeeps` and so on). What they
rest on is proved once: that the frame of each access is decoded as that access
(`WriteRuns`, `ReadRuns`, `DelayRuns`), and that each function of the drivers
takes what it asks for and fits (`FunctionsDo`, with `BatchDoes` by `Induction` over the words
and the pages of a batch).

Only model-checked:

- liveness and ENABLED, which are out of the prover's reach: `CallEnds` of `spi` (with it
  that a stopped call ends), of the eMMC and of the ISD2100, `CallReturns`, `RequestEnds`,
  `ReadReturns`, `ExportsReturn` and `FunctionsEnd`. Of the last two, in
  which the driver waits for replies of the FT2232H, the half that is safety is proved
  (the two `AnswersTheorem`s): what is waited for has been caused.

## Not modelled

- `spi_init`'s configuration of the chip and `closeDevice` are one step each: no
  property depends on the order of the vendored calls.
- The clock divisor and the signal timing of the ISD2100. `FTDI_INIT(0)`
  divides by zero (`ISD2100.cpp:115`); that is one expression of one argument, for
  a caller to avoid, and no sequence of steps leads to it.
- Functions nothing calls: `XSPIWriteBlock_`, `reverse` and `reverse_array`, `fixBB`,
  `ReadStatus`, `ISD_ReadID`, and the CID, CSD, EXT_CSD and single-block functions of
  `XeMMC.cpp`.
- The vendored libraries (`FTD2XX.H`, `FTCSPI.h`), but for what the code relies on, and the
  stub `main()`.
- Messages, the log and the console window.

## Plan

Modelled, in this order: the session, NAND write and erase, the eMMC, the USB
transport, NAND read, the ISD2100, the register accesses; then the geometry, the
spare area and the write of an image, the channel shared by both libraries, and
the pins of the ISD2100. Proved: the theorems above. What is left:

1. A composition of the session with `NandWrite` in which a stop falls between two
   pages of an erase block and the next call begins in the middle of it. Both
   halves are modelled: `NandWrite` begins calls inside an erase block with
   whatever `gNextBlock` was left at.
