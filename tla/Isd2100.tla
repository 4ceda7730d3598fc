-------------------------------- MODULE Isd2100 --------------------------------
(***************************************************************************)
(* The ISD2100 exports (Main.cpp, ISD2100.cpp): opening the second channel *)
(* of the FT2232H, which spi() and the eMMC exports open too, and dumping, *)
(* verifying, writing and erasing the flash of the sound chip.  A worker   *)
(* thread runs one export after another in any order, FTDI_INIT among      *)
(* them; FTDI_DEINIT_IMMEDIATELY and the calls of the other family come    *)
(* from other threads, and every step of theirs may fall between any two   *)
(* of the worker.  One thread at a time is in FTDI_DEINIT.                 *)
(*                                                                         *)
(* The chip is external.  It is busy for any time after a command, ignores *)
(* what is sent to it while it is busy or powered down, and what is read   *)
(* from it then - or through a handle that is NULL or closed, when the     *)
(* code looks at variables FT_Read never wrote - is anything.              *)
(***************************************************************************)
EXTENDS Integers, FiniteSets

CONSTANTS
  Cells,                \* words of four bytes in the flash, 0xB000 / 4
  CellsPerRead,         \* words read with one command, transferSize / 4
  Checkpoint,           \* words between two checkpoints of a write, 0x1000 / 4
  Checks,               \* words sampled after a write, 10
  PollLimit             \* polls of WaitForReady before it gives up

ASSUME IsdAssumption ==
  /\ Cells \in Nat \ {0} /\ CellsPerRead \in Nat \ {0}
  /\ Checkpoint \in Nat \ {0} /\ Checks \in Nat /\ PollLimit \in Nat

VARIABLES
  g_ftHandle,           \* "NULL", or the handle of a device that is "open" or "closed" by now
  percentage,
  closing,              \* how far the thread in FTDI_DEINIT is
  \* the worker: place, export, next word, did the chip take the read
  \* command, polls of the current wait, words in its buffer
  pc, op, addr, taken, polls, buffer,
  found,                \* its local ftHandle in FTDI_AutoInitialize: is it other than NULL?
  \* of a write: samples so far, has every one been right?
  checks, finalCheck,
  file, ret,            \* the file a dump wrote; the answer
  \* channel B of the device: whom is it open for, the handle of wrapper_spi
  \* (is it other than 0?) and the thread that runs spi() or an eMMC export
  opened, ftHandle, spi,
  flash, busy, powered, \* the chip
  \* history: was a read or an erase not heard by the chip, was a packet of a
  \* write, was the flash erased when it began, did a verify without a file
  \* leave percentage behind, had the last verify its file, was the handle
  \* of a device that was open overwritten?
  failed, lost, fresh, unreset, fileRead, orphaned

handle  == <<g_ftHandle, closing>>
call    == <<op, addr, taken, polls, buffer>>
check   == <<checks, finalCheck>>
chip    == <<flash, busy, powered>>
device  == <<found, opened, ftHandle, spi, orphaned>>
history == <<failed, lost, fresh, unreset, fileRead>>
vars    == <<handle, percentage, pc, call, check, file, ret, device, chip, history>>

CellNumbers == 0 .. (Cells - 1)

\* What a word holds: word k of the file is k.
Blank  == -1
Other  == -2
Random == -3
Image  == [k \in CellNumbers |-> k]
NoFile == [k \in CellNumbers |-> Random]

Erased == [k \in CellNumbers |-> Blank]

-------------------------------------------------------------------------------
(* Talking to the chip.                                                    *)

Listening == g_ftHandle = "open" /\ powered /\ ~busy

(* Does the chip hear what the worker sends?  FTDI_DEINIT has deselected   *)
(* it since the command was begun, or the worker selected it later.        *)
Heard == IF closing = "sleep" THEN {FALSE, Listening} ELSE {Listening}

WaitedForGood == g_ftHandle # "open" \/ ~busy

(* WaitForReady answers, and no caller but ISD_Init looks at the answer.   *)
(* Without a device the pin is an uninitialised byte.                      *)
Waited == g_ftHandle # "open" \/ ~busy \/ polls = PollLimit

WaitPoints == {"initWait", "command", "byte", "checkpoint", "checkCommand", "checkByte",
               "erase", "eraseWait", "play"}

PollAgainOnceMore ==
  /\ pc \in WaitPoints
  /\ g_ftHandle = "open" /\ busy
  /\ polls <= PollLimit
  /\ polls' = polls + 1
  /\ UNCHANGED <<handle, percentage, pc, op, addr, taken, buffer, check, file, ret, device,
                 chip, history>>

PollAgain ==
  /\ pc \in WaitPoints
  /\ g_ftHandle = "open" /\ busy
  /\ polls < PollLimit
  /\ polls' = polls + 1
  /\ UNCHANGED <<handle, percentage, pc, op, addr, taken, buffer, check, file, ret, device,
                 chip, history>>

ChipReady ==
  /\ busy
  /\ busy' = FALSE
  /\ UNCHANGED <<handle, percentage, pc, call, check, file, ret, device, flash, powered, history>>

(* What the next word read is.                                             *)
Answer(heard) == IF taken /\ heard THEN {flash[addr]} ELSE {Random, Image[addr]}

Return(r) ==
  /\ pc' = "idle"
  /\ ret' = r

-------------------------------------------------------------------------------
(* The handle.                                                             *)

(* A device that is open already cannot be opened again, and there may be  *)
(* none.                                                                   *)
OpenFTDIByDescription ==
  /\ pc = "idle"
  /\ pc' = "store"
  /\ found' \in {FALSE, opened = "nobody"}
  /\ opened' = IF found' THEN "isd" ELSE opened
  /\ UNCHANGED <<handle, percentage, call, check, file, ret, ftHandle, spi, orphaned,
                 chip, history>>

(* The global takes what was found.  If it had the handle of an open       *)
(* device, nobody has that any more.  The answer is always true, and ret   *)
(* stays that of op.                                                       *)
FTDI_AutoInitialize ==
  /\ pc = "store"
  /\ pc' = "idle"
  /\ g_ftHandle' = IF found THEN "open" ELSE "NULL"
  /\ found' = FALSE
  /\ orphaned' = (orphaned \/ g_ftHandle = "open")
  /\ UNCHANGED <<percentage, closing, call, check, file, ret, opened, ftHandle, spi, chip, history>>

(* The handle is the one the global has now.                               *)
FT_Close ==
  /\ g_ftHandle' = IF g_ftHandle = "open" THEN "closed" ELSE g_ftHandle
  /\ opened' = IF g_ftHandle = "open" THEN "nobody" ELSE opened

(* FTDI_DEINIT has tested the handle ...                                   *)
DeinitTest ==
  /\ closing = "no"
  /\ g_ftHandle # "NULL"
  /\ closing' = "select"
  /\ UNCHANGED <<g_ftHandle, percentage, pc, call, check, file, ret, device, chip, history>>

(* ... deselects the chip and sleeps ...                                   *)
DeinitSelect ==
  /\ closing = "select"
  /\ closing' = "sleep"
  /\ taken' = (taken /\ g_ftHandle # "open")
  /\ UNCHANGED <<g_ftHandle, percentage, pc, op, addr, polls, buffer, check, file, ret, device, chip,
                 history>>

(* ... ends the MPSSE mode, purges and closes: what the worker sends from  *)
(* the first of the three on is not heard, as after the last ...           *)
DeinitClose ==
  /\ closing = "sleep"
  /\ closing' = "clear"
  /\ FT_Close
  /\ UNCHANGED <<percentage, pc, call, check, file, ret, found, ftHandle, spi, orphaned, chip, history>>

(* ... and clears the global, whatever is in it by now.                    *)
DeinitClear ==
  /\ closing = "clear"
  /\ closing' = "no"
  /\ g_ftHandle' = "NULL"
  /\ orphaned' = (orphaned \/ g_ftHandle = "open")
  /\ UNCHANGED <<percentage, pc, call, check, file, ret, found, opened, ftHandle, spi, chip, history>>

LeaveOpen == UNCHANGED <<opened, ftHandle>>

closeDevice ==
  /\ opened' = IF ftHandle THEN "nobody" ELSE opened
  /\ ftHandle' = FALSE

(* spi() and the eMMC exports open the same channel through the other      *)
(* library.  A spi_init that fails, as it must when ISD2100.cpp has it,    *)
(* closes what its handle is of: a channel that a call left by an          *)
(* exception kept is found in use, or is opened again.                     *)
SpiBegins ==
  /\ spi # "runs"
  /\ \/ /\ opened # "isd"
        /\ opened' = "spi"
        /\ ftHandle' = TRUE
        /\ spi' = "runs"
     \/ /\ closeDevice
        /\ spi' = "returned"
  /\ UNCHANGED <<handle, percentage, pc, call, check, file, ret, found, orphaned, chip, history>>

(* The call returns, or GetDataFromDevice throws.                          *)
SpiEnds ==
  /\ spi = "runs"
  /\ \/ closeDevice /\ spi' = "returned"
     \/ LeaveOpen /\ spi' = "threw"
  /\ UNCHANGED <<handle, percentage, pc, call, check, file, ret, found, orphaned, chip, history>>

(* ISD2100_PowerDown and ISD2100_Reset send one byte.                      *)
PowerOff ==
  /\ pc = "idle"
  /\ Listening
  /\ powered' \in BOOLEAN
  /\ UNCHANGED <<handle, percentage, pc, call, check, file, ret, device, flash, busy, history>>

Start(o, place) ==
  /\ pc = "idle"
  /\ pc' = place
  /\ op' = o
  /\ addr' = 0
  /\ taken' = FALSE
  /\ polls' = 0
  /\ buffer' = NoFile
  /\ checks' = 0
  /\ finalCheck' = TRUE
  /\ file' = NoFile
  /\ failed' = FALSE
  /\ lost' = FALSE
  /\ fresh' = (flash = Erased)
  /\ fileRead' = FALSE
  /\ UNCHANGED <<handle, percentage, ret, device, flash, unreset>>

(* ISD_Init powers the chip up, which takes it some time ...               *)
ISD_INIT ==
  /\ Start("init", "initWait")
  /\ \E heard \in IF closing = "sleep" THEN {FALSE, g_ftHandle = "open"} ELSE {g_ftHandle = "open"} :
       /\ powered' = (powered \/ heard)
       /\ busy' = (busy \/ heard)

(* ... waits for it and reads its status.                                  *)
StatusRead ==
  /\ pc = "initWait"
  /\ Waited
  /\ \E ok \in IF g_ftHandle = "open" /\ closing # "sleep" THEN {~busy /\ powered} ELSE BOOLEAN :
       IF ok THEN Return(TRUE) ELSE pc' = "closeHandle" /\ UNCHANGED ret
  /\ UNCHANGED <<handle, percentage, call, check, file, device, chip, history>>

(* When that fails the device is closed ...                                *)
CloseHandle ==
  /\ pc = "closeHandle"
  /\ pc' = "clearHandle"
  /\ FT_Close
  /\ UNCHANGED <<percentage, closing, call, check, file, ret, found, ftHandle, spi, orphaned, chip,
                 history>>

KeepHandle ==
  /\ pc = "clearHandle"
  /\ Return(FALSE)
  /\ UNCHANGED <<handle, percentage, call, check, file, device, chip, history>>

(* ... and then the global cleared.                                        *)
ClearHandle ==
  /\ pc = "clearHandle"
  /\ Return(FALSE)
  /\ g_ftHandle' = "NULL"
  /\ UNCHANGED <<percentage, closing, call, check, file, device, chip, history>>

-------------------------------------------------------------------------------
(* DumpISD2100 and VerifyISD2100, and how they and WriteISD2100 begin.     *)

StartTransfer ==
  /\ \E o \in {"dump", "verify", "write"} : Start(o, "file")
  /\ UNCHANGED <<busy, powered>>

(* No memory; or the file of a dump or of a write cannot be opened, or     *)
(* that of a write has the wrong size.  A verify opens its file last.      *)
OpenFile ==
  /\ pc = "file"
  /\ \/ Return(FALSE)
     \/ /\ pc' = IF op = "write" THEN "packet" ELSE "command"
        /\ UNCHANGED ret
  /\ UNCHANGED <<handle, percentage, call, check, file, device, chip, history>>

SlotInChunk == addr % CellsPerRead

(* Where the next word goes in the buffer, dataIndex.                      *)
Slot == addr

(* Nobody learns whether the chip takes a command.                         *)
SPI_SendCommand ==
  \E heard \in Heard :
    /\ taken' = heard
    /\ failed' = (failed \/ ~heard)

(* The read command for the next words.                                    *)
SendCommand ==
  /\ pc = "command"
  /\ Waited
  /\ pc' = "byte"
  /\ polls' = 0
  /\ SPI_SendCommand
  /\ UNCHANGED <<handle, percentage, op, addr, buffer, check, file, ret, device, chip,
                 lost, fresh, unreset, fileRead>>

(* The word at addr; after the last of a command the chip is deselected    *)
(* and the progress is that of the first.                                  *)
ReadWord ==
  /\ pc = "byte"
  /\ Waited
  /\ \E heard \in Heard :
       /\ \E v \in Answer(heard) : buffer' = [buffer EXCEPT ![Slot] = v]
       /\ failed' = (failed \/ ~(taken /\ heard))
  /\ addr' = addr + 1
  /\ polls' = 0
  /\ IF addr + 1 = Cells
     THEN /\ pc' = "finish"
          /\ percentage' = 100
     ELSE IF (addr + 1) % CellsPerRead = 0
     THEN /\ pc' = "command"
          /\ percentage' = ((addr + 1 - CellsPerRead) * 100) \div Cells
     ELSE UNCHANGED <<pc, percentage>>
  /\ UNCHANGED <<handle, op, taken, check, file, ret, device, chip, lost, fresh, unreset, fileRead>>

FinishDumpLeavesProgress ==
  /\ pc = "finish" /\ op = "dump"
  /\ \/ /\ file' = buffer
        /\ Return(TRUE)
        /\ percentage' = 0
        /\ unreset' = FALSE
     \/ /\ Return(FALSE)
        /\ UNCHANGED <<file, percentage, unreset>>
  /\ UNCHANGED <<handle, call, check, device, chip, failed, lost, fresh, fileRead>>

(* fwrite takes the whole buffer or not.                                   *)
FinishDump ==
  /\ pc = "finish" /\ op = "dump"
  /\ \/ /\ file' = buffer
        /\ Return(TRUE)
     \/ /\ Return(FALSE)
        /\ UNCHANGED file
  /\ percentage' = 0
  /\ unreset' = FALSE
  /\ UNCHANGED <<handle, call, check, device, chip, failed, lost, fresh, fileRead>>

FinishVerifyFirst ==
  /\ pc = "finish" /\ op = "verify"
  /\ Return(buffer[0] = Image[0])
  /\ percentage' = 0
  /\ unreset' = FALSE
  /\ fileRead' = TRUE
  /\ UNCHANGED <<handle, call, check, file, device, chip, failed, lost, fresh>>

(* A file that is missing or of the wrong size leaves percentage at 100.   *)
FinishVerify ==
  /\ pc = "finish" /\ op = "verify"
  /\ \/ /\ Return(FALSE)
        /\ unreset' = TRUE
        /\ UNCHANGED <<percentage, fileRead>>
     \/ /\ Return(buffer = Image)
        /\ percentage' = 0
        /\ unreset' = FALSE
        /\ fileRead' = TRUE
  /\ UNCHANGED <<handle, call, check, file, device, chip, failed, lost, fresh>>

-------------------------------------------------------------------------------
(* WriteISD2100.                                                           *)

PacketFirstWord == Image[0]

(* The word a packet carries.                                              *)
PacketWord == Image[addr]

AfterPacket(a) ==
  /\ addr' = a + 1
  /\ polls' = 0
  /\ unreset' = FALSE
  /\ IF a + 1 = Cells
     THEN /\ pc' = IF Checks = 0 THEN "done" ELSE "checkCommand"
          /\ percentage' = 0
     ELSE /\ pc' = "packet"
          /\ percentage' = (a * 100) \div Cells

(* A packet programs an erased word; a chip that does not listen loses it. *)
SPI_SendPacket ==
  \/ /\ TRUE \in Heard
     /\ flash' = [flash EXCEPT ![addr] = IF @ = Blank THEN PacketWord ELSE Other]
     /\ busy' \in BOOLEAN
     /\ UNCHANGED lost
  \/ /\ FALSE \in Heard
     /\ lost' = TRUE
     /\ UNCHANGED <<flash, busy>>

(* One packet, sent without a look at RDY.  Every Checkpoint words the     *)
(* code waits, reads eight bytes and goes on whatever they are.            *)
SendPacket ==
  /\ pc = "packet"
  /\ SPI_SendPacket
  /\ IF addr % Checkpoint = 0
     THEN /\ pc' = "checkpoint"
          /\ polls' = 0
          /\ UNCHANGED <<addr, percentage, unreset>>
     ELSE AfterPacket(addr)
  /\ UNCHANGED <<handle, op, taken, buffer, check, file, ret, device, powered, failed, fresh, fileRead>>

PassCheckpoint ==
  /\ pc = "checkpoint"
  /\ Waited
  /\ AfterPacket(addr)
  /\ UNCHANGED <<handle, op, taken, buffer, check, file, ret, device, chip, failed, lost, fresh,
                 fileRead>>

(* The read command for a word chosen by rand().                           *)
SampleCommand ==
  /\ pc = "checkCommand"
  /\ Waited
  /\ addr' \in CellNumbers
  /\ pc' = "checkByte"
  /\ polls' = 0
  /\ SPI_SendCommand
  /\ UNCHANGED <<handle, percentage, op, buffer, check, file, ret, device, chip, lost, fresh,
                 unreset, fileRead>>

SampleWord ==
  /\ pc = "checkByte"
  /\ Waited
  /\ \E heard \in Heard :
       /\ \E v \in Answer(heard) : finalCheck' = (finalCheck /\ v = Image[addr])
       /\ failed' = (failed \/ ~(taken /\ heard))
  /\ checks' = checks + 1
  /\ pc' = IF checks + 1 = Checks THEN "done" ELSE "checkCommand"
  /\ polls' = 0
  /\ percentage' = IF checks + 1 = Checks THEN 100 ELSE (addr * 100) \div Cells
  /\ UNCHANGED <<handle, op, addr, taken, buffer, file, ret, device, chip, lost, fresh, unreset,
                 fileRead>>

(* The answer is true whatever finalCheck says; only the message differs.  *)
WriteDone ==
  /\ pc = "done"
  /\ Return(TRUE)
  /\ percentage' = 0
  /\ UNCHANGED <<handle, call, check, file, device, chip, history>>

-------------------------------------------------------------------------------
(* ISD_EraseMass and Play.                                                 *)

StartCommand ==
  /\ Start("erase", "erase") \/ Start("play", "play")
  /\ UNCHANGED <<busy, powered>>

EraseMass ==
  /\ pc = "erase"
  /\ Waited
  /\ \E heard \in Heard :
       /\ flash' = IF heard THEN Erased ELSE flash
       /\ busy' = (busy \/ heard)
       /\ failed' = (failed \/ ~heard)
  /\ pc' = "eraseWait"
  /\ polls' = 0
  /\ UNCHANGED <<handle, percentage, op, addr, taken, buffer, check, file, ret, device, powered,
                 lost, fresh, unreset, fileRead>>

Play ==
  /\ pc = "play"
  /\ Waited
  /\ \E heard \in Heard : busy' = (busy \/ heard)
  /\ Return(TRUE)
  /\ UNCHANGED <<handle, percentage, call, check, file, device, flash, powered, history>>

(* The wait for the end of the erase, whose answer is not looked at.       *)
EraseOver ==
  /\ pc = "eraseWait"
  /\ Waited
  /\ Return(TRUE)
  /\ failed' = (failed \/ busy)
  /\ UNCHANGED <<handle, percentage, call, check, file, device, chip, lost, fresh, unreset, fileRead>>

Driver ==
  \/ FTDI_AutoInitialize \/ StatusRead \/ CloseHandle \/ ClearHandle
  \/ PollAgain \/ SendCommand \/ ReadWord \/ FinishDump \/ FinishVerify
  \/ OpenFile \/ SendPacket \/ PassCheckpoint \/ SampleCommand \/ SampleWord \/ WriteDone
  \/ EraseMass \/ Play \/ EraseOver

Starting ==
  \/ OpenFTDIByDescription \/ ISD_INIT \/ PowerOff
  \/ StartTransfer \/ StartCommand

FTDI_DEINIT == DeinitTest \/ DeinitSelect \/ DeinitClose \/ DeinitClear

Init ==
  /\ g_ftHandle = "NULL" /\ percentage = 0 /\ closing = "no" /\ found = FALSE
  /\ pc = "idle" /\ op = "none" /\ addr = 0 /\ taken = FALSE /\ polls = 0 /\ buffer = NoFile
  /\ checks = 0 /\ finalCheck = TRUE /\ file = NoFile /\ ret = FALSE
  /\ opened = "nobody" /\ ftHandle = FALSE /\ spi = "returned" /\ orphaned = FALSE
  /\ flash \in {Erased, Image, [k \in CellNumbers |-> Other]}
  /\ busy = FALSE /\ powered \in BOOLEAN
  /\ failed = FALSE /\ lost = FALSE /\ fresh = FALSE /\ unreset = FALSE /\ fileRead = FALSE

Next == Starting \/ Driver \/ FTDI_DEINIT \/ SpiBegins \/ SpiEnds \/ ChipReady

Spec == Init /\ [][Next]_vars

(* The worker is scheduled and the FT2232H answers what it is sent, as an  *)
(* FT_Read here has no time-out; the chip may stay busy for good.          *)
FairSpec == Spec /\ WF_vars(Driver)

-------------------------------------------------------------------------------
(* Properties.                                                             *)

Values == CellNumbers \cup {Blank, Other, Random}

TypeOK ==
  /\ g_ftHandle \in {"NULL", "open", "closed"} /\ found \in BOOLEAN
  /\ closing \in {"no", "select", "sleep", "clear"} /\ opened \in {"nobody", "isd", "spi"}
  /\ percentage \in 0 .. 100
  /\ pc \in WaitPoints \cup {"idle", "store", "closeHandle", "clearHandle", "finish", "file",
                            "packet", "done"}
  /\ op \in {"none", "init", "dump", "verify", "write", "erase", "play"}
  /\ addr \in 0 .. Cells /\ taken \in BOOLEAN /\ polls \in 0 .. PollLimit
  /\ buffer \in [CellNumbers -> Values] /\ file \in [CellNumbers -> Values]
  /\ flash \in [CellNumbers -> Values] /\ busy \in BOOLEAN /\ powered \in BOOLEAN
  /\ checks \in 0 .. Checks /\ finalCheck \in BOOLEAN /\ ret \in BOOLEAN
  /\ failed \in BOOLEAN /\ lost \in BOOLEAN /\ fresh \in BOOLEAN
  /\ unreset \in BOOLEAN /\ fileRead \in BOOLEAN /\ orphaned \in BOOLEAN
  /\ ftHandle \in BOOLEAN /\ spi \in {"runs", "returned", "threw"}

Returned(o) == pc = "idle" /\ op = o

(* A dump that answers true has every word of the chip in its place in the *)
(* file, and a verify that got its file answers true exactly when the chip *)
(* holds it, if the chip was listening to each command.                    *)
ReadsAreRight ==
  ~failed =>
    /\ Returned("dump") /\ ret => file = flash
    /\ Returned("verify") /\ fileRead => (ret <=> flash = Image)

(* A write to an erased chip that kept up with it leaves the file in the   *)
(* chip, and its samples say so.                                           *)
WriteLands ==
  Returned("write") /\ ret /\ fresh /\ ~lost /\ ~failed => flash = Image /\ finalCheck

(* The two families of exports never have the channel both, although its   *)
(* opening and closing are steps of three threads: g_ftHandle never passes *)
(* for the handle of an open device when the channel is closed or is the   *)
(* other family's.  A closed handle is left in it only until the thread    *)
(* that closed the device clears it.  The channel stays open without a     *)
(* call to use it only after an exception, and then until the next call,   *)
(* or for good when the handle of an open device was overwritten: by       *)
(* FTDI_INIT, which does not look whether there is one, or by the end of a *)
(* FTDI_DEINIT that an FTDI_INIT overtook; never by an ISD_INIT that fails.*)
ChannelHasOneOwner ==
  /\ g_ftHandle = "open" => opened = "isd"
  /\ g_ftHandle = "closed" => closing = "clear" \/ pc = "clearHandle"
  /\ ftHandle <=> opened = "spi"
  /\ opened = "isd" => g_ftHandle = "open" \/ (pc = "store" /\ found) \/ orphaned
  /\ opened = "spi" => spi \in {"runs", "threw"}

(* The progress of a finished call is not taken for that of the next: it   *)
(* is back at 0, but for a verify without a file.                          *)
ProgressReset == pc = "idle" /\ ~unreset => percentage = 0

(* A call returns even if the chip stays busy for good.                    *)
CallEnds == pc # "idle" ~> pc = "idle"

===============================================================================
