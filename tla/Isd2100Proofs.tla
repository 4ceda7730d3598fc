----------------------------- MODULE Isd2100Proofs -----------------------------
(***************************************************************************)
(* Theorems about the ISD2100 exports, for every size of the flash, of a   *)
(* read and of a checkpoint, and for any chip.                             *)
(***************************************************************************)
EXTENDS Isd2100, TLAPS

(* Two functions with the same values are the same.                        *)
LEMMA SameWords ==
  ASSUME NEW S, NEW T, NEW U, NEW f \in [S -> T], NEW g \in [S -> U], \A k \in S : f[k] = g[k]
  PROVE  f = g
OBVIOUS

(* What the proofs need of the types.                                      *)
DataOK ==
  /\ addr \in Nat
  /\ buffer \in [CellNumbers -> Values] /\ flash \in [CellNumbers -> Values]

(* An export is only at places of its own.                                 *)
PlaceInv ==
  /\ pc \in {"command", "byte", "finish"} => op \in {"dump", "verify"}
  /\ pc \in {"packet", "checkpoint", "checkCommand", "checkByte", "done"} => op = "write"
  /\ pc \in {"erase", "eraseWait"} => op = "erase"
  /\ pc \in {"initWait", "closeHandle", "clearHandle"} => op = "init"
  /\ pc = "play" => op = "play"
  /\ fileRead => pc \in {"idle", "store"}
  /\ pc = "file" => op \in {"dump", "verify", "write"} /\ addr = 0
  /\ pc \in {"command", "byte", "packet", "checkpoint", "checkByte"} => addr < Cells
  /\ pc = "finish" => addr = Cells

(* What has been read so far is what the chip holds, if the chip listened: *)
(* nothing writes to the chip during a read.                               *)
ReadInv ==
  pc \in {"command", "byte", "finish"} /\ ~failed =>
    \A k \in CellNumbers : k < addr => buffer[k] = flash[k]

(* The words the chip holds when those before n have been written to it.   *)
WrittenBelow(n) == \A k \in CellNumbers : flash[k] = IF k < n THEN k ELSE Blank

(* A chip that began erased and lost no packet holds the words before addr *)
(* and none after them; once all are written the samples are right.        *)
WriteInv ==
  op = "write" /\ fresh /\ ~lost =>
    /\ pc = "file" => WrittenBelow(0) /\ finalCheck
    /\ pc = "packet" => WrittenBelow(addr) /\ finalCheck
    /\ pc = "checkpoint" => WrittenBelow(addr + 1) /\ finalCheck
    /\ pc \in {"checkCommand", "checkByte", "done"} =>
         WrittenBelow(Cells) /\ (~failed => finalCheck)

(* What the properties say of an export that has returned stays true while *)
(* an FTDI_INIT opens the device.                                          *)
AnswerInv ==
  pc \in {"idle", "store"} /\ ~failed =>
    /\ op = "dump" /\ ret => file = flash
    /\ op = "verify" /\ fileRead => (ret <=> flash = Image)
    /\ op = "write" /\ ret /\ fresh /\ ~lost => flash = Image /\ finalCheck

IInv == DataOK /\ PlaceInv /\ ReadInv /\ WriteInv /\ AnswerInv

USE DEF CellNumbers, Values, Blank, Other, Random, WaitPoints, Returned

-------------------------------------------------------------------------------
(* The channel.                                                            *)

(* A handle that was found is that of the open channel and not yet in the  *)
(* global; what ISD_INIT has closed nobody has opened before it clears the *)
(* global, as the thread that would is its own.                            *)
OwnerInv ==
  /\ ChannelHasOneOwner
  /\ pc = "store" /\ found => opened = "isd" /\ g_ftHandle # "open"
  /\ pc = "clearHandle" => g_ftHandle # "open"

(* Nobody has the channel before the first call.                           *)
LEMMA InitOwner == Init => OwnerInv
BY DEF Init, OwnerInv, ChannelHasOneOwner

(* Every opening and closing keeps the channel with one owner, and no      *)
(* other step touches it.                                                  *)
LEMMA StepOwner == OwnerInv /\ [Next]_vars => OwnerInv'
<1> SUFFICES ASSUME OwnerInv, [Next]_vars PROVE OwnerInv'
  OBVIOUS
<1> USE DEF OwnerInv, ChannelHasOneOwner, Return, handle
<1>1. CASE OpenFTDIByDescription
  <2>1. /\ pc' = "store" /\ pc = "idle"
        /\ found' = FALSE \/ (found' = TRUE /\ opened = "nobody")
        /\ opened' = IF found' THEN "isd" ELSE opened
        /\ UNCHANGED <<g_ftHandle, closing, ftHandle, spi, orphaned>>
    BY <1>1 DEF OpenFTDIByDescription, handle
  <2>2. CASE found' = FALSE
    BY <2>1, <2>2
  <2>3. CASE found' = TRUE /\ opened = "nobody"
    BY <2>1, <2>3
  <2>4. QED
    BY <2>1, <2>2, <2>3
<1>2. CASE FTDI_AutoInitialize
  BY <1>2 DEF FTDI_AutoInitialize
<1>3. CASE DeinitTest \/ DeinitSelect
  BY <1>3 DEF DeinitTest, DeinitSelect, device
<1>4. CASE DeinitClose
  BY <1>4 DEF DeinitClose, FT_Close
<1>5. CASE DeinitClear
  BY <1>5 DEF DeinitClear
<1>6. CASE SpiBegins
  BY <1>6 DEF SpiBegins, closeDevice
<1>7. CASE SpiEnds
  BY <1>7 DEF SpiEnds, closeDevice, LeaveOpen
<1>8. CASE CloseHandle
  BY <1>8 DEF CloseHandle, FT_Close
<1>9. CASE ClearHandle
  BY <1>9 DEF ClearHandle, device
<1>10. ASSUME UNCHANGED <<handle, device>>,
             pc' = pc \/ (pc \notin {"store", "clearHandle"} /\ pc' \notin {"store", "clearHandle"})
      PROVE  OwnerInv'
  BY <1>10 DEF device
<1>11. CASE ISD_INIT \/ PowerOff \/ StartTransfer \/ StartCommand
  BY <1>10, <1>11 DEF ISD_INIT, PowerOff, StartTransfer, StartCommand, Start
<1>12. CASE PollAgain \/ StatusRead \/ SendCommand \/ ReadWord \/ FinishDump \/ FinishVerify \/ OpenFile
  BY <1>10, <1>12 DEF PollAgain, StatusRead, SendCommand, ReadWord, FinishDump, FinishVerify, OpenFile
<1>13. CASE SendPacket \/ PassCheckpoint \/ SampleCommand \/ SampleWord \/ WriteDone
  BY <1>10, <1>13 DEF SendPacket, PassCheckpoint, SampleCommand, SampleWord, WriteDone, AfterPacket
<1>14. CASE EraseMass \/ Play \/ EraseOver \/ ChipReady \/ UNCHANGED vars
  BY <1>10, <1>14 DEF EraseMass, Play, EraseOver, ChipReady, vars
<1>15. QED
  BY <1>1, <1>2, <1>3, <1>4, <1>5, <1>6, <1>7, <1>8, <1>9, <1>11, <1>12, <1>13, <1>14
     DEF Next, Starting, Driver, FTDI_DEINIT

(* The two families of exports never have the channel both, no closed      *)
(* handle passes for that of an open device, and the channel is lost only  *)
(* where the handle of an open device is overwritten, whatever the order   *)
(* of the calls and of the steps of the three threads.                     *)
THEOREM OwnerTheorem == Spec => []ChannelHasOneOwner
<1>1. OwnerInv => ChannelHasOneOwner
  BY DEF OwnerInv
<1>2. QED
  BY InitOwner, StepOwner, <1>1, PTL DEF Spec

-------------------------------------------------------------------------------
(* The data.                                                               *)

(* The chip hears a command or not.                                        *)
LEMMA HeardIs == \A heard \in Heard : heard \in BOOLEAN
<1>1. Listening \in BOOLEAN
  BY Zenon DEF Listening
<1>2. QED
  BY <1>1, Zenon DEF Heard

(* The invariant holds before the first call.                              *)
LEMMA InitInvariant == Init => IInv
BY IsdAssumption
   DEF Init, IInv, DataOK, PlaceInv, ReadInv, WriteInv, AnswerInv, NoFile, Erased, Image

(* Every step of an export, of another thread and of the chip keeps it.    *)
LEMMA StepInvariant == IInv /\ [Next]_vars => IInv'
<1> SUFFICES ASSUME IInv, [Next]_vars PROVE IInv'
  OBVIOUS
<1> USE IsdAssumption
    DEF IInv, DataOK, PlaceInv, ReadInv, WriteInv, AnswerInv, WrittenBelow,
        call, check, chip, device, history
<1>1. ASSUME UNCHANGED <<op, addr, polls, buffer, check, file, ret, flash, history>>,
             pc' = pc \/ {pc, pc'} \subseteq {"idle", "store"}
      PROVE  IInv'
  BY <1>1
<1>2. CASE SpiBegins \/ SpiEnds \/ PowerOff \/ ChipReady
  BY <1>1, <1>2 DEF SpiBegins, SpiEnds, PowerOff, ChipReady
<1>3. CASE FTDI_DEINIT
  BY <1>1, <1>3 DEF FTDI_DEINIT, DeinitTest, DeinitSelect, DeinitClose, DeinitClear
<1>4. CASE OpenFTDIByDescription \/ FTDI_AutoInitialize
  BY <1>1, <1>4 DEF OpenFTDIByDescription, FTDI_AutoInitialize
<1>5. CASE UNCHANGED vars
  BY <1>1, <1>5 DEF vars
<1>6. CASE PollAgain
  BY <1>6 DEF PollAgain
<1>7. CASE ISD_INIT
  BY <1>7 DEF ISD_INIT, Start, NoFile
<1>8. CASE StartTransfer
  <2>1. fresh' => \A k \in CellNumbers : flash[k] = Blank
    <3>1. fresh' = (flash = Erased)
      BY <1>8 DEF StartTransfer, Start
    <3>2. flash = Erased => \A k \in CellNumbers : flash[k] = Blank
      BY DEF Erased
    <3>3. QED
      BY <3>1, <3>2
  <2>2. pc' = "file" /\ op' \in {"dump", "verify", "write"} /\ addr' = 0 /\ finalCheck' /\ flash' = flash
        /\ buffer' = NoFile /\ fileRead' = FALSE
    BY <1>8 DEF StartTransfer, Start
  <2>3. QED
    BY <2>1, <2>2 DEF NoFile
<1>9. CASE StartCommand
  BY <1>9 DEF StartCommand, Start, NoFile
<1>10. CASE StatusRead \/ CloseHandle \/ ClearHandle
  BY <1>10 DEF StatusRead, CloseHandle, ClearHandle, Return
<1>11. CASE OpenFile
  BY <1>11 DEF OpenFile, Return
<1>12. CASE SendCommand
  BY <1>12 DEF SendCommand, SPI_SendCommand
<1>13. CASE ReadWord
  <2>1. addr \in CellNumbers /\ Image[addr] \in Values
    BY <1>13 DEF ReadWord, Image
  <2>0. PICK heard \in Heard :
          /\ \E v \in Answer(heard) : buffer' = [buffer EXCEPT ![addr] = v]
          /\ failed' = (failed \/ ~(taken /\ heard))
    BY <1>13 DEF ReadWord, Slot
  <2>2. PICK v \in Answer(heard) : buffer' = [buffer EXCEPT ![addr] = v]
    BY <2>0
  <2>3. v \in Values
    BY <2>1, <2>2 DEF Answer
  <2>4. DataOK'
    <3>1. addr' = addr + 1 /\ flash' = flash
      BY <1>13 DEF ReadWord
    <3>2. addr' \in Nat
      BY <3>1
    <3>3. buffer' \in [CellNumbers -> Values]
      <4> HIDE DEF Values
      <4>1. QED
        BY <2>2, <2>3
    <3>4. QED
      BY <3>1, <3>2, <3>3
  <2>5. ~failed' => ~failed /\ v = flash[addr]
    BY <2>0, <2>2 DEF Answer
  <2>6. op' = op /\ addr' = addr + 1 /\ flash' = flash /\ taken' = taken /\ ~fileRead' /\ op \in {"dump", "verify"}
        /\ pc' \in {"finish", "command", "byte"}
        /\ (pc' = "finish" <=> addr + 1 = Cells)
    BY <1>13 DEF ReadWord
  <2>7. PlaceInv'
    BY <2>1, <2>6
  <2>8. ReadInv'
    <3>1. ~failed' => \A k \in CellNumbers : k < addr + 1 => buffer'[k] = flash[k]
      BY <1>13, <2>1, <2>2, <2>5 DEF ReadWord
    <3>2. QED
      BY <2>6, <3>1
  <2>9. QED
    BY <2>4, <2>6, <2>7, <2>8
<1>14. CASE FinishDump
  BY <1>14, SameWords DEF FinishDump, Return
<1>15. CASE FinishVerify
  <2>1. DataOK' /\ PlaceInv' /\ ReadInv' /\ WriteInv'
    BY <1>15 DEF FinishVerify, Return
  <2>2. fileRead' /\ ~failed' => (ret' <=> flash' = Image)
    <3>1. ~failed => buffer = flash
      BY <1>15, SameWords DEF FinishVerify
    <3>2. CASE ret' = FALSE /\ fileRead' = fileRead
      BY <1>15, <3>2 DEF FinishVerify, Return
    <3>3. CASE (ret' <=> buffer = Image) /\ flash' = flash /\ failed' = failed
      BY <3>1, <3>3
    <3>4. QED
      BY <1>15, <3>2, <3>3 DEF FinishVerify, Return
  <2>3. QED
    BY <1>15, <2>1, <2>2 DEF FinishVerify, Return
<1>16. CASE SendPacket
  <2>1. addr \in CellNumbers /\ Image[addr] = addr /\ op = "write"
    BY <1>16 DEF SendPacket, Image
  <2>2. DataOK'
    <3>1. flash' = flash \/ flash' = [flash EXCEPT ![addr] = IF @ = Blank THEN addr ELSE Other]
      BY <1>16, <2>1 DEF SendPacket, SPI_SendPacket, PacketWord
    <3>2. addr' \in Nat /\ buffer' = buffer
      BY <1>16 DEF SendPacket, AfterPacket
    <3>3. flash' \in [CellNumbers -> Values]
      BY <2>1, <3>1
    <3>4. QED
      BY <3>2, <3>3
  <2>3. \/ pc' = "checkpoint" /\ addr' = addr
        \/ /\ pc' \in {"packet", "checkCommand", "done"} /\ addr' = addr + 1
           /\ pc' = "packet" <=> addr + 1 # Cells
    <3>1. (pc' = "checkpoint" /\ addr' = addr) \/ AfterPacket(addr)
      BY <1>16 DEF SendPacket
    <3>2. AfterPacket(addr) => /\ pc' \in {"packet", "checkCommand", "done"} /\ addr' = addr + 1
                               /\ pc' = "packet" <=> addr + 1 # Cells
      BY DEF AfterPacket
    <3>3. QED
      BY <3>1, <3>2
  <2>o. UNCHANGED <<op, fileRead, failed, taken, ret, file, finalCheck, fresh>>
    BY <1>16 DEF SendPacket
  <2>4. PlaceInv' /\ ReadInv' /\ AnswerInv'
    BY <1>16, <2>1, <2>3, <2>o DEF SendPacket
  <2>5. WriteInv'
    <3>1. ~lost' => ~lost /\ flash' = [flash EXCEPT ![addr] = IF @ = Blank THEN addr ELSE Other]
      BY <1>16, <2>1 DEF SendPacket, SPI_SendPacket, PacketWord
    <3>3. ASSUME fresh, ~lost'
          PROVE  (\A k \in CellNumbers : flash'[k] = IF k < addr + 1 THEN k ELSE Blank) /\ finalCheck
      <4>1. WrittenBelow(addr) /\ finalCheck
        BY <1>16, <2>1, <3>1, <3>3 DEF SendPacket
      <4>2. \A k \in CellNumbers : flash'[k] = IF k < addr + 1 THEN k ELSE Blank
        BY <2>1, <3>1, <3>3, <4>1
      <4>3. QED
        BY <4>1, <4>2
    <3>4. CASE pc' = "checkpoint" /\ addr' = addr
      BY <2>1, <2>o, <3>3, <3>4
    <3>5. CASE pc' = "packet" /\ addr' = addr + 1
      BY <2>1, <2>o, <3>3, <3>5
    <3>6. CASE pc' \in {"checkCommand", "done"} /\ addr' = addr + 1 /\ addr + 1 = Cells
      BY <2>1, <2>o, <3>3, <3>6
    <3>7. QED
      BY <2>3, <3>4, <3>5, <3>6
  <2>6. QED
    BY <2>2, <2>4, <2>5
<1>17. CASE PassCheckpoint
  BY <1>17 DEF PassCheckpoint, AfterPacket
<1>18. CASE SampleCommand
  <2>1. addr' \in CellNumbers /\ pc' = "checkByte" /\ pc = "checkCommand"
    BY <1>18 DEF SampleCommand
  <2>2. ~failed' => ~failed /\ taken'
    <3>1. PICK heard \in Heard : taken' = heard /\ failed' = (failed \/ ~heard)
      BY <1>18 DEF SampleCommand, SPI_SendCommand
    <3>2. heard \in BOOLEAN
      BY HeardIs
    <3>3. failed' = (failed \/ ~taken')
      BY <3>1, <3>2
    <3>4. QED
      BY <3>3
  <2>3. UNCHANGED <<op, buffer, flash, fresh, lost, finalCheck>> /\ ~fileRead'
    BY <1>18 DEF SampleCommand
  <2>4. QED
    BY <2>1, <2>2, <2>3
<1>19. CASE SampleWord
  <2>1. DataOK' /\ PlaceInv' /\ ReadInv' /\ AnswerInv'
    BY <1>19 DEF SampleWord
  <2>2. WriteInv'
    <3>1. addr \in CellNumbers /\ Image[addr] = addr
      BY <1>19 DEF SampleWord, Image
    <3>2. failed' \/ (~failed /\ finalCheck' = (finalCheck /\ flash[addr] = addr))
      BY <1>19, <3>1 DEF SampleWord, Answer
    <3>3. op' = op /\ fresh' = fresh /\ lost' = lost /\ flash' = flash /\ pc = "checkByte"
          /\ pc' \in {"done", "checkCommand"}
      BY <1>19 DEF SampleWord
    <3>4. WrittenBelow(Cells)' <=> WrittenBelow(Cells)
      BY <3>3
    <3>5. WrittenBelow(Cells) => flash[addr] = addr
      BY <3>1
    <3>6. QED
      BY <3>2, <3>3, <3>4, <3>5
  <2>3. QED
    BY <2>1, <2>2
<1>20. CASE WriteDone
  BY <1>20, SameWords DEF WriteDone, Return, Image
<1>21. CASE EraseMass
  BY <1>21 DEF EraseMass, Erased
<1>22. CASE Play \/ EraseOver
  BY <1>22 DEF Play, EraseOver, Return
<1>23. QED
  BY <1>2, <1>3, <1>4, <1>5, <1>6, <1>7, <1>8, <1>9, <1>10, <1>11, <1>12, <1>13, <1>14, <1>15,
     <1>16, <1>17, <1>18, <1>19, <1>20, <1>21, <1>22 DEF Next, Starting, Driver

(* The invariant holds in every reachable state.                           *)
LEMMA InvariantHolds == Spec => []IInv
<1>1. QED
  BY InitInvariant, StepInvariant, PTL DEF Spec

(* A dump has every word of the chip in its place and a verify answers     *)
(* what it is asked, when the chip listened, for every size of the flash   *)
(* and of a read.                                                          *)
THEOREM ReadTheorem == Spec => []ReadsAreRight
<1>1. IInv => ReadsAreRight
  BY DEF IInv, AnswerInv, ReadsAreRight
<1>2. QED
  BY <1>1, InvariantHolds, PTL

(* A write to an erased chip that lost no packet leaves the file in the    *)
(* chip, and no sample says otherwise.                                     *)
THEOREM WriteTheorem == Spec => []WriteLands
<1>1. IInv => WriteLands
  BY DEF IInv, AnswerInv, WriteLands
<1>2. QED
  BY <1>1, InvariantHolds, PTL

-------------------------------------------------------------------------------
(* The progress.                                                           *)

(* Only a transfer that has opened its file moves the progress, and it     *)
(* puts it back: the other exports find it at 0 and leave it there, unless *)
(* a verify without a file left it behind.                                 *)
ResetInv ==
  pc \in {"idle", "store", "file", "initWait", "closeHandle", "clearHandle", "erase", "eraseWait",
          "play"} /\ ~unreset => percentage = 0

(* The progress is 0 before the first call.                                *)
LEMMA InitProgress == Init => ResetInv
BY DEF Init, ResetInv

(* Every step keeps the progress where a call may begin.                   *)
LEMMA StepProgress == ResetInv /\ [Next]_vars => ResetInv'
<1> SUFFICES ASSUME ResetInv, [Next]_vars PROVE ResetInv'
  OBVIOUS
<1> USE DEF ResetInv
<1>1. CASE OpenFTDIByDescription \/ FTDI_AutoInitialize \/ PowerOff
  BY <1>1 DEF OpenFTDIByDescription, FTDI_AutoInitialize, PowerOff, history
<1>2. CASE ISD_INIT
  BY <1>2 DEF ISD_INIT, Start
<1>3. CASE StartTransfer
  BY <1>3 DEF StartTransfer, Start
<1>4. CASE StartCommand
  BY <1>4 DEF StartCommand, Start
<1>5. CASE PollAgain \/ StatusRead \/ CloseHandle \/ ClearHandle \/ OpenFile
  BY <1>5 DEF PollAgain, StatusRead, CloseHandle, ClearHandle, OpenFile, Return, history
<1>6. CASE EraseMass \/ Play \/ EraseOver
  BY <1>6 DEF EraseMass, Play, EraseOver, Return, history
<1>7. CASE SendCommand \/ ReadWord
  BY <1>7 DEF SendCommand, ReadWord
<1>8. CASE FinishDump \/ FinishVerify \/ WriteDone
  BY <1>8 DEF FinishDump, FinishVerify, WriteDone, Return
<1>9. CASE SendPacket \/ PassCheckpoint \/ SampleCommand \/ SampleWord
  BY <1>9 DEF SendPacket, PassCheckpoint, SampleCommand, SampleWord, AfterPacket
<1>10. CASE FTDI_DEINIT \/ SpiBegins \/ SpiEnds \/ ChipReady \/ UNCHANGED vars
  BY <1>10 DEF FTDI_DEINIT, DeinitTest, DeinitSelect, DeinitClose, DeinitClear,
               SpiBegins, SpiEnds, ChipReady, vars, history
<1>11. QED
  BY <1>1, <1>2, <1>3, <1>4, <1>5, <1>6, <1>7, <1>8, <1>9, <1>10 DEF Next, Starting, Driver

(* The progress of a finished call is back at 0, but for a verify without  *)
(* a file: no later call is taken to be further than it is.                *)
THEOREM ProgressTheorem == Spec => []ProgressReset
<1>1. ResetInv => ProgressReset
  BY DEF ResetInv, ProgressReset
<1>2. QED
  BY InitProgress, StepProgress, <1>1, PTL DEF Spec

-------------------------------------------------------------------------------
(* The types.                                                              *)

(* The share of a word in the flash is a percentage.                       *)
LEMMA Percentage ==
  ASSUME NEW a \in Nat, a <= Cells
  PROVE  (a * 100) \div Cells \in 0 .. 100
<1> DEFINE d == (a * 100) \div Cells
<1>1. Cells \in Nat \ {0} /\ a * 100 \in Nat
  BY IsdAssumption
<1>2. d \in Nat /\ Cells * d <= a * 100
  BY <1>1
<1> HIDE DEF d
<1>3. ASSUME d > 100 PROVE FALSE
  <2>1. PICK x \in Nat : d = 101 + x
    <3>1. d - 101 \in Nat /\ d = 101 + (d - 101)
      BY <1>2, <1>3
    <3>2. QED
      BY <3>1
  <2>2. Cells * d = 101 * Cells + Cells * x /\ Cells * x \in Nat
    BY <1>1, <2>1
  <2>3. a * 100 <= 100 * Cells
    BY <1>1
  <2>4. QED
    BY <1>1, <1>2, <2>2, <2>3
<1>4. QED
  BY <1>2, <1>3 DEF d

(* A multiple of the words of a read that is not 0 is at least those.      *)
LEMMA WholeReads ==
  ASSUME NEW a \in Nat \ {0}, a % CellsPerRead = 0
  PROVE  a >= CellsPerRead
BY IsdAssumption

(* The counters before their last step: a sample is taken only while some  *)
(* are left, and none before the last packet.                              *)
CountInv ==
  /\ pc \in {"file", "packet", "checkpoint"} => checks = 0
  /\ pc \in {"checkCommand", "checkByte"} => checks < Checks

(* The parts of the type invariant.                                        *)
PlaceOK ==
  /\ pc \in WaitPoints \cup {"idle", "store", "closeHandle", "clearHandle", "finish", "file",
                            "packet", "done"}
  /\ op \in {"none", "init", "dump", "verify", "write", "erase", "play"}
CountsOK ==
  /\ addr \in 0 .. Cells /\ polls \in 0 .. PollLimit /\ checks \in 0 .. Checks
  /\ percentage \in 0 .. 100
FlagsOK ==
  /\ g_ftHandle \in {"NULL", "open", "closed"} /\ found \in BOOLEAN
  /\ closing \in {"no", "select", "sleep", "clear"} /\ opened \in {"nobody", "isd", "spi"}
  /\ taken \in BOOLEAN /\ busy \in BOOLEAN /\ powered \in BOOLEAN
  /\ finalCheck \in BOOLEAN /\ ret \in BOOLEAN
  /\ failed \in BOOLEAN /\ lost \in BOOLEAN /\ fresh \in BOOLEAN
  /\ unreset \in BOOLEAN /\ fileRead \in BOOLEAN /\ orphaned \in BOOLEAN
  /\ ftHandle \in BOOLEAN /\ spi \in {"runs", "returned", "threw"}
FileOK == file \in [CellNumbers -> Values]

(* They are the type invariant, with what IInv has of the data.            *)
LEMMA TypeParts == TypeOK <=> PlaceOK /\ CountsOK /\ FlagsOK /\ FileOK
                              /\ buffer \in [CellNumbers -> Values] /\ flash \in [CellNumbers -> Values]
BY DEF TypeOK, PlaceOK, CountsOK, FlagsOK, FileOK

TypeInv == PlaceOK /\ CountsOK /\ FlagsOK /\ FileOK /\ CountInv

(* The values before the first call.                                       *)
LEMMA InitType == Init => TypeInv
<1> SUFFICES ASSUME Init PROVE TypeInv
  OBVIOUS
<1>1. PlaceOK /\ CountsOK /\ FileOK /\ CountInv
  BY IsdAssumption DEF Init, PlaceOK, CountsOK, FileOK, CountInv, NoFile
<1>2. FlagsOK
  BY Zenon DEF Init, FlagsOK
<1>3. QED
  BY <1>1, <1>2 DEF TypeInv

(* The steps that open or close the channel, but for those of ISD_INIT.    *)
Elsewhere == OpenFTDIByDescription \/ FTDI_AutoInitialize \/ FTDI_DEINIT \/ SpiBegins \/ SpiEnds

(* The places.                                                             *)
LEMMA StepPlace == PlaceOK /\ [Next]_vars => PlaceOK'
<1> SUFFICES ASSUME PlaceOK, [Next]_vars PROVE PlaceOK'
  OBVIOUS
<1> USE DEF PlaceOK, Return
<1>1. CASE Elsewhere \/ PowerOff \/ ChipReady \/ UNCHANGED vars
  BY <1>1 DEF Elsewhere, FTDI_DEINIT, OpenFTDIByDescription, FTDI_AutoInitialize, DeinitTest, DeinitSelect,
              DeinitClose, DeinitClear, SpiBegins, SpiEnds, PowerOff, ChipReady, vars, call
<1>2. CASE ISD_INIT \/ StartTransfer \/ StartCommand
  BY <1>2 DEF ISD_INIT, StartTransfer, StartCommand, Start
<1>3. CASE PollAgain \/ StatusRead \/ CloseHandle \/ ClearHandle \/ OpenFile \/ SendCommand \/ ReadWord
  BY <1>3 DEF PollAgain, StatusRead, CloseHandle, ClearHandle, OpenFile, SendCommand, ReadWord, call
<1>4. CASE FinishDump \/ FinishVerify \/ WriteDone \/ EraseMass \/ Play \/ EraseOver
  BY <1>4 DEF FinishDump, FinishVerify, WriteDone, EraseMass, Play, EraseOver, call
<1>5. CASE SendPacket \/ PassCheckpoint \/ SampleCommand \/ SampleWord
  BY <1>5 DEF SendPacket, PassCheckpoint, SampleCommand, SampleWord, AfterPacket
<1>6. QED
  BY <1>1, <1>2, <1>3, <1>4, <1>5 DEF Next, Starting, Driver, Elsewhere

(* The flags.                                                              *)
LEMMA StepFlags == FlagsOK /\ [Next]_vars => FlagsOK'
<1> SUFFICES ASSUME FlagsOK, [Next]_vars PROVE FlagsOK'
  OBVIOUS
<1> USE DEF FlagsOK, handle, call, check, chip, device, history
<1>1. CASE PowerOff
  BY <1>1 DEF PowerOff
<1>2. CASE PollAgain
  BY <1>2 DEF PollAgain
<1>3. CASE ReadWord
  BY <1>3 DEF ReadWord
<1>4. CASE SampleWord
  BY <1>4 DEF SampleWord
<1>5. CASE WriteDone
  BY <1>5 DEF WriteDone, Return
<1>6. CASE EraseMass
  BY <1>6 DEF EraseMass
<1>7. CASE Play
  BY <1>7 DEF Play, Return
<1>8. CASE EraseOver
  BY <1>8 DEF EraseOver, Return
<1>9. CASE UNCHANGED vars
  BY <1>9 DEF vars
<1>10. CASE OpenFTDIByDescription
  <2>1. found' \in BOOLEAN
    BY <1>10, Zenon DEF OpenFTDIByDescription
  <2>2. QED
    BY <1>10, <2>1 DEF OpenFTDIByDescription
<1>11. CASE FTDI_AutoInitialize
  <2>1. orphaned' \in BOOLEAN
    BY <1>11, Zenon DEF FTDI_AutoInitialize
  <2>2. found' \in BOOLEAN
    BY <1>11, Zenon DEF FTDI_AutoInitialize
  <2>3. QED
    BY <1>11, <2>1, <2>2 DEF FTDI_AutoInitialize
<1>12. CASE DeinitTest \/ DeinitClose
  BY <1>12 DEF DeinitTest, DeinitClose, FT_Close
<1>13. CASE DeinitSelect
  <2>1. taken' \in BOOLEAN
    BY <1>13, Zenon DEF DeinitSelect
  <2>2. QED
    BY <1>13, <2>1 DEF DeinitSelect
<1>14. CASE DeinitClear
  <2>1. orphaned' \in BOOLEAN
    BY <1>14, Zenon DEF DeinitClear
  <2>2. QED
    BY <1>14, <2>1 DEF DeinitClear
<1>15. CASE CloseHandle
  BY <1>15 DEF CloseHandle, FT_Close
<1>16. CASE ClearHandle
  <2>1. ret' \in BOOLEAN
    BY <1>16, Zenon DEF ClearHandle, Return
  <2>2. QED
    BY <1>16, <2>1 DEF ClearHandle, Return
<1>17. CASE SpiBegins
  <2>1. ftHandle' \in BOOLEAN
    BY <1>17, Zenon DEF SpiBegins, closeDevice
  <2>2. QED
    BY <1>17, <2>1 DEF SpiBegins, closeDevice
<1>18. CASE SpiEnds
  <2>1. ftHandle' \in BOOLEAN
    BY <1>18, Zenon DEF SpiEnds, closeDevice, LeaveOpen
  <2>2. QED
    BY <1>18, <2>1 DEF SpiEnds, closeDevice, LeaveOpen
<1>19. CASE ChipReady
  <2>1. busy' \in BOOLEAN
    BY <1>19, Zenon DEF ChipReady
  <2>2. QED
    BY <1>19, <2>1 DEF ChipReady
<1>20. CASE OpenFile
  <2>1. ret' \in BOOLEAN
    BY <1>20, Zenon DEF OpenFile, Return
  <2>2. QED
    BY <1>20, <2>1 DEF OpenFile, Return
<1>21. ASSUME NEW o, NEW place, Start(o, place)
       PROVE  /\ taken' \in BOOLEAN /\ finalCheck' \in BOOLEAN /\ fresh' \in BOOLEAN
              /\ failed' \in BOOLEAN /\ lost' \in BOOLEAN /\ fileRead' \in BOOLEAN
  <2>1. taken' \in BOOLEAN
    BY <1>21, Zenon DEF Start
  <2>2. finalCheck' \in BOOLEAN
    BY <1>21, Zenon DEF Start
  <2>3. fresh' \in BOOLEAN
    BY <1>21, Zenon DEF Start
  <2>4. failed' \in BOOLEAN
    BY <1>21, Zenon DEF Start
  <2>5. lost' \in BOOLEAN
    BY <1>21, Zenon DEF Start
  <2>6. fileRead' \in BOOLEAN
    BY <1>21, Zenon DEF Start
  <2>7. QED
    BY <2>1, <2>2, <2>3, <2>4, <2>5, <2>6
<1>22. CASE ISD_INIT
  BY <1>21, <1>22 DEF ISD_INIT, Start
<1>23. CASE StartTransfer \/ StartCommand
  BY <1>21, <1>23 DEF StartTransfer, StartCommand, Start
<1>24. CASE StatusRead
  <2>1. ret' \in BOOLEAN
    BY <1>24, Zenon DEF StatusRead, Return
  <2>2. QED
    BY <1>24, <2>1 DEF StatusRead, Return
<1>25. CASE SendCommand
  <2>1. taken' \in BOOLEAN
    BY <1>25, Zenon, HeardIs DEF SendCommand, SPI_SendCommand
  <2>2. QED
    BY <1>25, <2>1 DEF SendCommand, SPI_SendCommand
<1>26. CASE FinishDump
  <2>1. ret' \in BOOLEAN
    BY <1>26, Zenon DEF FinishDump, Return
  <2>2. unreset' \in BOOLEAN
    BY <1>26, Zenon DEF FinishDump, Return
  <2>3. QED
    BY <1>26, <2>1, <2>2 DEF FinishDump, Return
<1>27. CASE FinishVerify
  <2>1. ret' \in BOOLEAN
    BY <1>27, Zenon DEF FinishVerify, Return
  <2>2. unreset' \in BOOLEAN
    BY <1>27, Zenon DEF FinishVerify, Return
  <2>3. fileRead' \in BOOLEAN
    BY <1>27, Zenon DEF FinishVerify, Return
  <2>4. QED
    BY <1>27, <2>1, <2>2, <2>3 DEF FinishVerify, Return
<1>28. CASE SendPacket
  <2>1. lost' \in BOOLEAN
    BY <1>28, Zenon DEF SendPacket, SPI_SendPacket, AfterPacket
  <2>2. unreset' \in BOOLEAN
    BY <1>28, Zenon DEF SendPacket, SPI_SendPacket, AfterPacket
  <2>3. busy' \in BOOLEAN
    BY <1>28, Zenon DEF SendPacket, SPI_SendPacket
  <2>4. UNCHANGED <<handle, device, taken, finalCheck, ret, powered, failed, fresh, fileRead>>
    BY <1>28 DEF SendPacket
  <2>5. QED
    BY <2>1, <2>2, <2>3, <2>4
<1>29. CASE PassCheckpoint
  <2>1. unreset' \in BOOLEAN
    BY <1>29, Zenon DEF PassCheckpoint, AfterPacket
  <2>2. QED
    BY <1>29, <2>1 DEF PassCheckpoint, AfterPacket
<1>30. CASE SampleCommand
  <2>1. taken' \in BOOLEAN
    BY <1>30, Zenon, HeardIs DEF SampleCommand, SPI_SendCommand
  <2>2. QED
    BY <1>30, <2>1 DEF SampleCommand, SPI_SendCommand
<1>31. QED
  BY <1>1, <1>2, <1>3, <1>4, <1>5, <1>6, <1>7, <1>8, <1>9, <1>10, <1>11, <1>12, <1>13, <1>14,
     <1>15, <1>16, <1>17, <1>18, <1>19, <1>20, <1>22, <1>23, <1>24, <1>25, <1>26, <1>27, <1>28,
     <1>29, <1>30 DEF Next, Starting, Driver, FTDI_DEINIT

(* A file is what a dump has in its buffer.                                *)
LEMMA StepFile == DataOK /\ FileOK /\ [Next]_vars => FileOK'
<1> SUFFICES ASSUME DataOK, FileOK, [Next]_vars PROVE FileOK'
  OBVIOUS
<1> USE DEF DataOK, FileOK
<1>1. CASE Elsewhere \/ PowerOff \/ ChipReady \/ UNCHANGED vars
  BY <1>1 DEF Elsewhere, FTDI_DEINIT, OpenFTDIByDescription, FTDI_AutoInitialize, DeinitTest, DeinitSelect,
              DeinitClose, DeinitClear, SpiBegins, SpiEnds, PowerOff, ChipReady, vars
<1>2. CASE ISD_INIT \/ StartTransfer \/ StartCommand
  BY <1>2 DEF ISD_INIT, StartTransfer, StartCommand, Start, NoFile
<1>3. CASE PollAgain \/ StatusRead \/ CloseHandle \/ ClearHandle \/ OpenFile \/ SendCommand \/ ReadWord
  BY <1>3 DEF PollAgain, StatusRead, CloseHandle, ClearHandle, OpenFile, SendCommand, ReadWord
<1>4. CASE FinishDump \/ FinishVerify \/ WriteDone \/ EraseMass \/ Play \/ EraseOver
  BY <1>4 DEF FinishDump, FinishVerify, WriteDone, EraseMass, Play, EraseOver
<1>5. CASE SendPacket \/ PassCheckpoint \/ SampleCommand \/ SampleWord
  BY <1>5 DEF SendPacket, PassCheckpoint, SampleCommand, SampleWord
<1>6. QED
  BY <1>1, <1>2, <1>3, <1>4, <1>5 DEF Next, Starting, Driver, Elsewhere

(* The counters.                                                           *)
LEMMA StepCounts == PlaceInv /\ CountsOK /\ CountInv /\ [Next]_vars => CountsOK' /\ CountInv'
<1> SUFFICES ASSUME PlaceInv, CountsOK, CountInv, [Next]_vars PROVE CountsOK' /\ CountInv'
  OBVIOUS
<1> USE IsdAssumption DEF CountsOK, CountInv, Return, call, check
<1>1. CASE Elsewhere \/ PowerOff \/ ChipReady \/ UNCHANGED vars
  BY <1>1 DEF Elsewhere, FTDI_DEINIT, OpenFTDIByDescription, FTDI_AutoInitialize, DeinitTest, DeinitSelect,
              DeinitClose, DeinitClear, SpiBegins, SpiEnds, PowerOff, ChipReady, vars
<1>2. CASE ISD_INIT \/ StartTransfer \/ StartCommand
  <2>1. /\ addr' = 0 /\ polls' = 0 /\ checks' = 0 /\ percentage' = percentage
        /\ pc' \in {"initWait", "file", "erase", "play"}
    BY <1>2 DEF ISD_INIT, StartTransfer, StartCommand, Start
  <2>2. QED
    BY <2>1
<1>3. CASE PollAgain \/ StatusRead \/ CloseHandle \/ ClearHandle \/ OpenFile \/ SendCommand
  BY <1>3 DEF PollAgain, StatusRead, CloseHandle, ClearHandle, OpenFile, SendCommand
<1>4. CASE FinishDump \/ FinishVerify \/ WriteDone \/ EraseMass \/ Play \/ EraseOver
  BY <1>4 DEF FinishDump, FinishVerify, WriteDone, EraseMass, Play, EraseOver
<1>5. CASE ReadWord
  <2>1. addr \in Nat /\ addr < Cells /\ addr' = addr + 1 /\ polls' = 0 /\ checks' = checks
        /\ pc' \in {"byte", "command", "finish"}
    BY <1>5 DEF ReadWord, PlaceInv
  <2>2. percentage' \in 0 .. 100
    <3>1. CASE addr + 1 # Cells /\ (addr + 1) % CellsPerRead = 0
      <4>1. addr + 1 - CellsPerRead \in Nat /\ addr + 1 - CellsPerRead <= Cells
        BY <2>1, <3>1, WholeReads
      <4>2. percentage' = ((addr + 1 - CellsPerRead) * 100) \div Cells
        BY <1>5, <3>1 DEF ReadWord
      <4>3. QED
        BY <4>1, <4>2, Percentage
    <3>2. CASE ~(addr + 1 # Cells /\ (addr + 1) % CellsPerRead = 0)
      BY <1>5, <3>2 DEF ReadWord
    <3>3. QED
      BY <3>1, <3>2
  <2>3. QED
    BY <2>1, <2>2
<1>6. ASSUME AfterPacket(addr), checks' = checks, pc \in {"packet", "checkpoint"}
      PROVE  CountsOK' /\ CountInv'
  <2>1. addr < Cells /\ addr \in Nat /\ checks = 0
    BY <1>6 DEF PlaceInv
  <2>2. (addr * 100) \div Cells \in 0 .. 100
    BY <2>1, Percentage
  <2>3. QED
    BY <1>6, <2>1, <2>2 DEF AfterPacket
<1>7. CASE SendPacket
  <2>1. pc = "packet" /\ UNCHANGED check
    BY <1>7 DEF SendPacket
  <2>2. CASE addr % Checkpoint = 0
    BY <1>7, <2>1, <2>2 DEF SendPacket
  <2>3. CASE AfterPacket(addr)
    BY <1>6, <2>1, <2>3
  <2>4. QED
    BY <1>7, <2>2, <2>3 DEF SendPacket
<1>8. CASE PassCheckpoint
  BY <1>6, <1>8 DEF PassCheckpoint
<1>9. CASE SampleCommand
  BY <1>9 DEF SampleCommand
<1>10. CASE SampleWord
  <2>1. addr < Cells /\ addr \in Nat /\ checks < Checks
    BY <1>10 DEF SampleWord, PlaceInv
  <2>2. (addr * 100) \div Cells \in 0 .. 100
    BY <2>1, Percentage
  <2>3. QED
    BY <1>10, <2>1, <2>2 DEF SampleWord
<1>11. QED
  BY <1>1, <1>2, <1>3, <1>4, <1>5, <1>7, <1>8, <1>9, <1>10 DEF Next, Starting, Driver, Elsewhere

(* The type invariant: no word is taken from outside the flash or counted  *)
(* beyond it, and the progress is never more than 100 per cent.            *)
THEOREM TypeTheorem == Spec => []TypeOK
<1>1. IInv /\ TypeInv /\ [Next]_vars => TypeInv'
  BY StepPlace, StepFlags, StepFile, StepCounts DEF IInv, TypeInv
<1>2. IInv /\ TypeInv => TypeOK
  BY TypeParts DEF IInv, DataOK, TypeInv
<1>3. QED
  BY InitType, InvariantHolds, <1>1, <1>2, PTL DEF Spec

===============================================================================
