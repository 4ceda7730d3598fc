------------------------------- MODULE ImageWrite -------------------------------
(***************************************************************************)
(* spi() writing an image file (modes 3 and 4, Main.cpp) on one console    *)
(* after another: the configuration read from each decides the geometry    *)
(* (SfcGeometry), the file goes to a buffer page by page, mode 4 rewrites  *)
(* the spare of each page (SpareEcc), and FlashDataWrite puts it on the    *)
(* NAND.  Here a page is written in one step and always well; NandWrite    *)
(* has what may go wrong in one.                                           *)
(*                                                                         *)
(* Sfc and gNextBlock outlive a call, and a call may find what they were   *)
(* for another console.                                                    *)
(***************************************************************************)
EXTENDS SfcGeometry, SpareEcc

CONSTANTS
  NumPages,             \* pages of the NANDs
  Unit,                 \* pages in a block of the arguments, 32
  RawPage,              \* bytes of a page with its spare, 528
  MaxUnsigned,          \* unsigned numbers are less than this, 2^32
  Devices,              \* configuration words of the consoles
  Starts,               \* values of the argument startblock
  FilePage(_),          \* what page k of the file holds, a raw page
  FilePages,            \* sizes of the files, in pages; all are whole
  Ends                  \* values of block_flash_max

ASSUME ImageAssumption ==
  /\ NumPages \in Nat \ {0} /\ Unit \in Nat \ {0} /\ MaxUnsigned \in Nat \ {0}
  /\ RawPage \in Nat \ {0}
  /\ Devices \subseteq Configs
  /\ Starts \subseteq Nat /\ \A s \in Starts : s * Unit < MaxUnsigned
  /\ FilePages \subseteq Nat /\ Ends \subseteq 0 .. (MaxUnsigned - 1)
  /\ \A k \in 0 .. (MaxUnsigned - 1) : FilePage(k) \in [PageBits -> {0, 1}]

VARIABLES
  Sfc, gNextBlock,      \* globals
  \* the call: place, mode, configuration of the console, first page, limit
  \* of the range, pages of the file
  pc, mode, config, StartBlock, block_flash_max, file,
  End_Block, block_flash, ret,
  loaded,               \* pages that fread has put in the buffer
  nand                  \* what each page of the NAND holds

globals == <<Sfc, gNextBlock>>
args    == <<mode, config, StartBlock, block_flash_max, file>>
vars    == <<globals, pc, args, End_Block, block_flash, ret, loaded, nand>>

PageNumbers == 0 .. (NumPages - 1)

\* What a page that holds no raw page holds.
Old     == <<"old">>
Erased  == <<"erased">>
Garbled == <<"garbled">>

(* Page k of the buffer; what fread has not filled is what malloc found.   *)
BufferPage(k) == IF k < loaded THEN FilePage(k) ELSE Garbled

PatchECCEnable == mode = 4
LargePages     == Sfc.LargeBlock # 0

Minimum(a, b) == IF a < b THEN a ELSE b

Return(r) ==
  /\ pc' = "idle"
  /\ ret' = r

-------------------------------------------------------------------------------
(* A call with the console c attached, up to the answer of SFC_init.  A    *)
(* call in mode 0 ends there.  The NAND is as the console before left it,  *)
(* or is another one.  As in NandWrite, what a call that begins in the     *)
(* middle of an erase block pushes past the NAND is bounded.               *)
Begin(m, c, s, e, f) ==
  /\ pc = "idle"
  /\ mode' = m /\ config' = c /\ StartBlock' = s * Unit /\ block_flash_max' = e
  /\ file' = f
  /\ s * Unit % BlockSize(c) # 0 => gNextBlock <= NumPages
  /\ Sfc' \in SFC_init(c, Sfc)
  /\ IF ~Supported(c) THEN Return(-4)
     ELSE IF m = 0 THEN Return(0)
     ELSE pc' = "load" /\ UNCHANGED ret
  /\ End_Block' = 0 /\ block_flash' = 0 /\ loaded' = 0
  /\ nand' = [p \in PageNumbers |-> Old]
  /\ UNCHANGED gNextBlock

(* A console that cannot be opened or does not answer.                     *)
NotIdentified ==
  /\ pc = "idle"
  /\ \E r \in {-2, -3} : Return(r)
  /\ End_Block' = 0 /\ block_flash' = 0 /\ loaded' = 0
  /\ nand' = [p \in PageNumbers |-> Old]
  /\ UNCHANGED <<globals, args>>

(* What ftell makes of the size of a file when it goes into an int, taken  *)
(* for unsigned: of 2^31 bytes or more it is -1, or the low 32 bits where  *)
(* a long has more.                                                        *)
MaxInt == MaxUnsigned \div 2 - 1

ftell(bytes) == IF bytes <= MaxInt THEN {bytes} ELSE {MaxUnsigned - 1, bytes % MaxUnsigned}

(* malloc is given the product as an unsigned number.                      *)
BufferBytes == (block_flash_max * RawPage) % MaxUnsigned

EndOfFile(File_Blocks) == File_Blocks

EndOfBuffer(File_Blocks) == block_flash_max

EndOfRange(File_Blocks) == Minimum(block_flash_max, File_Blocks)

(* No such file, no memory, or the pages that fread puts in the buffer;    *)
(* the number of pages it is asked for is unsigned.  What a process that   *)
(* writes past its buffer does next may be anything; the model follows it  *)
(* no further.                                                             *)
Load ==
  /\ pc = "load"
  /\ \/ /\ \E r \in {-8, -9} : Return(r)
        /\ UNCHANGED <<End_Block, block_flash, loaded>>
     \/ \E File_Size \in ftell(file * RawPage) :
          LET end  == EndOfRange(File_Size \div RawPage)
              read == Minimum((end - StartBlock) % MaxUnsigned, file)
          IN  /\ pc' = IF read * RawPage <= BufferBytes THEN "write" ELSE "overrun"
              /\ End_Block' = end
              /\ loaded' = read
              /\ block_flash' = StartBlock
              /\ UNCHANGED ret
  /\ UNCHANGED <<globals, args, nand>>

(* The program is started again.                                           *)
Restart ==
  /\ pc = "overrun"
  /\ Return(-2)
  /\ Sfc' = NoSfc /\ gNextBlock' = 0
  /\ End_Block' = 0 /\ block_flash' = 0 /\ loaded' = 0
  /\ nand' = [p \in PageNumbers |-> Old]
  /\ UNCHANGED args

SlotFromZero == block_flash

(* addr_raw, in pages.                                                     *)
Slot == block_flash - StartBlock

Patched ==
  IF PatchECCEnable /\ BufferPage(Slot) # Garbled
  THEN fixSpare_ECC(BufferPage(Slot), block_flash \div Sfc.PageCountInBlock, LargePages)
  ELSE BufferPage(Slot)

(* FlashDataWrite: the first page of what Sfc says is an erase block has   *)
(* the NAND erase the erase block that page is in, and a page goes to      *)
(* where the last one left gNextBlock.                                     *)
WritePage ==
  /\ pc = "write"
  /\ block_flash < End_Block
  /\ LET first  == block_flash % Sfc.PageCountInBlock = 0
         target == IF first THEN block_flash ELSE gNextBlock
         erased == [p \in PageNumbers |->
                      IF first /\ p \div BlockSize(config) = block_flash \div BlockSize(config)
                      THEN Erased ELSE nand[p]]
     IN  /\ nand' = [p \in PageNumbers |->
                       IF p # target THEN erased[p]
                       ELSE IF erased[p] = Erased THEN Patched ELSE Garbled]
         /\ gNextBlock' = target + 1
  /\ block_flash' = block_flash + 1
  /\ UNCHANGED <<Sfc, pc, args, End_Block, ret, loaded>>

(* The range is done, or spiStop was called.                               *)
LoopEnds ==
  /\ pc = "write"
  /\ \/ block_flash >= End_Block /\ Return(0)
     \/ Return(-1)
  /\ UNCHANGED <<globals, args, End_Block, block_flash, loaded, nand>>

Init ==
  /\ Sfc = NoSfc /\ gNextBlock = 0
  /\ pc = "idle" /\ mode = 0 /\ config \in Devices /\ StartBlock = 0 /\ block_flash_max = 0
  /\ file = 0 /\ End_Block = 0 /\ block_flash = 0 /\ ret = -2
  /\ loaded = 0 /\ nand = [p \in PageNumbers |-> Old]

Next ==
  \/ \E c \in Devices :
       \/ Begin(0, c, 0, 0, 0)
       \/ \E m \in {3, 4}, s \in Starts, e \in Ends, f \in FilePages :
            Begin(m, c, s, e, f)
  \/ NotIdentified \/ Load \/ Restart \/ WritePage \/ LoopEnds

Spec == Init /\ [][Next]_vars

-------------------------------------------------------------------------------
(* Properties.                                                             *)

PageValues == [PageBits -> {0, 1}] \cup {Old, Erased, Garbled}

(* The values the variables take; no counter of pages goes negative, and   *)
(* gNextBlock no further past the NAND than a range is long.               *)
TypeOK ==
  /\ Sfc.LargeBlock \in {0, 2, 3} /\ Sfc.Initialized \in BOOLEAN
  /\ Sfc.BlockSize \in Nat /\ Sfc.PageCountInBlock \in Nat
  /\ \E e \in Ends \cup {0} : gNextBlock \in 0 .. (NumPages + e)
  /\ pc \in {"idle", "load", "write", "overrun"} /\ mode \in {0, 3, 4} /\ config \in Devices
  /\ block_flash \in 0 .. (MaxUnsigned - 1) /\ loaded \in 0 .. (MaxUnsigned - 1)
  /\ End_Block <= block_flash_max /\ ret \in {0, -1, -2, -3, -4, -8, -9}
  /\ \A p \in PageNumbers : nand[p] \in PageValues

(* A write works with the geometry of the console that is attached, as if  *)
(* it were the first one the program sees: nothing of a console before it, *)
(* nor of a call that failed to identify one, stays in what the write      *)
(* reads.  Of the rest of Sfc only what the shift of 0x1 left undefined    *)
(* may differ, and the one case that assigns no size of the data           *)
(* partition.                                                              *)
GeometryIsOwn ==
  pc \in {"load", "write"} =>
    \E fresh \in SFC_init(config, NoSfc) :
      /\ Sfc.PageCountInBlock = fresh.PageCountInBlock
      /\ Sfc.LargeBlock = fresh.LargeBlock
      /\ config.size # 0 => Sfc.PagesCountInNand = fresh.PagesCountInNand
      /\ Sfc.NandSize = fresh.NandSize

(* The size of the file is one that an int holds.                          *)
FileIsTold == file * RawPage <= MaxInt

(* The call writes, or has written, pages up to block_flash, began on an   *)
(* erase block and knows the size of its file.                             *)
Written == mode # 0 /\ StartBlock % BlockSize(config) = 0 /\ FileIsTold

(* The pages written so far hold the file, page k at startblock + k; in    *)
(* mode 3 to the last bit, in mode 4 but for the spare.  All other pages   *)
(* are untouched or, up to the end of the erase block, erased.  An answer  *)
(* of 0 means that the range was written to its end.                       *)
ImageInPlace ==
  Written =>
    /\ \A p \in PageNumbers :
         IF p \in StartBlock .. (block_flash - 1)
         THEN /\ nand[p] \notin {Old, Erased, Garbled}
              /\ \A i \in PageBits : i < DataBits \/ mode = 3 =>
                   nand[p][i] = FilePage(p - StartBlock)[i]
         ELSE nand[p] \in {Old, Erased}
    /\ \A p \in PageNumbers : nand[p] = Old <=>
         \/ p < StartBlock \/ block_flash <= StartBlock
         \/ p \div BlockSize(config) > (block_flash - 1) \div BlockSize(config)
    /\ pc = "idle" /\ ret = 0 => block_flash >= Minimum(block_flash_max, file)

(* A page patched in mode 4 is one a reader of this console accepts, where *)
(* it lies: its code is right for all its bits, the spare names the erase  *)
(* block the page is in and says that the block is good, each where a NAND *)
(* of this kind has it, and the bytes nobody owns are the file's.          *)
PatchedPagesFit ==
  Written /\ PatchECCEnable =>
    \A p \in PageNumbers \cap (StartBlock .. (block_flash - 1)) :
      /\ IsCodeWord(nand[p])
      /\ BlockNumber(nand[p], Large(config)) = (p \div BlockSize(config)) % 4
      /\ nand[p][Spare(GoodByte(Large(config)))] = 1
      /\ nand[p][Spare(FreeByte)] = FilePage(p - StartBlock)[Spare(FreeByte)]

(* fread writes past the buffer only if block_flash_max * 528 was more     *)
(* than malloc can be asked for in 32 bits, if the file has 2^31 bytes or  *)
(* more, or if startblock is past the limit: for every other call it       *)
(* stays within, even when the number of pages wraps.  And of a file whose *)
(* size is known the loop takes no page that fread did not fill.           *)
BufferHoldsImage ==
  /\ pc = "overrun" =>
       \/ block_flash_max * RawPage >= MaxUnsigned
       \/ ~FileIsTold
       \/ StartBlock > block_flash_max
  /\ pc = "write" /\ FileIsTold /\ StartBlock < End_Block => End_Block - StartBlock <= loaded

===============================================================================
