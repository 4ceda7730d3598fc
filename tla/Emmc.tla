---------------------------------- MODULE Emmc ----------------------------------
(***************************************************************************)
(* The exported emmc_read() and emmc_write() (Main.cpp) and the card       *)
(* commands they issue through the SD host controller (XeMMC.cpp).         *)
(*                                                                         *)
(* The driver keeps two flags between blocks and between calls,            *)
(* is_selected and is_block_set, and knows the card only by the interrupt  *)
(* bits of register 0x30, which it clears with every command and polls a   *)
(* bounded number of times.  Controller and card are external: they answer *)
(* late or never, and go on working after the driver has given up.         *)
(***************************************************************************)
EXTENDS Integers, FiniteSets, Sequences

CONSTANTS
  CardBlocks,           \* blocks of the card
  Starts,               \* values of the argument startblock
  Lengths,              \* values of the argument length of emmc_read
  FileSizes,            \* <<whole blocks, is there a partial one?>> of a file
  PollLimit,            \* polls of xbox_emmc_wait_ints, 5000
  BlockSize,            \* bytes of a block, 512
  Addressable           \* blocks a 32-bit byte address can tell apart, 2^23

\* 2^32, where 32-bit arithmetic wraps.
Wrap == Addressable * BlockSize

ASSUME EmmcAssumption ==
  /\ CardBlocks \in Nat \ {0} /\ PollLimit \in Nat \ {0}
  /\ BlockSize \in Nat \ {0} /\ Addressable \in Nat \ {0}
  /\ Starts \subseteq 0 .. (Wrap - 1) /\ Lengths \subseteq Int
  /\ FileSizes \subseteq Nat \X BOOLEAN

VARIABLES
  \* globals that outlive a call
  is_selected, is_block_set, eMMCblocks, ftHandle,
  \* the running call: place, which one, range, block index, polls, what it
  \* holds; and what the last call returned
  pc, op, StartBlock, BlockCount, partial, i, polls, held, ret,
  buffer, file,         \* the block in hand, the blocks written to the file
  \* the controller and the card: is the controller's reset over, which
  \* interrupt bits are set, the command in work with its argument and the
  \* block sent for it, what each block holds
  ready, ints, card, mem,
  confirmed             \* history: commands the card answered since emmc_init

flags   == <<is_selected, is_block_set>>
call    == <<op, StartBlock, BlockCount, partial>>
owned   == <<ftHandle, held>>
data    == <<buffer, file>>
hw      == <<ready, ints, card, mem>>
vars    == <<flags, eMMCblocks, owned, pc, call, i, polls, ret, data, hw, confirmed>>

Threw     == 1
NotCalled == 2
Codes     == {0, -2, -8, -9, -20, -21, -30, Threw, NotCalled}

\* The interrupt bits 0x01, 0x02, 0x10 and 0x20.
Bits == {"response", "complete", "writeReady", "readReady"}

\* What a block of the card holds before the call; block k of the file is k.
OldBlock == -1
NoBlock  == -2

NoCommand == [cmd |-> "none", arg |-> 0, accepted |-> FALSE, block |-> NoBlock]

-------------------------------------------------------------------------------
(* The controller and the card.                                            *)

ExecuteUncleared(c, arg) ==
  /\ ints' = ints
  /\ card' = [NoCommand EXCEPT !.cmd = c, !.arg = arg]
  /\ polls' = 0

(* Writing 0x30, 0x04, 0x08 and 0x0C: the interrupt bits are cleared and   *)
(* the command replaces whatever was in work.                              *)
Execute(c, arg) ==
  /\ ints' = {}
  /\ card' = [NoCommand EXCEPT !.cmd = c, !.arg = arg]
  /\ polls' = 0

ResetDone ==
  /\ ~ready
  /\ ready' = TRUE
  /\ UNCHANGED <<flags, eMMCblocks, owned, pc, call, i, polls, ret, data, ints, card, mem, confirmed>>

(* The block at the byte address a read or a write was sent with.          *)
BlockAt(arg) == arg \div BlockSize

(* The card answers a command; a block past its end it never answers for.  *)
Accept ==
  /\ card.cmd # "none" /\ ~card.accepted
  /\ card.cmd \in {"read", "write"} => BlockAt(card.arg) < CardBlocks
  /\ card' = [card EXCEPT !.accepted = TRUE]
  /\ ints' = ints \cup CASE card.cmd = "read"  -> {"response", "readReady"}
                         [] card.cmd = "write" -> {"response", "writeReady"}
                         [] OTHER              -> {"response"}
  /\ UNCHANGED <<flags, eMMCblocks, owned, pc, call, i, polls, ret, data, ready, mem, confirmed>>

(* The block of a write is in the card.                                    *)
Store ==
  /\ card.cmd = "write" /\ card.block # NoBlock
  /\ mem' = [mem EXCEPT ![BlockAt(card.arg)] = card.block]
  /\ card' = NoCommand
  /\ ints' = ints \cup {"complete"}
  /\ UNCHANGED <<flags, eMMCblocks, owned, pc, call, i, polls, ret, data, ready, confirmed>>

Device == ResetDone \/ Accept \/ Store

-------------------------------------------------------------------------------
(* The calls.                                                              *)

ReturnHolding(r, leaked) ==
  /\ pc' = "idle"
  /\ ret' = r
  /\ ftHandle' = FALSE
  /\ held' = held

Return(r, leaked) ==
  /\ pc' = "idle"
  /\ ret' = r
  /\ ftHandle' = FALSE
  /\ held' = leaked

(* What an earlier call has in the card, or has stored there, is old.      *)
Begin(o, s, n, p) ==
  /\ pc = "idle"
  /\ pc' = "open"
  /\ op' = o
  /\ StartBlock' = s
  /\ BlockCount' = n
  /\ partial' = p
  /\ i' = 0
  /\ held' = IF o = "write" THEN {"buffer"} ELSE {}
  /\ buffer' = OldBlock
  /\ file' = <<>>
  /\ mem' = [lba \in 0 .. (CardBlocks - 1) |-> OldBlock]
  /\ card' = IF card.block = NoBlock THEN card ELSE [card EXCEPT !.block = OldBlock]
  /\ UNCHANGED <<flags, eMMCblocks, ftHandle, polls, ret, ready, ints, confirmed>>

(* A length of 0 or less asks for (length - startblock) mod 2^32 blocks.   *)
CallRead(s, n) ==
  Begin("read", s, IF n > 0 THEN n ELSE (n - s) % Wrap, FALSE)

CallWrite(s, size) ==
  Begin("write", s, size[1] + IF size[2] THEN 1 ELSE 0, size[2])

(* spi_init and FlashDataInit.  emmc_write has its buffer by now, and      *)
(* loses it when spi_init fails.                                           *)
Open ==
  /\ pc = "open"
  /\ \/ /\ pc' = "init"
        /\ ftHandle' = TRUE
        /\ UNCHANGED <<held, ret>>
     \/ Return(-2, held)
  /\ UNCHANGED <<flags, eMMCblocks, call, i, polls, data, hw, confirmed>>

(* emmc_init sets bit 24 of register 0x2C ...                              *)
InitReset ==
  /\ pc = "init"
  /\ pc' = "initWait"
  /\ ready' = FALSE
  /\ ints' = {}
  /\ card' = NoCommand
  /\ UNCHANGED <<flags, eMMCblocks, owned, call, i, polls, ret, data, mem, confirmed>>

InitKeepsFlags ==
  /\ pc = "initWait"
  /\ ready
  /\ pc' = "files"
  /\ confirmed' = {}
  /\ UNCHANGED <<flags, eMMCblocks, owned, call, i, polls, ret, data, hw>>

(* ... and polls bit 24 of 0x3C; its counter t never moves.                *)
InitDone ==
  /\ pc = "initWait"
  /\ ready
  /\ pc' = "files"
  /\ is_selected' = FALSE
  /\ is_block_set' = FALSE
  /\ confirmed' = {}
  /\ UNCHANGED <<eMMCblocks, owned, call, i, polls, ret, data, hw>>

OpenFiles ==
  /\ pc = "files"
  /\ \/ /\ \E r \in IF op = "write" THEN {-9, -8, -30} ELSE {-9, -8} : Return(r, {})
     \/ /\ pc' = "block"
        /\ held' = {"buffer", "file"}
        /\ UNCHANGED <<ftHandle, ret>>
  /\ UNCHANGED <<flags, eMMCblocks, call, i, polls, data, hw, confirmed>>

AllDone ==
  /\ pc = "block"
  /\ i = BlockCount
  /\ Return(0, {})
  /\ UNCHANGED <<flags, eMMCblocks, call, i, polls, data, hw, confirmed>>

(* The next block: emmc_write first reads it from the file, and gives up   *)
(* when fread fails, as it does on one that is not whole.                  *)
NextBlock ==
  /\ pc = "block"
  /\ i < BlockCount
  /\ \/ /\ op = "write"
        /\ Return(-21, {})
        /\ UNCHANGED <<eMMCblocks, buffer>>
     \/ /\ ~(op = "write" /\ partial /\ i = BlockCount - 1)
        /\ pc' = "select"
        /\ eMMCblocks' = (StartBlock + i) % Wrap
        /\ buffer' = IF op = "write" THEN i ELSE buffer
        /\ UNCHANGED <<owned, ret>>
  /\ UNCHANGED <<flags, call, i, polls, file, hw, confirmed>>

SelectCard ==
  /\ pc = "select"
  /\ IF is_selected
     THEN /\ pc' = "blocklen"
          /\ UNCHANGED <<flags, polls, ints, card>>
     ELSE /\ pc' = "selectWait"
          /\ Execute("select", 0)
          /\ is_selected' = TRUE
          /\ is_block_set' = FALSE
  /\ UNCHANGED <<eMMCblocks, owned, call, i, ret, data, ready, mem, confirmed>>

SetBlocklen ==
  /\ pc = "blocklen"
  /\ IF is_block_set
     THEN /\ pc' = "data"
          /\ UNCHANGED <<flags, polls, ints, card>>
     ELSE /\ pc' = "blocklenWait"
          /\ Execute("blocklen", 0)
          /\ is_block_set' = TRUE
          /\ UNCHANGED is_selected
  /\ UNCHANGED <<eMMCblocks, owned, call, i, ret, data, ready, mem, confirmed>>

(* lba << 9: from block 2^23 on the byte address starts over at 0.         *)
Address(lba) == (lba * BlockSize) % Wrap

DataCommandPastIt ==
  /\ pc = "data"
  /\ pc' = IF op = "read" THEN "readWait" ELSE "commandWait"
  /\ Execute(op, Address((StartBlock + i + 1) % Wrap))
  /\ UNCHANGED <<flags, eMMCblocks, owned, call, i, ret, data, ready, mem, confirmed>>

DataCommand ==
  /\ pc = "data"
  /\ pc' = IF op = "read" THEN "readWait" ELSE "commandWait"
  /\ Execute(op, Address((StartBlock + i) % Wrap))
  /\ UNCHANGED <<flags, eMMCblocks, owned, call, i, ret, data, ready, mem, confirmed>>

Waits == {"selectWait", "blocklenWait", "readWait", "commandWait", "writeWait", "deselectWait"}

WantReadyOnly == IF pc = "writeWait" THEN {"writeReady"} ELSE {"response"}

(* The bits each wait asks for, all of them at once.                       *)
Want == CASE pc = "readWait"  -> {"response", "readReady"}
          [] pc = "writeWait" -> {"complete", "writeReady"}
          [] OTHER            -> {"response"}

PollAgain ==
  /\ pc \in Waits
  /\ ~(Want \subseteq ints)
  /\ polls < PollLimit
  /\ polls' = polls + 1
  /\ UNCHANGED <<flags, eMMCblocks, owned, pc, call, i, ret, data, hw, confirmed>>

Answered ==
  /\ pc \in {"selectWait", "blocklenWait"}
  /\ Want \subseteq ints
  /\ polls < PollLimit
  /\ pc' = IF pc = "selectWait" THEN "blocklen" ELSE "data"
  /\ confirmed' = confirmed \cup {IF pc = "selectWait" THEN "select" ELSE "blocklen"}
  /\ UNCHANGED <<flags, eMMCblocks, owned, call, i, polls, ret, data, hw>>

(* What is read is the block of the command once the card has answered it. *)
ReadArrived ==
  /\ pc = "readWait"
  /\ Want \subseteq ints
  /\ polls < PollLimit
  /\ pc' = "save"
  /\ buffer' = IF card.accepted THEN BlockAt(card.arg) ELSE buffer
  /\ UNCHANGED <<flags, eMMCblocks, owned, call, i, polls, ret, file, hw, confirmed>>

(* The file takes the block, or takes only part of it.                     *)
SaveBlock ==
  /\ pc = "save"
  /\ \/ /\ pc' = "block"
        /\ file' = Append(file, buffer)
        /\ i' = i + 1
        /\ UNCHANGED <<owned, ret>>
     \/ /\ Return(-21, {})
        /\ UNCHANGED <<file, i>>
  /\ UNCHANGED <<flags, eMMCblocks, call, polls, buffer, hw, confirmed>>

(* xbox_emmc_write_block goes on whatever the wait for the response said.  *)
(* The words reach the card only if it has taken the command.              *)
SendBlock ==
  /\ pc = "commandWait"
  /\ Want \subseteq ints \/ polls = PollLimit
  /\ pc' = "writeWait"
  /\ polls' = 0
  /\ card' = IF card.accepted THEN [card EXCEPT !.block = buffer] ELSE card
  /\ UNCHANGED <<flags, eMMCblocks, owned, call, i, ret, data, ready, ints, mem, confirmed>>

BlockWritten ==
  /\ pc = "writeWait"
  /\ Want \subseteq ints
  /\ polls < PollLimit
  /\ pc' = "block"
  /\ i' = i + 1
  /\ UNCHANGED <<flags, eMMCblocks, owned, call, polls, ret, data, hw, confirmed>>

GiveUpNotOnData ==
  /\ \/ pc \in {"selectWait", "blocklenWait", "readWait"} /\ polls = PollLimit
     \/ pc = "deselectWait" /\ (polls = PollLimit \/ Want \subseteq ints)
  /\ Return(-20, {})
  /\ UNCHANGED <<flags, eMMCblocks, call, i, polls, data, hw, confirmed>>

(* A read whose block length was not answered takes the card's selection   *)
(* back, but not the flag that says it is selected.                        *)
Deselect ==
  /\ pc = "blocklenWait" /\ op = "read"
  /\ polls = PollLimit
  /\ pc' = "deselectWait"
  /\ Execute("deselect", 0)
  /\ UNCHANGED <<flags, eMMCblocks, owned, call, i, ret, data, ready, mem, confirmed>>

GiveUp ==
  /\ \/ pc \in {"selectWait", "readWait", "writeWait"} /\ polls = PollLimit
     \/ pc = "blocklenWait" /\ op = "write" /\ polls = PollLimit
     \/ pc = "deselectWait" /\ (polls = PollLimit \/ Want \subseteq ints)
  /\ Return(-20, {})
  /\ UNCHANGED <<flags, eMMCblocks, call, i, polls, data, hw, confirmed>>

(* A register read throws out of the call.                                 *)
Lost ==
  /\ pc \in Waits \cup {"init", "initWait"}
  /\ pc' = "idle"
  /\ ret' = Threw
  /\ UNCHANGED <<flags, eMMCblocks, owned, call, i, polls, data, hw, confirmed>>

Driver ==
  \/ Open \/ InitReset \/ InitDone \/ OpenFiles \/ AllDone \/ NextBlock
  \/ SelectCard \/ SetBlocklen \/ DataCommand \/ PollAgain \/ Answered
  \/ ReadArrived \/ SaveBlock \/ SendBlock \/ BlockWritten \/ Deselect \/ GiveUp

Starting ==
  \/ \E s \in Starts, n \in Lengths : CallRead(s, n)
  \/ \E s \in Starts, size \in FileSizes : CallWrite(s, size)

Init ==
  /\ is_selected = FALSE /\ is_block_set = FALSE /\ eMMCblocks = 0 /\ ftHandle = FALSE
  /\ pc = "idle" /\ op = "read" /\ StartBlock = 0 /\ BlockCount = 0 /\ partial = FALSE
  /\ i = 0 /\ polls = 0 /\ held = {} /\ ret = NotCalled
  /\ buffer = OldBlock /\ file = <<>>
  /\ ready = FALSE /\ ints = {} /\ card = NoCommand
  /\ mem = [lba \in 0 .. (CardBlocks - 1) |-> OldBlock]
  /\ confirmed = {}

Next == Starting \/ Driver \/ Lost \/ Device

Spec == Init /\ [][Next]_vars

(* The worker is scheduled; nothing makes the controller or the card       *)
(* answer.                                                                 *)
FairSpec == Spec /\ WF_vars(Driver)

-------------------------------------------------------------------------------
(* Properties.                                                             *)

Returned == pc = "idle" /\ ret # NotCalled

(* A block is read or written only after the card itself answered, since   *)
(* the controller's last reset, that it is selected and knows the length   *)
(* of a block: the flags is_selected and is_block_set, set before the      *)
(* answer and kept from call to call, never let a command skip that.       *)
DataAfterSetup ==
  pc \in {"data", "readWait", "save", "commandWait", "writeWait"} =>
    confirmed = {"select", "blocklen"}

(* The file of a read is the blocks of the card from startblock on, none   *)
(* twice, none left out, none taken for another; all of them when the call *)
(* answers 0.  From block 2^23 on, which a byte address of 32 bits cannot  *)
(* tell from block 0, it is the blocks from the start of the card again.   *)
ReadIsExact ==
  op = "read" =>
    /\ \A k \in DOMAIN file : file[k] = (StartBlock + k - 1) % Addressable
    /\ Returned /\ ret = 0 => Len(file) = BlockCount

(* A write that goes on to its next block, or answers 0 or -21, has put    *)
(* every whole block before the one it stopped at in its place, although   *)
(* the answer to the command itself is not looked at; and nothing but      *)
(* block k of the file ever gets to block startblock + k of the card, not  *)
(* even when the card is late for a driver that has given up.  From block  *)
(* 2^23 on the places are those from the start of the card again, so that  *)
(* of more blocks than that the last ones are there.                       *)
WriteIsExact ==
  /\ op = "write" /\ (pc = "block" \/ (Returned /\ ret \in {0, -21})) =>
       /\ \A k \in 0 .. (i - 1) :
            i - k <= Addressable => mem[(StartBlock + k) % Addressable] = k
       /\ Returned /\ ret = 0 => i = BlockCount
  /\ \A lba \in DOMAIN mem :
       mem[lba] # OldBlock => op = "write" /\ lba = (StartBlock + mem[lba]) % Addressable

(* However a call returns, the device is closed, the file too, and the     *)
(* buffer freed but for an emmc_write that could not open the device.      *)
ReleasedOnReturn ==
  Returned /\ ret # Threw =>
    /\ ~ftHandle
    /\ held # {} => op = "write" /\ ret = -2 /\ held = {"buffer"}

(* A call whose controller comes out of its reset comes to an end, however *)
(* the card behaves after that.                                            *)
CallEnds == (pc = "initWait" ~> ready) => (pc # "idle" ~> pc = "idle")

(* What Main.cpp says of a controller that does not come out of its reset: *)
(* "EMMC INIT FAILED" is answered after init_timeout polls.                *)
InitTimesOut == pc = "initWait" ~> pc # "initWait"

===============================================================================
