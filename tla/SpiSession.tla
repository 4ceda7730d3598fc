------------------------------ MODULE SpiSession ------------------------------
(***************************************************************************)
(* The exported NAND entry points of the DLL (Main.cpp): one worker thread *)
(* of the GUI runs spi(), other threads of the GUI call spiStop() and      *)
(* spiGetBlocks() whenever they like.  The calls share three unlocked      *)
(* globals: block_flash, start_spi and stop.  Every read or write of one   *)
(* of them is an action of its own; what the worker does between two such  *)
(* accesses touches only its own state and is folded into one action.      *)
(*                                                                         *)
(* A page operation (erase, program, read) is atomic here: it finishes, or *)
(* the exception of GetDataFromDevice leaves spi() through it.             *)
(***************************************************************************)
EXTENDS Integers, FiniteSets

CONSTANTS
  UIThreads,            \* threads that call spiStop and spiGetBlocks
  Starts,               \* values of the argument startblock
  Lengths,              \* values of the argument length
  Sizes,                \* values of the argument size
  FilePages,            \* sizes, in pages, of the file of a write
  PageCounts,           \* values SFC_init can give Sfc.PageCountInBlock
  Unit,                 \* pages in a block of startblock, 32 in the code
  PagesPerMB,           \* pages in a unit of size, 2048 in the code
  NAND_READ_BATCH_PAGES \* pages of a batched read, 32 in the code

ASSUME ConstantsAssumption ==
  /\ Starts \subseteq Nat /\ Lengths \subseteq Int /\ Sizes \subseteq Nat
  /\ FilePages \subseteq Nat
  /\ PageCounts \subseteq Nat \ {0}
  /\ Unit \in Nat \ {0} /\ PagesPerMB \in Nat \ {0}
  /\ NAND_READ_BATCH_PAGES \in Nat \ {0}

VARIABLES
  \* the globals the threads share
  block_flash, start_spi, stop,
  \* the worker: where it is in spi(), its arguments and locals
  pc, mode, StartBlock, block_flash_max, End_Block, step, saved,
  \* what it holds: the FTDI handle, and the file and the malloc'ed buffer
  ftHandle, held,
  \* what the last finished spi() returned
  ret,
  \* where each GUI thread is in spiStop or spiGetBlocks
  ui,
  \* can the file system take no more data?
  diskFull,
  \* history, read by the properties only
  todo, worked, asked, stale, polled

shared  == <<block_flash, start_spi, stop>>
job     == <<mode, StartBlock, block_flash_max>>
loop    == <<End_Block, step, saved>>
owned   == <<ftHandle, held>>
ledger  == <<todo, worked, asked>>
uiState == <<ui, stale, polled>>
vars    == <<shared, pc, job, loop, owned, ret, ui, diskFull, ledger, stale, polled>>

NoMode   == 6           \* any mode spi() has no branch for
Modes    == 0 .. NoMode
ReadModes  == {1, 2}
WriteModes == {3, 4}
Erase      == 5
ConfigOnly == 0

Threw     == 1          \* not a value: the call was left by an exception
NotCalled == 2          \* not a value: there was no call yet
Codes     == {0, -1, -2, -3, -4, -8, -9, -10, -11, Threw, NotCalled}
Jobs      == ReadModes \cup WriteModes \cup {Erase}

Minimum(a, b) == IF a < b THEN a ELSE b

-------------------------------------------------------------------------------
(* The worker thread.                                                      *)

ReturnStillOpen(r, leaked) ==
  /\ pc' = "idle"
  /\ ret' = r
  /\ ftHandle' = ftHandle
  /\ held' = leaked

(* Ends the call with code r: every exit path but the exception closes the *)
(* device.                                                                 *)
Return(r, leaked) ==
  /\ pc' = "idle"
  /\ ret' = r
  /\ ftHandle' = FALSE
  /\ held' = leaked

(* GetDataFromDevice throws and nothing on the way out of spi() catches.   *)
Throw ==
  /\ pc' = "idle"
  /\ ret' = Threw
  /\ UNCHANGED owned

LimitAnyLength(s, n, sz) == s * Unit + n * Unit

(* The page the call stops before: from the length, else from the size.    *)
Limit(s, n, sz) == IF n > 0 THEN s * Unit + n * Unit ELSE PagesPerMB * sz

Call(m, s, n, sz) ==
  /\ pc = "idle"
  /\ pc' = "resetBlock"
  /\ mode' = m
  /\ StartBlock' = s * Unit
  /\ block_flash_max' = Limit(s, n, sz)
  /\ start_spi' = FALSE
  /\ held' = {}
  /\ saved' = 0
  /\ todo' = {}
  /\ worked' = {}
  /\ asked' = FALSE
  /\ stale' = {u \in UIThreads : ui[u] # "idle"}
  /\ polled' = [u \in UIThreads |-> -1]
  /\ UNCHANGED <<block_flash, stop, End_Block, step, ftHandle, ret, ui, diskFull>>

KeepBlock ==
  /\ pc = "resetBlock"
  /\ pc' = "resetStop"
  /\ UNCHANGED <<shared, job, loop, owned, ret, diskFull, ledger, uiState>>

ResetBlock ==
  /\ pc = "resetBlock"
  /\ pc' = "resetStop"
  /\ block_flash' = 0
  /\ UNCHANGED <<start_spi, stop, job, loop, owned, ret, diskFull, ledger, uiState>>

ResetStop ==
  /\ pc = "resetStop"
  /\ pc' = "init"
  /\ stop' = FALSE
  /\ UNCHANGED <<block_flash, start_spi, job, loop, owned, ret, diskFull, ledger, uiState>>

(* spi_init fails, with or without having opened the device, or succeeds.  *)
(* A device a lost call left open is either found in use or opened again.  *)
InitDevice ==
  /\ pc = "init"
  /\ \/ /\ pc' = "identify"
        /\ ftHandle' = TRUE
        /\ UNCHANGED <<held, ret>>
     \/ Return(-2, {})
  /\ UNCHANGED <<shared, job, loop, diskFull, ledger, uiState>>

(* FlashDataInit and SFC_init, then the branch on the mode.                *)
Identify ==
  /\ pc = "identify"
  /\ \/ /\ Throw
        /\ UNCHANGED <<loop, todo>>
     \/ /\ \E r \in {-3, -4} : Return(r, {})
        /\ UNCHANGED <<loop, todo>>
     \/ /\ mode \in {ConfigOnly, NoMode}
        /\ Return(IF mode = ConfigOnly THEN 0 ELSE -10, {})
        /\ UNCHANGED <<loop, todo>>
     \/ /\ mode \in ReadModes \cup WriteModes
        /\ pc' = "openFile"
        /\ UNCHANGED <<loop, owned, ret, todo>>
     \/ /\ mode = Erase
        /\ pc' = "start"
        /\ End_Block' = block_flash_max
        /\ step' \in PageCounts
        /\ todo' = StartBlock .. (block_flash_max - 1)
        /\ UNCHANGED <<saved, owned, ret>>
  /\ UNCHANGED <<shared, job, diskFull, worked, asked, uiState>>

(* The buffer is sized by block_flash_max; the range also by the file.     *)
OpenForWrite ==
  /\ pc = "openFile"
  /\ mode \in WriteModes
  /\ \/ /\ Return(-8, {})
        /\ UNCHANGED <<loop, todo>>
     \/ /\ Return(-9, {"file"})
        /\ UNCHANGED <<loop, todo>>
     \/ \E File_Blocks \in FilePages :
          /\ pc' = "start"
          /\ held' = {"file", "buffer"}
          /\ End_Block' = Minimum(block_flash_max, File_Blocks)
          /\ step' = 1
          /\ todo' = StartBlock .. (Minimum(block_flash_max, File_Blocks) - 1)
          /\ UNCHANGED <<saved, ftHandle, ret>>
  /\ UNCHANGED <<shared, job, diskFull, worked, asked, uiState>>

(* The output file must take one probe byte before the device is read.     *)
OpenForRead ==
  /\ pc = "openFile"
  /\ mode \in ReadModes
  /\ \/ /\ \/ Return(-8, {})
           \/ Return(-9, {"file"})
           \/ Return(-11, {"file", "buffer"})
        /\ UNCHANGED <<loop, todo>>
     \/ /\ pc' = "start"
        /\ held' = {"file", "buffer"}
        /\ End_Block' = block_flash_max
        /\ step' = NAND_READ_BATCH_PAGES
        /\ todo' = StartBlock .. (block_flash_max - 1)
        /\ UNCHANGED <<saved, ftHandle, ret>>
  /\ UNCHANGED <<shared, job, diskFull, worked, asked, uiState>>

MarkStartedAndForget ==
  /\ pc = "start"
  /\ pc' = "firstPage"
  /\ start_spi' = TRUE
  /\ stop' = FALSE
  /\ UNCHANGED <<block_flash, job, loop, owned, ret, diskFull, ledger, uiState>>

MarkStarted ==
  /\ pc = "start"
  /\ pc' = "firstPage"
  /\ start_spi' = TRUE
  /\ UNCHANGED <<block_flash, stop, job, loop, owned, ret, diskFull, ledger, uiState>>

FirstPage ==
  /\ pc = "firstPage"
  /\ pc' = "test"
  /\ block_flash' = StartBlock
  /\ UNCHANGED <<start_spi, stop, job, loop, owned, ret, diskFull, ledger, uiState>>

LoopTestOneShort ==
  /\ pc = "test"
  /\ pc' = IF block_flash + step < End_Block /\ ~stop THEN "page" ELSE "finish"
  /\ UNCHANGED <<shared, job, loop, owned, ret, diskFull, ledger, uiState>>

LoopTestContinue ==
  /\ pc = "test"
  /\ pc' = IF block_flash < End_Block THEN IF stop THEN "test" ELSE "page" ELSE "finish"
  /\ UNCHANGED <<shared, job, loop, owned, ret, diskFull, ledger, uiState>>

LoopTest ==
  /\ pc = "test"
  /\ pc' = IF block_flash < End_Block /\ ~stop THEN "page" ELSE "finish"
  /\ UNCHANGED <<shared, job, loop, owned, ret, diskFull, ledger, uiState>>

PageRepeats ==
  /\ pc = "page"
  /\ pc' = "test"
  /\ worked' = worked \cup block_flash .. (Minimum(block_flash + step, End_Block) - 1)
  /\ UNCHANGED <<shared, job, loop, owned, ret, diskFull, todo, asked, uiState>>

(* FlashDataErase, FlashDataWrite or FlashDataReadBatch, and the increment *)
(* of the loop.                                                            *)
PageDone ==
  /\ pc = "page"
  /\ pc' = "test"
  /\ worked' = worked \cup block_flash .. (Minimum(block_flash + step, End_Block) - 1)
  /\ block_flash' = block_flash + step
  /\ UNCHANGED <<start_spi, stop, job, loop, owned, ret, diskFull, todo, asked, uiState>>

PageThrows ==
  /\ pc = "page"
  /\ Throw
  /\ UNCHANGED <<shared, job, loop, diskFull, ledger, uiState>>

FinishByCount ==
  /\ pc = "finish"
  /\ mode \notin ReadModes
  /\ Return(IF block_flash < End_Block THEN -1 ELSE 0, {})
  /\ UNCHANGED <<shared, job, loop, diskFull, ledger, uiState>>

FinishEraseOrWrite ==
  /\ pc = "finish"
  /\ mode \notin ReadModes
  /\ Return(IF stop THEN -1 ELSE 0, {})
  /\ UNCHANGED <<shared, job, loop, diskFull, ledger, uiState>>

FinishRead ==
  /\ pc = "finish"
  /\ mode \in ReadModes
  /\ \/ /\ stop
        /\ Return(-1, {})
     \/ /\ ~stop
        /\ pc' = "save"
        /\ UNCHANGED <<owned, ret>>
  /\ UNCHANGED <<shared, job, loop, diskFull, ledger, uiState>>

SaveGivesUp ==
  /\ pc = "save"
  /\ StartBlock + saved < block_flash_max
  /\ \/ /\ ~diskFull
        /\ saved' = saved + 1
        /\ UNCHANGED <<pc, owned, ret>>
     \/ /\ diskFull
        /\ Return(-11, {})
        /\ UNCHANGED saved
  /\ UNCHANGED <<shared, job, End_Block, step, diskFull, ledger, uiState>>

(* One page of the buffer goes to the file; a short fwrite is retried      *)
(* forever, so a full disk holds the worker here.                          *)
SavePage ==
  /\ pc = "save"
  /\ StartBlock + saved < block_flash_max
  /\ ~diskFull
  /\ saved' = saved + 1
  /\ UNCHANGED <<shared, pc, job, End_Block, step, owned, ret, diskFull, ledger, uiState>>

SaveDone ==
  /\ pc = "save"
  /\ StartBlock + saved >= block_flash_max
  /\ Return(0, {})
  /\ UNCHANGED <<shared, job, loop, diskFull, ledger, uiState>>

Worker ==
  \/ ResetBlock \/ ResetStop \/ InitDevice \/ Identify
  \/ OpenForWrite \/ OpenForRead \/ MarkStarted \/ FirstPage
  \/ LoopTest \/ PageDone \/ PageThrows
  \/ FinishEraseOrWrite \/ FinishRead \/ SavePage \/ SaveDone

-------------------------------------------------------------------------------
(* The other threads of the GUI, and the disk.                             *)

worker == <<pc, job, loop, owned, ret>>

(* Can a stop that is set now still be seen by the running call, if it     *)
(* gets to its pages?                                                      *)
StillTested == mode \in Jobs /\ pc \notin {"idle", "resetBlock", "resetStop", "save"}

(* spiStop reads start_spi and, only if it is set, goes on to set stop.    *)
StopTest(u) ==
  /\ ui[u] = "idle"
  /\ start_spi
  /\ ui' = [ui EXCEPT ![u] = "setStop"]
  /\ UNCHANGED <<shared, worker, diskFull, ledger, stale, polled>>

StopSet(u) ==
  /\ ui[u] = "setStop"
  /\ ui' = [ui EXCEPT ![u] = "idle"]
  /\ stop' = TRUE
  /\ asked' = (asked \/ StillTested)
  /\ stale' = stale \ {u}
  /\ UNCHANGED <<block_flash, start_spi, worker, diskFull, todo, worked, polled>>

(* spiGetBlocks answers -1 unless start_spi is set; else it reads          *)
(* block_flash in a second step.                                           *)
PollTest(u) ==
  /\ ui[u] = "idle"
  /\ IF start_spi
     THEN /\ ui' = [ui EXCEPT ![u] = "getBlock"]
          /\ UNCHANGED polled
     ELSE /\ polled' = [polled EXCEPT ![u] = -1]
          /\ UNCHANGED ui
  /\ UNCHANGED <<shared, worker, diskFull, ledger, stale>>

PollRead(u) ==
  /\ ui[u] = "getBlock"
  /\ ui' = [ui EXCEPT ![u] = "idle"]
  /\ polled' = IF u \in stale THEN polled
               ELSE [polled EXCEPT ![u] = block_flash \div Unit]
  /\ stale' = stale \ {u}
  /\ UNCHANGED <<shared, worker, diskFull, ledger>>

DiskChanges ==
  /\ diskFull' = ~diskFull
  /\ UNCHANGED <<shared, worker, ui, ledger, stale, polled>>

Environment ==
  \/ \E u \in UIThreads : StopTest(u) \/ StopSet(u) \/ PollTest(u) \/ PollRead(u)
  \/ DiskChanges

-------------------------------------------------------------------------------
Init ==
  /\ block_flash = 0 /\ start_spi = FALSE /\ stop = FALSE
  /\ pc = "idle" /\ mode = ConfigOnly /\ StartBlock = 0 /\ block_flash_max = 0
  /\ End_Block = 0 /\ step = 1 /\ saved = 0
  /\ ftHandle = FALSE /\ held = {} /\ ret = NotCalled
  /\ ui = [u \in UIThreads |-> "idle"]
  /\ diskFull = FALSE
  /\ todo = {} /\ worked = {} /\ asked = FALSE /\ stale = {}
  /\ polled = [u \in UIThreads |-> -1]

NewCall ==
  \E m \in Modes, s \in Starts, n \in Lengths, sz \in Sizes : Call(m, s, n, sz)

Next == NewCall \/ Worker \/ Environment

Spec == Init /\ [][Next]_vars

(* The operating system schedules the worker and every driver call it      *)
(* makes returns; nobody is obliged to call, to stop or to free the disk.  *)
FairSpec == Spec /\ WF_vars(Worker)

-------------------------------------------------------------------------------
(* Properties.                                                             *)

Locations == {"idle", "resetBlock", "resetStop", "init", "identify", "openFile", "start",
              "firstPage", "test", "page", "finish", "save"}

FlagsOK ==
  /\ start_spi \in BOOLEAN /\ stop \in BOOLEAN
  /\ ftHandle \in BOOLEAN /\ diskFull \in BOOLEAN /\ asked \in BOOLEAN

(* The values the variables take; block_flash_max and the loop counters    *)
(* are unsigned in the code, so none of them may be negative.              *)
TypeOK ==
  /\ FlagsOK
  /\ block_flash \in Nat
  /\ pc \in Locations /\ mode \in Modes
  /\ StartBlock \in Nat /\ block_flash_max \in Nat
  /\ End_Block \in Nat /\ step \in Nat \ {0} /\ saved \in Nat
  /\ held \in SUBSET {"file", "buffer"} /\ ret \in Codes
  /\ ui \in [UIThreads -> {"idle", "setStop", "getBlock"}]
  /\ todo \in SUBSET Nat /\ worked \in SUBSET Nat
  /\ stale \in SUBSET UIThreads /\ polled \in [UIThreads -> Nat \cup {-1}]

Returned == pc = "idle" /\ ret # NotCalled

(* spi() answers 0 only when every page of its range went through the      *)
(* device and, for a read, every page reached the file, whatever the other *)
(* threads did to block_flash's readers and to stop meanwhile.             *)
SuccessIsComplete ==
  Returned /\ ret = 0 =>
    /\ worked = todo
    /\ mode \in ReadModes => \A p \in todo : p < StartBlock + saved

(* A call that got to its pages answers -1 exactly when a stop was set     *)
(* while it could still see one: no stop is lost between the reset at the  *)
(* start and the last test, and none of an earlier call survives.          *)
CancelledIffAsked ==
  Returned /\ ret \in {0, -1} => (ret = -1 <=> asked)

(* Every other code is answered before the first page operation: no error  *)
(* leaves the NAND half erased or half written.                            *)
ErrorsTouchNothing ==
  Returned /\ ret \notin {0, -1, Threw} => worked = {}

(* However a call returns, the FTDI device is closed again; its file and   *)
(* its buffer are given back but for the two codes that leak them.         *)
ReleasedOnReturn ==
  Returned /\ ret # Threw =>
    /\ ~ftHandle
    /\ ret \notin {-9, -11} => held = {}

(* A block number that spiGetBlocks answers is true: every page of the     *)
(* range before it was already worked through, by this call and not by an  *)
(* earlier one whose counter was still there.                              *)
ProgressIsBacked ==
  \A u \in UIThreads :
    pc # "idle" /\ polled[u] > 0 => \A p \in todo : p < polled[u] * Unit => p \in worked

(* What a thread is told by spiGetBlocks never decreases within a call.    *)
PollsNeverGoBack ==
  [][pc # "idle" => \A u \in UIThreads : polled'[u] >= polled[u]]_vars

(* A call always comes to an end once the disk has room for good: the      *)
(* retry loop of the read is the only place that can hold it.  A call that *)
(* was asked to stop comes to an end even then.                            *)
CallEnds ==
  /\ <>[]~diskFull => (pc # "idle" ~> pc = "idle")
  /\ asked /\ pc # "idle" ~> pc = "idle"

-------------------------------------------------------------------------------
(* spi() is a cancellable job.                                             *)

phaseMap ==
  CASE pc = "idle" -> "idle"
    [] pc \in {"resetBlock", "resetStop", "init", "identify", "openFile"} -> "setup"
    [] pc = "save" -> "closing"
    [] OTHER -> "working"

outcomeMap ==
  IF pc # "idle" THEN "none"
  ELSE CASE ret = NotCalled -> "none"
         [] ret = Threw     -> "lost"
         [] ret = 0         -> "success"
         [] ret = -1        -> "cancelled"
         [] OTHER           -> "error"

Job == INSTANCE CancellableJob WITH Pages <- Nat, phase <- phaseMap, outcome <- outcomeMap

(* Every behaviour of spi() is one of a cancellable job: the reset at its  *)
(* start, the tests of the loop and the last test fit together.            *)
ImplementsJob == Job!Spec

===============================================================================
