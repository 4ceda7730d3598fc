------------------------------- MODULE NandWrite -------------------------------
(***************************************************************************)
(* The write and erase loops of spi() (Main.cpp), FlashDataWrite and       *)
(* FlashDataErase (Flasher.cpp) and the SFC commands they issue            *)
(* (XNAND.cpp), over the NAND controller of the console.                   *)
(*                                                                         *)
(* The driver remembers where it is in two globals, gNextBlock and         *)
(* gWORDsLeft, that only a page at the start of an erase block resets.     *)
(* The controller is external: it works on one command at a time, may      *)
(* fail it, and may stay busy for longer than the driver polls.            *)
(***************************************************************************)
EXTENDS Integers, FiniteSets

CONSTANTS
  NumPages,             \* pages of the NAND
  PageCountInBlock,     \* pages of an erase block, Sfc.PageCountInBlock
  Unit,                 \* pages in a block of the argument startblock, 32
  Words,                \* words of a page, 0x84
  PollLimit,            \* the argument of XNANDWaitReady, 0x1000
  ImagePages,           \* sizes, in pages, of the images
  ErasePages            \* sizes, in pages, of the erased ranges

ASSUME NandAssumption ==
  /\ NumPages \in Nat \ {0} /\ PageCountInBlock \in Nat \ {0}
  /\ NumPages % PageCountInBlock = 0
  /\ Unit \in Nat \ {0} /\ Words \in Nat \ {0} /\ PollLimit \in Nat
  /\ ImagePages \subseteq Nat
  /\ ErasePages \subseteq {n \in Nat : n % Unit = 0}

VARIABLES
  \* globals of the driver that outlive a call
  gNextBlock, gWORDsLeft,
  \* the running call: place, mode, block_flash, its range, words of the
  \* current page still to be sent, polls of the current wait
  pc, mode, page, start, end, len, polls,
  \* a stop was asked for; what the last call answered
  stop, ret,
  \* the controller: the command it works on, its page buffer and pointer
  job, buf, ptr,
  nand,                 \* what each page of the NAND holds
  failed                \* history: something went wrong that nobody reads

globals    == <<gNextBlock, gWORDsLeft>>
call       == <<mode, start, end>>
controller == <<job, buf, ptr>>
vars == <<globals, pc, call, page, len, polls, stop, ret, controller, nand, failed>>

PageNumbers == 0 .. (NumPages - 1)

(* Word w of page k of the image the current call writes, and a word that  *)
(* is none.                                                                *)
Word(k, w) == <<k, w>>
Junk       == <<"junk">>

(* What a page holds: a page of the image, what it held when the call      *)
(* began, nothing, or a mix.                                               *)
Image(k) == [w \in 1 .. Words |-> Word(k, w)]
Old      == [w \in 1 .. Words |-> <<"old">>]
Erased   == [w \in 1 .. Words |-> <<"erased">>]
Garbled  == [w \in 1 .. Words |-> Junk]

NoJob == [op |-> "none"]

BlockOf(p) == {q \in PageNumbers : q \div PageCountInBlock = p \div PageCountInBlock}

Minimum(a, b) == IF a < b THEN a ELSE b

-------------------------------------------------------------------------------
(* The controller.  A command that finds it busy may be lost, or may       *)
(* follow the one it works on; one for a page past the end does nothing.   *)

Apply(j, n) ==
  CASE j.op = "erase"   -> [p \in PageNumbers |-> IF p \in BlockOf(j.page) THEN Erased ELSE n[p]]
    [] j.op = "program" -> [n EXCEPT ![j.page] = IF @ = Erased THEN j.words ELSE Garbled]
    [] OTHER            -> n

Spoil(j, n) ==
  CASE j.op = "erase"   -> [p \in PageNumbers |-> IF p \in BlockOf(j.page) THEN Garbled ELSE n[p]]
    [] j.op = "program" -> [n EXCEPT ![j.page] = Garbled]
    [] OTHER            -> n

Command(j) ==
  \/ /\ job' = IF j.page \in PageNumbers THEN j ELSE job
     /\ nand' = Apply(job, nand)
     /\ UNCHANGED failed
  \/ /\ job # NoJob
     /\ UNCHANGED <<job, nand, failed>>

JobDone ==
  /\ job # NoJob
  /\ job' = NoJob
  /\ \/ /\ nand' = Apply(job, nand)
        /\ UNCHANGED failed
     \/ /\ nand' = Spoil(job, nand)
        /\ failed' = TRUE
  /\ UNCHANGED <<globals, pc, call, page, len, polls, stop, ret, buf, ptr>>

(* The page buffer while it is being loaded: a word sent to a busy         *)
(* controller may not arrive.                                              *)
Load(n, k) ==
  /\ \E ok \in {TRUE} \cup {job = NoJob} :
       buf' = [w \in 1 .. Words |->
                 IF w \in (ptr + 1) .. (ptr + n)
                 THEN IF ok THEN Word(k, w - ptr + (Words - len)) ELSE Junk
                 ELSE buf[w]]
  /\ ptr' = Minimum(ptr + n, Words)

-------------------------------------------------------------------------------
(* The driver.                                                             *)

Return(r) ==
  /\ pc' = "idle"
  /\ ret' = r

(* A call of spi() in mode 3, 4 or 5 that got as far as its loop.  What    *)
(* the NAND holds now is old; spi_init found the controller idle.  That    *)
(* a call in the middle of an erase block finds gNextBlock no further than *)
(* the end of the NAND is the bound of the model.                          *)
Begin(m, b, n) ==
  /\ pc = "idle"
  /\ b * Unit + n <= NumPages
  /\ (b * Unit) % PageCountInBlock # 0 => gNextBlock <= NumPages
  /\ pc' = "test"
  /\ mode' = m
  /\ start' = b * Unit
  /\ page' = b * Unit
  /\ end' = b * Unit + n
  /\ stop' = FALSE
  /\ len' = 0
  /\ polls' = 0
  /\ job' = NoJob
  /\ nand' = [p \in PageNumbers |-> Old]
  /\ failed' = FALSE
  /\ UNCHANGED <<globals, ret, buf, ptr>>

Stop ==
  /\ pc # "idle"
  /\ stop' = TRUE
  /\ UNCHANGED <<globals, pc, call, page, len, polls, ret, controller, nand, failed>>

LoopEnds ==
  /\ pc = "test"
  /\ page >= end \/ stop
  /\ Return(IF stop THEN -1 ELSE 0)
  /\ UNCHANGED <<globals, call, page, len, polls, stop, controller, nand, failed>>

EraseDue ==
  /\ pc = "test"
  /\ page < end /\ ~stop
  /\ mode = "erase" \/ page % PageCountInBlock = 0

SendEraseKeepPage ==
  /\ EraseDue
  /\ pc' = "eraseWait"
  /\ polls' = 0
  /\ Command([op |-> "erase", page |-> page])
  /\ UNCHANGED <<globals, call, page, len, stop, ret, buf, ptr>>

(* XNANDErase clears the status, enables writing and sends AA 55 05.  The  *)
(* driver's page pointer is set before it, its word counter after it.      *)
SendErase ==
  /\ EraseDue
  /\ pc' = "eraseWait"
  /\ polls' = 0
  /\ gNextBlock' = IF mode = "erase" THEN gNextBlock ELSE page
  /\ Command([op |-> "erase", page |-> page])
  /\ UNCHANGED <<gWORDsLeft, call, page, len, stop, ret, buf, ptr>>

NextPageWithoutErase ==
  /\ pc = "test"
  /\ page < end /\ ~stop
  /\ mode = "write" /\ page % PageCountInBlock # 0
  /\ pc' = "fill"
  /\ len' = Words
  /\ UNCHANGED <<globals, call, page, polls, stop, ret, controller, nand, failed>>

(* XNANDWaitReady asks once more after every answer but the last.          *)
PollAgain ==
  /\ pc \in {"eraseWait", "programWait"}
  /\ job # NoJob
  /\ polls < PollLimit
  /\ polls' = polls + 1
  /\ UNCHANGED <<globals, pc, call, page, len, stop, ret, controller, nand, failed>>

WaitedForNothing ==
  /\ polls <= PollLimit
  /\ failed' = failed

WaitedUntilReady ==
  /\ job = NoJob
  /\ failed' = failed

(* The controller is ready, or the driver gives up on it.                  *)
Waited ==
  /\ job = NoJob \/ polls = PollLimit
  /\ failed' = (failed \/ job # NoJob)

(* The status, 0x8003 or what the controller says, goes to gGlobalStatus,  *)
(* which nothing reads.                                                    *)
EraseWaited ==
  /\ pc = "eraseWait"
  /\ Waited
  /\ IF mode = "erase"
     THEN /\ pc' = "test"
          /\ page' = page + PageCountInBlock
          /\ UNCHANGED <<gWORDsLeft, len, ptr>>
     ELSE /\ pc' = "fill"
          /\ gWORDsLeft' = Words
          /\ len' = Words
          /\ ptr' = 0
          /\ UNCHANGED page
  /\ UNCHANGED <<gNextBlock, call, polls, stop, ret, job, buf, nand>>

FillUnbounded ==
  /\ pc = "fill"
  /\ len > 0
  /\ Load(len, page - start)
  /\ len' = 0
  /\ gWORDsLeft' = gWORDsLeft - len
  /\ pc' = IF gWORDsLeft = len THEN "execute" ELSE "fill"
  /\ UNCHANGED <<gNextBlock, call, page, polls, stop, ret, job, nand, failed>>

(* One round of the loop of FlashDataWrite up to the test of gWORDsLeft.   *)
Fill ==
  /\ pc = "fill"
  /\ len > 0
  /\ LET writeNow == Minimum(len, gWORDsLeft) IN
       /\ Load(writeNow, page - start)
       /\ len' = len - writeNow
       /\ gWORDsLeft' = gWORDsLeft - writeNow
       /\ pc' = IF gWORDsLeft = writeNow THEN "execute" ELSE "fill"
  /\ UNCHANGED <<gNextBlock, call, page, polls, stop, ret, job, nand, failed>>

(* XNANDWriteExecute sends 55 AA 04.                                       *)
Execute ==
  /\ pc = "execute"
  /\ pc' = "programWait"
  /\ polls' = 0
  /\ Command([op |-> "program", page |-> gNextBlock, words |-> buf])
  /\ UNCHANGED <<globals, call, page, len, stop, ret, buf, ptr>>

(* The page is done (or 0x8021 is noted), XNANDWriteStart for the next.    *)
ProgramWaited ==
  /\ pc = "programWait"
  /\ Waited
  /\ pc' = "fill"
  /\ gNextBlock' = gNextBlock + 1
  /\ gWORDsLeft' = Words
  /\ ptr' = 0
  /\ UNCHANGED <<call, page, len, polls, stop, ret, job, buf, nand>>

PageWritten ==
  /\ pc = "fill"
  /\ len = 0
  /\ pc' = "test"
  /\ page' = page + 1
  /\ UNCHANGED <<globals, call, len, polls, stop, ret, controller, nand, failed>>

(* GetDataFromDevice throws out of one of the register reads.              *)
Lost ==
  /\ pc \in {"eraseWait", "programWait"} \/ EraseDue
  /\ Return(1)
  /\ failed' = TRUE
  /\ gNextBlock' = IF EraseDue /\ mode = "write" THEN page ELSE gNextBlock
  /\ UNCHANGED <<gWORDsLeft, call, page, len, polls, stop, controller, nand>>

Driver ==
  \/ LoopEnds \/ SendErase \/ NextPageWithoutErase \/ PollAgain \/ EraseWaited
  \/ Fill \/ Execute \/ ProgramWaited \/ PageWritten

Init ==
  /\ gNextBlock = 0 /\ gWORDsLeft = 0
  /\ pc = "idle" /\ mode = "write" /\ page = 0 /\ start = 0 /\ end = 0
  /\ len = 0 /\ polls = 0 /\ stop = FALSE /\ ret = 0
  /\ job = NoJob /\ buf = [w \in 1 .. Words |-> Junk] /\ ptr = 0
  /\ nand = [p \in PageNumbers |-> Old]
  /\ failed = FALSE

Starting ==
  \E b \in 0 .. (NumPages \div Unit) :
    \/ \E n \in ImagePages : Begin("write", b, n)
    \/ \E n \in ErasePages : Begin("erase", b, n)

Next == Starting \/ Stop \/ Driver \/ Lost \/ JobDone

Spec == Init /\ [][Next]_vars

(* The worker thread is scheduled; the controller may stay busy for good.  *)
FairSpec == Spec /\ WF_vars(Driver)

-------------------------------------------------------------------------------
(* Properties.                                                             *)

Cells == {Junk, <<"old">>, <<"erased">>} \cup {Word(k, w) : k \in PageNumbers, w \in 1 .. Words}

(* The values the variables take; both counters of words stay within a     *)
(* page and no address goes further past the NAND than one call can push.  *)
TypeOK ==
  /\ gNextBlock \in 0 .. 2 * NumPages + 1 /\ gWORDsLeft \in 0 .. Words
  /\ pc \in {"idle", "test", "eraseWait", "fill", "execute", "programWait"}
  /\ mode \in {"write", "erase"}
  /\ page \in Nat /\ start \in 0 .. NumPages /\ end \in 0 .. NumPages
  /\ len \in 0 .. Words /\ polls \in 0 .. PollLimit
  /\ stop \in BOOLEAN /\ ret \in {-1, 0, 1} /\ failed \in BOOLEAN
  /\ \/ job = NoJob
     \/ /\ job.op \in {"erase", "program"} /\ job.page \in PageNumbers
  /\ ptr \in 0 .. Words
  /\ DOMAIN nand = PageNumbers
  /\ \A w \in 1 .. Words : buf[w] \in Cells /\ \A p \in PageNumbers : nand[p][w] \in Cells

Aligned == start % PageCountInBlock = 0

(* The first page of the erase block after the one that holds page p - 1.  *)
RoundUp(p) == ((p + PageCountInBlock - 1) \div PageCountInBlock) * PageCountInBlock

(* Between two pages, and when the call has returned, a write that began   *)
(* on an erase block has left exactly this on the NAND: the image so far,  *)
(* an erased rest of the erase block it is in, and the old pages around    *)
(* them - whatever calls came before, and wherever a stop cut it short.    *)
(* An erase that answers 0 has erased its range, and beyond it no more     *)
(* than the rest of the last erase block.                                  *)
RangeIsExact ==
  Aligned /\ ~failed =>
    /\ mode = "write" /\ pc \in {"idle", "test"} =>
         nand = [p \in PageNumbers |-> CASE p \in start .. (page - 1)         -> Image(p - start)
                                          [] p \in page .. (RoundUp(page) - 1) -> Erased
                                          [] OTHER                             -> Old]
    /\ mode = "erase" /\ pc = "idle" /\ ret = 0 =>
         nand = [p \in PageNumbers |-> IF p \in start .. (RoundUp(end) - 1) THEN Erased ELSE Old]

(* Even when commands fail, time out, are lost or the call is left by an   *)
(* exception, no page outside the erase blocks of the range is touched.    *)
OutsideUntouched ==
  Aligned => \A p \in PageNumbers : p < start \/ p >= RoundUp(end) => nand[p] = Old

(* A call returns, even when the controller stays busy for good.           *)
CallReturns == pc # "idle" ~> pc = "idle"

===============================================================================
