-------------------------------- MODULE NandRead --------------------------------
(***************************************************************************)
(* The read loop of spi() (Main.cpp) with its two builds (Flasher.cpp,     *)
(* XNAND.cpp): FlashDataReadBatch queues the commands of many pages as one *)
(* request and gives the NAND a fixed delay to load each; FlashDataRead,   *)
(* the build without NAND_FAST_READ, asks page by page whether the         *)
(* controller is ready and gives up after a number of polls.               *)
(*                                                                         *)
(* The FT2232H executes what it was sent on its own, command by command,   *)
(* while the controller loads a page into its buffer.  Time is counted in  *)
(* ticks of the controller: a load takes any of LoadTimes, the delay takes *)
(* Delay of them, a poll at least one, anything else one or none.          *)
(***************************************************************************)
EXTENDS Integers, Sequences

CONSTANTS
  NumPages,                   \* pages of the NAND
  PageWords,                  \* words of a page, 0x84
  WordCounts,                 \* words read of a page, 0x84 or 0x80
  NAND_READ_BATCH_PAGES,
  Delay,                      \* ticks of NAND_READ_DELAY_BYTES
  PollLimit,                  \* the argument of XNANDWaitReady
  LoadTimes                   \* ticks the NAND may take for a page

ASSUME NandReadAssumption ==
  /\ NumPages \in Nat \ {0} /\ PageWords \in Nat \ {0}
  /\ WordCounts \subseteq 1 .. PageWords
  /\ NAND_READ_BATCH_PAGES \in Nat \ {0}
  /\ Delay \in Nat /\ PollLimit \in Nat
  /\ LoadTimes \subseteq Nat \ {0}

VARIABLES
  NAND_FAST_READ,             \* the build: is it defined?
  \* the worker: place, range and words of the call, next page, polls of the
  \* current wait, what it has of the pages, what the last call answered
  pc, start, end, words, page, polls, out, ret,
  queue,                      \* commands the FT2232H has yet to execute
  \* the controller: address register, page being loaded and ticks until it
  \* is there, page in the buffer, pointer into the buffer
  address, loading, remaining, buf, ptr,
  slow                        \* history: pages the NAND gave no fair chance

range      == <<NAND_FAST_READ, start, end, words>>
controller == <<address, loading, remaining, buf, ptr>>
vars       == <<pc, range, page, polls, out, ret, queue, controller, slow>>

NoPage == NumPages

(* Word w of page p, counted from 0; and what comes after the last one.    *)
Word(p, w) == <<p, w>>
Past       == <<NoPage, PageWords>>
WordAt(p)  == IF ptr < PageWords THEN Word(p, ptr) ELSE Past

Minimum(a, b) == IF a < b THEN a ELSE b

-------------------------------------------------------------------------------
(* The commands of a request.                                              *)

Address(p) == [op |-> "address", page |-> p]
LoadPage   == [op |-> "load"]
Wait       == [op |-> "delay"]
Rewind     == [op |-> "rewind"]
NextWord   == [op |-> "word"]

PageCommandsWaitLast(p) ==
  <<Address(p), LoadPage, Rewind>> \o [w \in 1 .. words |-> NextWord] \o <<Wait>>

PageCommandsUnwound(p) == <<Address(p), LoadPage, Wait>> \o [w \in 1 .. words |-> NextWord]

(* What XNANDReadBatch queues for a page: address, load, delay, pointer,   *)
(* and two register accesses for each word.                                *)
PageCommands(p) == <<Address(p), LoadPage, Wait, Rewind>> \o [w \in 1 .. words |-> NextWord]

PerPage == Len(PageCommands(0))

Batch(first, n) ==
  [k \in 1 .. n * PerPage |->
     PageCommands(first + ((k - 1) \div PerPage))[((k - 1) % PerPage) + 1]]

-------------------------------------------------------------------------------
(* The FT2232H and the controller.                                         *)

(* d ticks pass for the load at work.                                      *)
Elapse(d) ==
  IF remaining <= d
  THEN /\ remaining' = 0
       /\ loading' = NoPage
       /\ buf' = IF loading = NoPage THEN buf ELSE loading
  ELSE /\ remaining' = remaining - d
       /\ UNCHANGED <<loading, buf>>

(* What the driver allows a load before it reads the words.                *)
Patience == IF NAND_FAST_READ THEN Delay ELSE PollLimit + 1

(* A load the controller is still too busy for is lost or takes the place  *)
(* of the one at work.                                                     *)
ExecuteLoad ==
  \/ \E t \in LoadTimes :
       /\ loading' = address
       /\ remaining' = t
       /\ slow' = IF remaining > 0 \/ t > Patience THEN slow \cup {address} ELSE slow
       /\ UNCHANGED <<buf, ptr, address, out>>
  \/ /\ remaining > 0
     /\ slow' = slow \cup {address}
     /\ UNCHANGED <<buf, ptr, address, out, loading, remaining>>

(* A word of a buffer that is being loaded is one of either page.          *)
ExecuteWord ==
  /\ \E p \in {buf} \cup (IF remaining > 0 THEN {loading} ELSE {}) :
       out' = Append(out, WordAt(p))
  /\ ptr' = Minimum(ptr + 1, PageWords)
  /\ \E d \in {0, 1} : Elapse(d)
  /\ UNCHANGED <<address, slow>>

Execute ==
  /\ queue # <<>>
  /\ queue' = Tail(queue)
  /\ LET c == Head(queue) IN
       \/ /\ c.op = "address"
          /\ address' = c.page
          /\ \E d \in {0, 1} : Elapse(d)
          /\ UNCHANGED <<ptr, out, slow>>
       \/ /\ c.op = "load"
          /\ ExecuteLoad
       \/ /\ c.op = "delay"
          /\ Elapse(Delay)
          /\ UNCHANGED <<ptr, address, out, slow>>
       \/ /\ c.op = "rewind"
          /\ address' = 0
          /\ ptr' = 0
          /\ \E d \in {0, 1} : Elapse(d)
          /\ UNCHANGED <<out, slow>>
       \/ /\ c.op = "word"
          /\ ExecuteWord
  /\ UNCHANGED <<pc, range, page, polls, ret>>

-------------------------------------------------------------------------------
(* The worker.                                                             *)

Return(r) ==
  /\ pc' = "idle"
  /\ ret' = r

(* A read got to its loop.  The console was reset on the way, so nothing   *)
(* is being loaded, but the buffer and its pointer are as they were.       *)
Begin(s, n, w) ==
  /\ pc = "idle"
  /\ queue = <<>>
  /\ s + n <= NumPages
  /\ pc' = "loop"
  /\ start' = s
  /\ end' = s + n
  /\ words' = w
  /\ page' = s
  /\ polls' = 0
  /\ out' = <<>>
  /\ loading' = NoPage
  /\ remaining' = 0
  /\ slow' = {}
  /\ UNCHANGED <<NAND_FAST_READ, ret, queue, address, buf, ptr>>

LoopEndsShort ==
  /\ pc = "loop"
  /\ page + 1 >= end
  /\ Return(0)
  /\ UNCHANGED <<range, page, polls, out, queue, controller, slow>>

LoopEnds ==
  /\ pc = "loop"
  /\ page >= end
  /\ Return(0)
  /\ UNCHANGED <<range, page, polls, out, queue, controller, slow>>

ReadBatchStays ==
  /\ pc = "loop"
  /\ page < end
  /\ NAND_FAST_READ
  /\ pc' = "reply"
  /\ out' = <<>>
  /\ queue' = Batch(page, Minimum(end - page, NAND_READ_BATCH_PAGES))
  /\ UNCHANGED <<range, page, polls, ret, controller, slow>>

(* One round of the loop: the request of a batch, the last one shorter.    *)
ReadBatch ==
  /\ pc = "loop"
  /\ page < end
  /\ NAND_FAST_READ
  /\ pc' = "reply"
  /\ queue' = Batch(page, Minimum(end - page, NAND_READ_BATCH_PAGES))
  /\ page' = page + NAND_READ_BATCH_PAGES
  /\ UNCHANGED <<range, polls, out, ret, controller, slow>>

(* GetDataFromDevice has the whole reply: the queue is worked through.     *)
ReplyComplete ==
  /\ pc = "reply"
  /\ queue = <<>>
  /\ pc' = "loop"
  /\ UNCHANGED <<range, page, polls, out, ret, queue, controller, slow>>

(* XNANDReadStart for one page, up to its first poll.                      *)
ReadStart ==
  /\ pc = "loop"
  /\ page < end
  /\ ~NAND_FAST_READ
  /\ pc' = "poll"
  /\ queue' = <<Address(page), LoadPage>>
  /\ polls' = 0
  /\ UNCHANGED <<range, page, out, ret, controller, slow>>

PollNoMore ==
  /\ pc = "poll"
  /\ queue = <<>>
  /\ Elapse(1)
  /\ pc' = "process"
  /\ queue' = <<Rewind>>
  /\ UNCHANGED <<range, page, polls, out, ret, address, ptr, slow>>

(* XNANDWaitReady: the answer finds the controller ready, or it asks again *)
(* or gives up; only a page that was ready has the pointer reset.          *)
Poll ==
  /\ pc = "poll"
  /\ queue = <<>>
  /\ Elapse(1)
  /\ IF remaining' = 0
     THEN /\ pc' = "process"
          /\ queue' = <<Rewind>>
          /\ UNCHANGED polls
     ELSE IF polls < PollLimit
     THEN /\ polls' = polls + 1
          /\ UNCHANGED <<pc, queue>>
     ELSE /\ pc' = "process"
          /\ UNCHANGED <<polls, queue>>
  /\ UNCHANGED <<range, page, out, ret, address, ptr, slow>>

(* XNANDReadProcess.                                                       *)
ReadProcess ==
  /\ pc = "process"
  /\ queue = <<>>
  /\ pc' = "reply"
  /\ queue' = [w \in 1 .. words |-> NextWord]
  /\ page' = page + 1
  /\ UNCHANGED <<range, polls, out, ret, controller, slow>>

(* GetDataFromDevice throws; the chip is reset by the next spi_init.       *)
Lost ==
  /\ pc \in {"poll", "reply"}
  /\ Return(1)
  /\ queue' = <<>>
  /\ UNCHANGED <<range, page, polls, out, controller, slow>>

Driver == LoopEnds \/ ReadBatch \/ ReplyComplete \/ ReadStart \/ Poll \/ ReadProcess

Init ==
  /\ NAND_FAST_READ \in BOOLEAN
  /\ pc = "idle" /\ start = 0 /\ end = 0 /\ words = 1 /\ page = 0 /\ polls = 0
  /\ out = <<>> /\ ret = 0
  /\ queue = <<>>
  /\ address = 0 /\ loading = NoPage /\ remaining = 0 /\ buf = NoPage /\ ptr = 0
  /\ slow = {}

Starting == \E s \in 0 .. NumPages, n \in 0 .. NumPages, w \in WordCounts : Begin(s, n, w)

Next == Starting \/ Driver \/ Lost \/ Execute

Spec == Init /\ [][Next]_vars

(* The worker is scheduled and the chip executes what it was sent.         *)
FairSpec == Spec /\ WF_vars(Driver) /\ WF_vars(Execute)

-------------------------------------------------------------------------------
(* Properties.                                                             *)

(* Page and word that the k-th word of the buffer is to be.                *)
PageAt(k) == start + ((k - 1) \div words)
Offset(k) == (k - 1) % words

(* Every page the NAND had ready in the time the driver allows is in its   *)
(* place in the buffer, whole: no page before it that came late, no batch  *)
(* boundary and no earlier call shifts or spoils it. Even a page that came *)
(* late does not shift the words of the batched build, and an answer of 0  *)
(* means that the whole range is filled.                                   *)
PunctualPagesExact ==
  /\ \A k \in DOMAIN out : PageAt(k) \notin slow => out[k] = Word(PageAt(k), Offset(k))
  /\ NAND_FAST_READ => \A k \in DOMAIN out : out[k][2] = Offset(k)
  /\ pc = "idle" /\ ret = 0 => Len(out) = (end - start) * words

(* A read returns, however long the NAND takes.                            *)
ReadReturns == pc = "loop" ~> pc = "idle"

===============================================================================
