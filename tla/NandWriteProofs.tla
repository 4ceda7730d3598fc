---------------------------- MODULE NandWriteProofs ----------------------------
(***************************************************************************)
(* Theorems about what a write or an erase leaves on the NAND, for every   *)
(* size of NAND, erase block and page, and any calls in any order.         *)
(***************************************************************************)
EXTENDS NandWrite, TLAPS

Places == {"idle", "test", "eraseWait", "fill", "execute", "programWait"}

(* What the proofs need of the types.                                      *)
DataOK ==
  /\ pc \in Places /\ mode \in {"write", "erase"}
  /\ gNextBlock \in Nat /\ page \in Nat /\ start \in Nat /\ end \in 0 .. NumPages
  /\ nand = [p \in PageNumbers |-> nand[p]]

(* The controller works on nothing, or on a page of the range.             *)
JobInv ==
  job # NoJob =>
    /\ job.op \in {"erase", "program"} /\ job.page \in PageNumbers
    /\ Aligned => job.page \in start .. (end - 1)

RangeInv ==
  /\ start <= page
  /\ pc \notin {"idle", "test"} => page < end
  /\ mode = "erase" => pc \in {"idle", "test", "eraseWait"}

(* In a write that began on an erase block the globals of the driver agree *)
(* with the page of the loop: gNextBlock is the page being loaded and      *)
(* gWORDsLeft what is missing from it.                                     *)
GlobalsInv ==
  Aligned /\ mode = "write" =>
    /\ pc = "test" => page = start \/ (gNextBlock = page /\ gWORDsLeft = Words)
    /\ pc = "eraseWait" => gNextBlock = page
    /\ pc = "fill" => /\ gWORDsLeft = Words
                     /\ \/ len = Words /\ gNextBlock = page
                        \/ len = 0 /\ gNextBlock = page + 1
    /\ pc \in {"execute", "programWait"} => len = 0 /\ gNextBlock = page

IInv == DataOK /\ JobInv /\ RangeInv /\ GlobalsInv /\ OutsideUntouched

-------------------------------------------------------------------------------
(* Quotients.                                                              *)

(* Division is monotonic.                                                  *)
LEMMA QuotientAtLeast ==
  ASSUME NEW a \in Nat, NEW b \in Nat, NEW k \in Nat \ {0}, k * b <= a
  PROVE  b <= a \div k
<1> DEFINE d == a \div k
<1>1. d \in Nat /\ a < k * d + k
  OBVIOUS
<1>2. ASSUME d + 1 <= b PROVE FALSE
  <2>1. PICK x \in Nat : b = d + 1 + x
    <3>1. b - (d + 1) \in Nat /\ b = d + 1 + (b - (d + 1))
      BY <1>1, <1>2
    <3>2. QED
      BY <3>1
  <2>2. k * b = k * d + k + k * x
    BY <1>1, <2>1
  <2>3. k * x \in Nat /\ k * d \in Nat /\ k * b \in Nat
    BY <1>1, <2>1
  <2>4. QED
    BY <1>1, <2>2, <2>3
<1>3. QED
  BY <1>1, <1>2

(* A quotient is the only number whose multiple is that near.              *)
LEMMA QuotientIs ==
  ASSUME NEW a \in Nat, NEW b \in Nat, NEW k \in Nat \ {0}, k * b <= a, a < k * b + k
  PROVE  a \div k = b
<1> DEFINE d == a \div k
<1>1. d \in Nat /\ k * d <= a
  OBVIOUS
<1>2. b <= d
  BY QuotientAtLeast
<1>3. k * (b + 1) = k * b + k /\ k * b \in Nat /\ k * (b + 1) \in Nat
  OBVIOUS
<1>4. ASSUME b + 1 <= d PROVE FALSE
  <2>1. PICK x \in Nat : d = b + 1 + x
    <3>1. d - (b + 1) \in Nat /\ d = b + 1 + (d - (b + 1))
      BY <1>1, <1>4
    <3>2. QED
      BY <3>1
  <2>2. k * d = k * b + k + k * x /\ k * x \in Nat
    BY <2>1
  <2>3. QED
    BY <1>1, <1>3, <2>2
<1>5. QED
  BY <1>1, <1>2, <1>4

-------------------------------------------------------------------------------
(* Erase blocks.                                                           *)

(* RoundUp(p) is the only start of an erase block from p on, but less than *)
(* a block away.                                                           *)
LEMMA RoundUpIs ==
  ASSUME NEW p \in Nat, NEW a \in Nat, a % PageCountInBlock = 0,
         p <= a, a < p + PageCountInBlock
  PROVE  RoundUp(p) = a
<1>1. PageCountInBlock \in Nat \ {0}
  BY NandAssumption
<1> DEFINE b == a \div PageCountInBlock
<1>2. b \in Nat /\ a = PageCountInBlock * b
  BY <1>1
<1>3. p + PageCountInBlock - 1 \in Nat
  BY <1>1
<1>4. (p + PageCountInBlock - 1) \div PageCountInBlock = b
  BY <1>1, <1>2, <1>3, QuotientIs
<1>5. QED
  BY <1>1, <1>2, <1>4 DEF RoundUp

(* RoundUp gives the next page at which an erase block begins.             *)
LEMMA RoundUpBounds ==
  ASSUME NEW p \in Nat
  PROVE  /\ RoundUp(p) \in Nat /\ RoundUp(p) % PageCountInBlock = 0
         /\ p <= RoundUp(p) /\ RoundUp(p) < p + PageCountInBlock
<1>1. PageCountInBlock \in Nat \ {0}
  BY NandAssumption
<1> DEFINE b == (p + PageCountInBlock - 1) \div PageCountInBlock
<1>2. /\ b \in Nat /\ PageCountInBlock * b \in Nat
      /\ PageCountInBlock * b <= p + PageCountInBlock - 1
      /\ p + PageCountInBlock - 1 < PageCountInBlock * b + PageCountInBlock
  BY <1>1
<1>3. RoundUp(p) = PageCountInBlock * b
  BY <1>1, <1>2 DEF RoundUp
<1>4. (PageCountInBlock * b) % PageCountInBlock = 0
  BY <1>1, <1>2
<1>5. QED
  BY <1>1, <1>2, <1>3, <1>4

(* Erase blocks begin again a block later.                                 *)
LEMMA NextBlockAligned ==
  ASSUME NEW p \in Nat, p % PageCountInBlock = 0
  PROVE  (p + PageCountInBlock) % PageCountInBlock = 0
<1>1. PageCountInBlock \in Nat \ {0}
  BY NandAssumption
<1> DEFINE b == p \div PageCountInBlock
<1>2. b \in Nat /\ p = PageCountInBlock * b
  BY <1>1
<1>3. p + PageCountInBlock = PageCountInBlock * (b + 1)
  BY <1>1, <1>2
<1>4. (PageCountInBlock * (b + 1)) % PageCountInBlock = 0
  BY <1>1, <1>2
<1>5. QED
  BY <1>3, <1>4

(* The pages of an erase block that begins with p.                         *)
LEMMA BlockFrom ==
  ASSUME NEW p \in Nat, p % PageCountInBlock = 0, NEW q \in Nat
  PROVE  q \div PageCountInBlock = p \div PageCountInBlock
           <=> p <= q /\ q < p + PageCountInBlock
<1>1. PageCountInBlock \in Nat \ {0}
  BY NandAssumption
<1> DEFINE b == p \div PageCountInBlock
<1>2. b \in Nat /\ p = PageCountInBlock * b
  BY <1>1
<1>3. ASSUME p <= q, q < p + PageCountInBlock PROVE q \div PageCountInBlock = b
  BY <1>1, <1>2, <1>3, QuotientIs
<1>4. ASSUME q \div PageCountInBlock = b PROVE p <= q /\ q < p + PageCountInBlock
  BY <1>1, <1>2, <1>4
<1>5. QED
  BY <1>3, <1>4

(* The erase block of a page of the range is within the erase blocks of    *)
(* the range, if the range begins with one.                                *)
LEMMA BlockInRange ==
  ASSUME NEW a \in Nat, NEW e \in Nat, a % PageCountInBlock = 0,
         NEW p \in a .. (e - 1), NEW q \in Nat,
         q \div PageCountInBlock = p \div PageCountInBlock
  PROVE  a <= q /\ q < RoundUp(e)
<1>1. PageCountInBlock \in Nat \ {0}
  BY NandAssumption
<1> DEFINE k == PageCountInBlock
           b == a \div k
           d == p \div k
           u == (e + k - 1) \div k
<1>2. /\ b \in Nat /\ a = k * b
      /\ d \in Nat /\ k * d <= p
      /\ k * d <= q /\ q < k * d + k
  BY <1>1
<1>3. k * b <= k * d
  <2>1. b <= d
    BY <1>1, <1>2, QuotientAtLeast
  <2>2. PICK x \in Nat : d = b + x
    <3>1. d - b \in Nat /\ d = b + (d - b)
      BY <1>2, <2>1
    <3>2. QED
      BY <3>1
  <2>3. k * d = k * b + k * x /\ k * x \in Nat /\ k * b \in Nat
    BY <1>1, <1>2, <2>2
  <2>4. QED
    BY <2>3
<1>4. d + 1 \in Nat /\ k * (d + 1) = k * d + k /\ k * d \in Nat
  BY <1>1, <1>2
<1>5. RoundUp(e) \in Nat /\ RoundUp(e) = k * u /\ u \in Nat
  BY <1>1, RoundUpBounds DEF RoundUp
<1>6. d + 1 <= u
  BY <1>1, <1>2, <1>4, QuotientAtLeast
<1>7. k * (d + 1) <= k * u
  <2>1. PICK x \in Nat : u = d + 1 + x
    <3>1. u - (d + 1) \in Nat /\ u = d + 1 + (u - (d + 1))
      BY <1>2, <1>5, <1>6
    <3>2. QED
      BY <3>1
  <2>2. k * u = k * (d + 1) + k * x /\ k * x \in Nat /\ k * (d + 1) \in Nat
    BY <1>1, <1>2, <2>1
  <2>3. QED
    BY <2>2
<1>8. QED
  BY <1>1, <1>2, <1>3, <1>4, <1>5, <1>7

-------------------------------------------------------------------------------
(* What is never touched.                                                  *)

(* What a command does to the NAND, well or badly, stays within the erase  *)
(* block of its page.                                                      *)
LEMMA CommandsStayInBlock ==
  ASSUME DataOK, JobInv, OutsideUntouched,
         NEW n, n \in {nand, Apply(job, nand), Spoil(job, nand)}
  PROVE  /\ n = [p \in PageNumbers |-> n[p]]
         /\ Aligned => \A p \in PageNumbers : p < start \/ p >= RoundUp(end) => n[p] = Old
<1>1. n = [p \in PageNumbers |-> n[p]]
  BY DEF DataOK, Apply, Spoil
<1>2. ASSUME Aligned, NEW p \in PageNumbers, p < start \/ p >= RoundUp(end)
      PROVE  n[p] = Old
  <2>1. nand[p] = Old
    BY <1>2 DEF OutsideUntouched
  <2>2. CASE job = NoJob
    BY <2>1, <2>2 DEF NoJob, Apply, Spoil
  <2>3. CASE job # NoJob
    <3>1. job.page \in start .. (end - 1) /\ job.page \in PageNumbers
      BY <1>2, <2>3 DEF JobInv
    <3>2. p \in Nat /\ start \in Nat /\ end \in Nat /\ RoundUp(end) \in Nat
      BY NandAssumption, RoundUpBounds DEF DataOK, PageNumbers
    <3>3. p \div PageCountInBlock # job.page \div PageCountInBlock
      BY <1>2, <3>1, <3>2, BlockInRange DEF Aligned
    <3>4. p \notin BlockOf(job.page) /\ p # job.page
      BY <3>3 DEF BlockOf
    <3>5. QED
      BY <1>2, <2>1, <3>1, <3>4 DEF DataOK, Apply, Spoil
  <2>4. QED
    BY <2>2, <2>3
<1>3. QED
  BY <1>1, <1>2

(* So sending one for a page of the range preserves what concerns the      *)
(* NAND and the job.                                                       *)
LEMMA CommandPreserves ==
  ASSUME DataOK, JobInv, OutsideUntouched,
         NEW j, j # NoJob, j.op \in {"erase", "program"},
         Aligned => j.page \in start .. (end - 1),
         Command(j), UNCHANGED <<start, end>>
  PROVE  JobInv' /\ OutsideUntouched' /\ nand' = [p \in PageNumbers |-> nand'[p]]
<1>1. nand' \in {nand, Apply(job, nand)} /\ job' \in {job, j}
  BY DEF Command
<1>2. job' = j => j.page \in PageNumbers \/ job' = job
  BY DEF Command
<1>3. JobInv'
  BY <1>1, <1>2 DEF JobInv, Aligned
<1>4. OutsideUntouched' /\ nand' = [p \in PageNumbers |-> nand'[p]]
  BY <1>1, CommandsStayInBlock DEF OutsideUntouched, Aligned, RoundUp, Old
<1>5. QED
  BY <1>3, <1>4

(* The invariant of the range holds before the first call.                 *)
LEMMA InitInvariant == Init => IInv
BY NandAssumption
   DEF Init, IInv, DataOK, Places, JobInv, RangeInv, GlobalsInv, OutsideUntouched, Old,
       PageNumbers

(* Every step of driver and controller keeps it.                           *)
LEMMA StepInvariant == IInv /\ [Next]_vars => IInv'
<1> SUFFICES ASSUME IInv, [Next]_vars PROVE IInv'
  OBVIOUS
<1> USE DEF IInv
<1>1. ASSUME NEW m \in {"write", "erase"}, NEW b \in 0 .. (NumPages \div Unit),
             NEW n \in Nat, Begin(m, b, n)
      PROVE  IInv'
  <2>1. b * Unit \in Nat
    BY NandAssumption
  <2>2. DataOK'
    BY <1>1, <2>1, NandAssumption DEF Begin, DataOK, Places, globals
  <2>3. JobInv' /\ OutsideUntouched'
    BY <1>1 DEF Begin, JobInv, OutsideUntouched, Old
  <2>4. RangeInv' /\ GlobalsInv'
    <3>1. page' = start' /\ start' \in Nat /\ pc' = "test"
      BY <1>1, <2>1 DEF Begin
    <3>2. start' <= page'
      BY <3>1
    <3>3. QED
      BY <3>1, <3>2 DEF RangeInv, GlobalsInv
  <2>5. QED
    BY <2>2, <2>3, <2>4
<1>2. CASE Stop
  BY <1>2 DEF Stop, DataOK, JobInv, RangeInv, GlobalsInv, OutsideUntouched, Aligned, RoundUp,
              Old, globals, call, controller
<1>3. CASE LoopEnds
  BY <1>3 DEF LoopEnds, Return, DataOK, Places, JobInv, RangeInv, GlobalsInv, OutsideUntouched,
              Aligned, RoundUp, Old, globals, call, controller
<1>4. CASE SendErase
  <2> DEFINE j == [op |-> "erase", page |-> page]
  <2>1. j # NoJob /\ j.op = "erase" /\ j.page = page
    BY DEF NoJob
  <2>2. page \in start .. (end - 1)
    BY <1>4, NandAssumption DEF SendErase, EraseDue, DataOK, RangeInv
  <2>3. JobInv' /\ OutsideUntouched' /\ nand' = [p \in PageNumbers |-> nand'[p]]
    BY <1>4, <2>1, <2>2, CommandPreserves DEF SendErase, call
  <2>4. DataOK'
    BY <1>4, <2>3 DEF SendErase, DataOK, Places, call
  <2>5. RangeInv' /\ GlobalsInv'
    BY <1>4 DEF SendErase, EraseDue, RangeInv, GlobalsInv, Aligned, call
  <2>6. QED
    BY <2>3, <2>4, <2>5
<1>5. CASE NextPageWithoutErase
  <2>1. DataOK' /\ JobInv' /\ OutsideUntouched' /\ RangeInv'
    BY <1>5 DEF NextPageWithoutErase, DataOK, Places, JobInv, RangeInv, OutsideUntouched,
                Aligned, RoundUp, Old, globals, call, controller
  <2>2. GlobalsInv'
    BY <1>5 DEF NextPageWithoutErase, GlobalsInv, Aligned, globals, call
  <2>3. QED
    BY <2>1, <2>2
<1>6. CASE PollAgain
  BY <1>6 DEF PollAgain, DataOK, JobInv, RangeInv, GlobalsInv, OutsideUntouched, Aligned, RoundUp,
              Old, globals, call, controller
<1>7. CASE EraseWaited
  <2>1. DataOK' /\ JobInv' /\ OutsideUntouched'
    BY <1>7, NandAssumption
       DEF EraseWaited, DataOK, Places, JobInv, OutsideUntouched, Aligned, RoundUp, Old, call
  <2>2. RangeInv' /\ GlobalsInv'
    BY <1>7, NandAssumption DEF EraseWaited, DataOK, RangeInv, GlobalsInv, Aligned, call
  <2>3. QED
    BY <2>1, <2>2
<1>8. CASE Fill
  <2>1. DataOK' /\ JobInv' /\ OutsideUntouched' /\ RangeInv'
    BY <1>8 DEF Fill, DataOK, Places, JobInv, RangeInv, OutsideUntouched, Aligned, RoundUp, Old,
                call
  <2>2. GlobalsInv'
    <3>1. SUFFICES ASSUME Aligned, mode = "write"
                   PROVE  pc' = "execute" /\ len' = 0 /\ gNextBlock' = page /\ page' = page
      BY <1>8 DEF Fill, GlobalsInv, Aligned, call
    <3>2. len = Words /\ gWORDsLeft = Words /\ gNextBlock = page
      BY <1>8, <3>1 DEF Fill, GlobalsInv
    <3>3. QED
      BY <1>8, <3>2, NandAssumption DEF Fill, Minimum
  <2>3. QED
    BY <2>1, <2>2
<1>9. CASE Execute
  <2> DEFINE j == [op |-> "program", page |-> gNextBlock, words |-> buf]
  <2>1. j # NoJob /\ j.op = "program" /\ j.page = gNextBlock
    BY DEF NoJob
  <2>2. Aligned => gNextBlock \in start .. (end - 1)
    BY <1>9, NandAssumption DEF Execute, DataOK, RangeInv, GlobalsInv
  <2>3. JobInv' /\ OutsideUntouched' /\ nand' = [p \in PageNumbers |-> nand'[p]]
    BY <1>9, <2>1, <2>2, CommandPreserves DEF Execute, call
  <2>4. DataOK'
    BY <1>9, <2>3 DEF Execute, DataOK, Places, call, globals
  <2>5. RangeInv' /\ GlobalsInv'
    BY <1>9 DEF Execute, RangeInv, GlobalsInv, Aligned, call, globals
  <2>6. QED
    BY <2>3, <2>4, <2>5
<1>10. CASE ProgramWaited
  BY <1>10, NandAssumption
     DEF ProgramWaited, DataOK, Places, JobInv, RangeInv, GlobalsInv, OutsideUntouched, Aligned,
         RoundUp, Old, call
<1>11. CASE PageWritten
  <2>1. DataOK' /\ JobInv' /\ OutsideUntouched' /\ RangeInv'
    BY <1>11 DEF PageWritten, DataOK, Places, JobInv, RangeInv, OutsideUntouched, Aligned,
                 RoundUp, Old, globals, call, controller
  <2>2. GlobalsInv'
    BY <1>11, NandAssumption DEF PageWritten, GlobalsInv, Aligned, globals, call
  <2>3. QED
    BY <2>1, <2>2
<1>12. CASE Lost
  BY <1>12 DEF Lost, Return, DataOK, Places, JobInv, RangeInv, GlobalsInv, OutsideUntouched,
               Aligned, RoundUp, Old, call, controller
<1>13. CASE JobDone
  <2>1. nand' \in {Apply(job, nand), Spoil(job, nand)} /\ job' = NoJob
    BY <1>13 DEF JobDone
  <2>2. OutsideUntouched' /\ nand' = [p \in PageNumbers |-> nand'[p]]
    BY <1>13, <2>1, CommandsStayInBlock
       DEF JobDone, OutsideUntouched, Aligned, RoundUp, Old, call
  <2>3. QED
    BY <1>13, <2>1, <2>2 DEF JobDone, DataOK, JobInv, RangeInv, GlobalsInv, Aligned, globals, call
<1>14. CASE UNCHANGED vars
  BY <1>14 DEF vars, DataOK, JobInv, RangeInv, GlobalsInv, OutsideUntouched, Aligned, RoundUp,
               Old, globals, call, controller
<1>15. ImagePages \subseteq Nat /\ ErasePages \subseteq Nat
  BY NandAssumption
<1>16. QED
  BY <1>1, <1>2, <1>3, <1>4, <1>5, <1>6, <1>7, <1>8, <1>9, <1>10, <1>11, <1>12, <1>13, <1>14,
     <1>15 DEF Next, Starting, Driver

(* Whatever fails, times out, is lost or is left by an exception, a call   *)
(* that begins on an erase block touches no page outside the erase blocks  *)
(* of its range.                                                           *)
THEOREM OutsideTheorem == Spec => []OutsideUntouched
<1>1. IInv => OutsideUntouched
  BY DEF IInv
<1>2. QED
  BY InitInvariant, StepInvariant, <1>1, PTL DEF Spec

-------------------------------------------------------------------------------
(* What is written.                                                        *)

(* The NAND with the pages before p written and the rest of the erase      *)
(* block of the last one erased; with the erase block of p erased too; and *)
(* with the pages before p erased.                                         *)
Written(s, p) == [q \in PageNumbers |-> CASE q \in s .. (p - 1)               -> Image(q - s)
                                          [] q \in p .. (RoundUp(p) - 1)     -> Erased
                                          [] OTHER                           -> Old]
Opened(s, p)  == [q \in PageNumbers |-> CASE q \in s .. (p - 1)               -> Image(q - s)
                                          [] q \in p .. (RoundUp(p + 1) - 1) -> Erased
                                          [] OTHER                           -> Old]
Cleared(s, p) == [q \in PageNumbers |-> IF q \in s .. (p - 1) THEN Erased ELSE Old]

EraseOf(p)      == [op |-> "erase", page |-> p]
ProgramOf(s, p) == [op |-> "program", page |-> p, words |-> Image(p - s)]

(* What the NAND and the controller hold between two steps of a write ...  *)
WriteInv ==
  /\ pc \in {"idle", "test"} => nand = Written(start, page)
  /\ pc = "eraseWait" =>
       /\ page % PageCountInBlock = 0
       /\ IF job = NoJob
          THEN nand = Opened(start, page)
          ELSE job = EraseOf(page) /\ nand = Written(start, page)
  /\ pc = "test" => page = start \/ ptr = 0
  /\ pc = "fill" => /\ ptr = 0
                   /\ nand = IF len = 0 THEN Written(start, page + 1) ELSE Opened(start, page)
  /\ pc = "execute" => nand = Opened(start, page) /\ buf = Image(page - start)
  /\ pc = "programWait" =>
       IF job = NoJob
       THEN nand = Written(start, page + 1)
       ELSE job = ProgramOf(start, page) /\ nand = Opened(start, page)

(* ... and of an erase.                                                    *)
EraseInv ==
  /\ page % PageCountInBlock = 0 /\ page <= RoundUp(end)
  /\ pc = "test" => nand = Cleared(start, page)
  /\ pc = "eraseWait" =>
       IF job = NoJob
       THEN nand = Cleared(start, page + PageCountInBlock)
       ELSE job = EraseOf(page) /\ nand = Cleared(start, page)
  /\ pc = "idle" /\ ret = 0 => nand = Cleared(start, RoundUp(end))

(* As long as nothing fails the controller is idle outside the two waits.  *)
ExactInv ==
  /\ ~failed /\ pc \in {"idle", "test", "fill", "execute"} => job = NoJob
  /\ Aligned /\ ~failed /\ mode = "write" => WriteInv
  /\ Aligned /\ ~failed /\ mode = "erase" => EraseInv

(* A command is not the place for none.                                    *)
LEMMA NoJobIsNone ==
  ASSUME NEW s, NEW p
  PROVE  EraseOf(p) # NoJob /\ ProgramOf(s, p) # NoJob
BY DEF EraseOf, ProgramOf, NoJob

(* Before the first page of an erase block an erase is due.                *)
LEMMA EraseOpens ==
  ASSUME NEW p \in Nat, p % PageCountInBlock = 0, NEW s \in Nat
  PROVE  Apply(EraseOf(p), Written(s, p)) = Opened(s, p)
<1>1. PageCountInBlock \in Nat \ {0} /\ NumPages \in Nat
  BY NandAssumption
<1>2. RoundUp(p) = p /\ RoundUp(p + 1) = p + PageCountInBlock
  BY <1>1, RoundUpIs, NextBlockAligned
<1>3. ASSUME NEW q \in PageNumbers
      PROVE  q \in BlockOf(p) <=> p <= q /\ q < p + PageCountInBlock
  BY <1>1, <1>3, BlockFrom DEF BlockOf, PageNumbers
<1>4. Apply(EraseOf(p), Written(s, p))
        = [q \in PageNumbers |-> IF q \in BlockOf(p) THEN Erased ELSE Written(s, p)[q]]
  BY DEF Apply, EraseOf
<1>5. ASSUME NEW q \in PageNumbers
      PROVE  (IF q \in BlockOf(p) THEN Erased ELSE Written(s, p)[q]) = Opened(s, p)[q]
  <2>1. q \in Nat
    BY <1>1 DEF PageNumbers
  <2>2. Written(s, p)[q] = IF q \in s .. (p - 1) THEN Image(q - s) ELSE Old
    BY <1>1, <1>2, <2>1 DEF Written
  <2>3. Opened(s, p)[q] = IF q \in s .. (p - 1) THEN Image(q - s)
                       ELSE IF q \in p .. (p + PageCountInBlock - 1) THEN Erased ELSE Old
    BY <1>1, <1>2, <2>1 DEF Opened
  <2>4. QED
    BY <1>1, <1>3, <2>1, <2>2, <2>3
<1>6. QED
  BY <1>4, <1>5 DEF Opened

(* Within an erase block none is.                                          *)
LEMMA OpenAlready ==
  ASSUME NEW s \in Nat, NEW p \in Nat, p % PageCountInBlock # 0
  PROVE  Written(s, p) = Opened(s, p)
<1>1. RoundUp(p + 1) = RoundUp(p)
  BY NandAssumption, RoundUpBounds, RoundUpIs
<1>2. QED
  BY <1>1 DEF Written, Opened

(* Executing a page that has been loaded writes it.                        *)
LEMMA ProgramWrites ==
  ASSUME NEW p \in PageNumbers, NEW s \in Nat, s <= p
  PROVE  Apply(ProgramOf(s, p), Opened(s, p)) = Written(s, p + 1)
<1>1. p \in Nat /\ RoundUp(p + 1) \in Nat /\ p + 1 <= RoundUp(p + 1)
  BY NandAssumption, RoundUpBounds DEF PageNumbers
<1>2. Opened(s, p)[p] = Erased
  BY <1>1 DEF Opened
<1>3. Apply(ProgramOf(s, p), Opened(s, p)) = [Opened(s, p) EXCEPT ![p] = Image(p - s)]
  BY <1>2 DEF Apply, ProgramOf
<1>4. ASSUME NEW q \in PageNumbers
      PROVE  (IF q = p THEN Image(p - s) ELSE Opened(s, p)[q]) = Written(s, p + 1)[q]
  <2>1. q \in Nat
    BY NandAssumption DEF PageNumbers
  <2>2. Opened(s, p)[q] = IF q \in s .. (p - 1) THEN Image(q - s)
                       ELSE IF q \in p .. (RoundUp(p + 1) - 1) THEN Erased ELSE Old
    BY <1>1 DEF Opened
  <2>3. Written(s, p + 1)[q] = IF q \in s .. p THEN Image(q - s)
                            ELSE IF q \in (p + 1) .. (RoundUp(p + 1) - 1) THEN Erased ELSE Old
    BY <1>1 DEF Written
  <2>4. QED
    BY <1>1, <2>1, <2>2, <2>3
<1>5. QED
  BY <1>3, <1>4 DEF Opened, Written

(* An erase in the loop of an erase clears the next block.                 *)
LEMMA EraseClears ==
  ASSUME NEW p \in Nat, p % PageCountInBlock = 0, NEW s \in Nat, s <= p
  PROVE  Apply(EraseOf(p), Cleared(s, p)) = Cleared(s, p + PageCountInBlock)
<1>1. PageCountInBlock \in Nat \ {0} /\ NumPages \in Nat
  BY NandAssumption
<1>2. Apply(EraseOf(p), Cleared(s, p))
        = [q \in PageNumbers |-> IF q \in BlockOf(p) THEN Erased ELSE Cleared(s, p)[q]]
  BY DEF Apply, EraseOf
<1>3. ASSUME NEW q \in PageNumbers
      PROVE  (IF q \in BlockOf(p) THEN Erased ELSE Cleared(s, p)[q])
               = Cleared(s, p + PageCountInBlock)[q]
  <2>1. q \in Nat
    BY <1>1 DEF PageNumbers
  <2>2. q \in BlockOf(p) <=> p <= q /\ q < p + PageCountInBlock
    BY <2>1, BlockFrom DEF BlockOf
  <2>3. QED
    BY <1>1, <2>1, <2>2 DEF Cleared
<1>4. QED
  BY <1>2, <1>3 DEF Cleared

(* When the loop begins nothing is written.                                *)
LEMMA NothingYet ==
  ASSUME NEW s \in Nat, s % PageCountInBlock = 0
  PROVE  /\ Written(s, s) = [p \in PageNumbers |-> Old]
         /\ Cleared(s, s) = [p \in PageNumbers |-> Old]
<1>1. RoundUp(s) = s
  BY NandAssumption, RoundUpIs
<1>2. s .. (s - 1) = {}
  OBVIOUS
<1>3. QED
  BY <1>1, <1>2 DEF Written, Cleared

(* Two starts of erase blocks are a block apart.                           *)
LEMMA BlocksApart ==
  ASSUME NEW a \in Nat, NEW b \in Nat, a % PageCountInBlock = 0, b % PageCountInBlock = 0, a < b
  PROVE  a + PageCountInBlock <= b
<1>1. PageCountInBlock \in Nat \ {0} /\ (a + PageCountInBlock) % PageCountInBlock = 0
  BY NandAssumption, NextBlockAligned
<1>2. RoundUp(a + 1) = a + PageCountInBlock
  BY <1>1, RoundUpIs
<1>3. b < a + 1 + PageCountInBlock => RoundUp(a + 1) = b
  BY <1>1, RoundUpIs
<1>4. QED
  BY <1>1, <1>2, <1>3

(* A controller that is idle takes what it is sent.                        *)
LEMMA IdleAccepts ==
  ASSUME job = NoJob, NEW j, j.page \in PageNumbers, Command(j)
  PROVE  job' = j /\ nand' = nand /\ failed' = failed
BY DEF Command, Apply, NoJob

(* The NAND is what nothing has been written to before the first call.     *)
LEMMA ExactInit == Init => ExactInv
<1> SUFFICES ASSUME Init PROVE ExactInv
  OBVIOUS
<1>1. Written(0, 0) = nand /\ Cleared(0, 0) = nand
  BY NandAssumption, NothingYet DEF Init
<1>2. QED
  BY <1>1 DEF Init, ExactInv, WriteInv

(* Every step keeps the NAND exact, as long as nothing fails.              *)
LEMMA ExactStep == IInv /\ ExactInv /\ [Next]_vars => ExactInv'
<1> SUFFICES ASSUME IInv, ExactInv, [Next]_vars PROVE ExactInv'
  OBVIOUS
<1>0. /\ PageCountInBlock \in Nat \ {0} /\ NumPages \in Nat /\ Words \in Nat \ {0}
      /\ page \in Nat /\ start \in Nat /\ end \in Nat /\ end <= NumPages
      /\ pc \in Places /\ mode \in {"write", "erase"}
  BY NandAssumption DEF IInv, DataOK
<1>1. ASSUME NEW m \in {"write", "erase"}, NEW b \in 0 .. (NumPages \div Unit),
             NEW n \in Nat, Begin(m, b, n)
      PROVE  ExactInv'
  <2>1. /\ start' \in Nat /\ page' = start' /\ end' \in Nat /\ start' <= end' /\ pc' = "test"
        /\ job' = NoJob
    BY <1>1, NandAssumption DEF Begin
  <2>2. ASSUME Aligned'
        PROVE  nand' = Written(start', page') /\ nand' = Cleared(start', page')
    BY <1>1, <2>1, <2>2, NothingYet DEF Begin, Aligned
  <2>3. page' <= RoundUp(end')
    BY <1>0, <2>1, RoundUpBounds
  <2>4. QED
    BY <2>1, <2>2, <2>3 DEF ExactInv, WriteInv, EraseInv, Aligned
<1>2. CASE Stop
  BY <1>2 DEF Stop, ExactInv, WriteInv, EraseInv, Aligned, globals, call, controller
<1>3. CASE LoopEnds
  <2>1. ASSUME mode = "erase", Aligned, ~failed, ret' = 0
        PROVE  nand = Cleared(start, RoundUp(end))
    <3>1. end <= page /\ page <= RoundUp(end) /\ page % PageCountInBlock = 0
      BY <1>0, <1>3, <2>1 DEF LoopEnds, Return, ExactInv, EraseInv
    <3>2. RoundUp(end) = page
      BY <1>0, <3>1, RoundUpBounds, RoundUpIs
    <3>3. QED
      BY <1>3, <2>1, <3>2 DEF LoopEnds, ExactInv, EraseInv
  <2>2. QED
    BY <1>3, <2>1 DEF LoopEnds, Return, ExactInv, WriteInv, EraseInv, Aligned, globals, call,
                      controller
<1>4. CASE SendErase
  <2>1. page < end /\ page \in PageNumbers /\ (mode = "write" => page % PageCountInBlock = 0)
    BY <1>0, <1>4 DEF SendErase, EraseDue, PageNumbers
  <2>2. ASSUME ~failed
        PROVE  job' = EraseOf(page) /\ nand' = nand /\ failed' = failed
    <3>1. job = NoJob
      BY <1>4, <2>2 DEF SendErase, EraseDue, ExactInv
    <3>2. QED
      BY <1>4, <2>1, <3>1, IdleAccepts DEF SendErase, EraseOf
  <2>3. failed => failed'
    BY <1>4 DEF SendErase, Command
  <2>4. QED
    BY <1>4, <2>1, <2>2, <2>3, NoJobIsNone
       DEF SendErase, EraseDue, ExactInv, WriteInv, EraseInv, Aligned, call
<1>5. CASE NextPageWithoutErase
  <2>1. ASSUME Aligned, ~failed
        PROVE  ptr = 0 /\ nand = Opened(start, page)
    BY <1>0, <1>5, <2>1, OpenAlready
       DEF NextPageWithoutErase, ExactInv, WriteInv, Aligned
  <2>2. QED
    BY <1>0, <1>5, <2>1
       DEF NextPageWithoutErase, ExactInv, WriteInv, EraseInv, Aligned, globals, call, controller
<1>6. CASE PollAgain
  BY <1>6 DEF PollAgain, ExactInv, WriteInv, EraseInv, Aligned, globals, call, controller
<1>7. CASE EraseWaited
  <2>1. ~failed' => ~failed /\ job = NoJob
    BY <1>7 DEF EraseWaited, Waited
  <2>2. CASE mode = "write"
    BY <1>0, <1>7, <2>1, <2>2 DEF EraseWaited, ExactInv, WriteInv, EraseInv, Aligned, call
  <2>3. CASE mode = "erase"
    <3>1. page' = page + PageCountInBlock /\ pc' = "test"
      BY <1>7, <2>3 DEF EraseWaited
    <3>2. ASSUME Aligned, ~failed'
          PROVE  EraseInv'
      <4>1. page % PageCountInBlock = 0 /\ nand = Cleared(start, page')
        BY <1>7, <2>1, <2>3, <3>1, <3>2 DEF EraseWaited, ExactInv, EraseInv
      <4>2. page < end
        BY <1>7 DEF EraseWaited, IInv, RangeInv
      <4>3. page' <= RoundUp(end) /\ page' % PageCountInBlock = 0
        <5>1. /\ RoundUp(end) \in Nat /\ RoundUp(end) % PageCountInBlock = 0
              /\ end <= RoundUp(end)
          BY <1>0, RoundUpBounds
        <5>2. page < RoundUp(end)
          BY <1>0, <4>2, <5>1
        <5>3. QED
          BY <1>0, <3>1, <4>1, <5>1, <5>2, BlocksApart, NextBlockAligned
      <4>4. QED
        BY <1>7, <3>1, <4>1, <4>3 DEF EraseWaited, EraseInv, call
    <3>3. QED
      BY <1>7, <2>1, <2>3, <3>1, <3>2 DEF EraseWaited, ExactInv, Aligned, call
  <2>4. QED
    BY <1>0, <2>2, <2>3
<1>8. CASE Fill
  <2>1. ASSUME Aligned, mode = "write", ~failed
        PROVE  pc' = "execute" /\ buf' = Image(page - start) /\ nand = Opened(start, page)
    <3>1. len = Words /\ gWORDsLeft = Words /\ job = NoJob /\ ptr = 0 /\ nand = Opened(start, page)
      BY <1>0, <1>8, <2>1 DEF Fill, IInv, GlobalsInv, ExactInv, WriteInv
    <3>2. Minimum(len, gWORDsLeft) = Words
      BY <1>0, <3>1 DEF Minimum
    <3>3. Load(Words, page - start)
      BY <1>8, <3>2 DEF Fill
    <3>4. \A w \in 1 .. Words : w \in (ptr + 1) .. (ptr + Words) /\ w - ptr + (Words - len) = w
      BY <1>0, <3>1
    <3>5. buf' = Image(page - start)
      BY <3>1, <3>3, <3>4 DEF Load, Image
    <3>6. QED
      BY <1>8, <3>1, <3>2, <3>5 DEF Fill
  <2>2. mode = "write" /\ job' = job /\ failed' = failed
    BY <1>0, <1>8 DEF Fill, IInv, RangeInv
  <2>3. (pc' \in {"fill", "execute"}) /\ (~failed => job = NoJob)
    BY <1>8 DEF Fill, ExactInv
  <2>4. QED
    BY <1>8, <2>1, <2>2, <2>3 DEF Fill, ExactInv, WriteInv, EraseInv, Aligned, call
<1>9. CASE Execute
  <2>1. mode = "write" /\ page < end
    BY <1>0, <1>9 DEF Execute, IInv, RangeInv
  <2>2. failed => failed'
    BY <1>9 DEF Execute, Command
  <2>3. ASSUME Aligned, ~failed
        PROVE  /\ job' = ProgramOf(start, page) /\ nand' = nand /\ failed' = failed
               /\ nand = Opened(start, page)
    <3>1. job = NoJob /\ gNextBlock = page /\ buf = Image(page - start) /\ nand = Opened(start, page)
      BY <1>9, <2>1, <2>3 DEF Execute, IInv, GlobalsInv, ExactInv, WriteInv
    <3>2. page \in PageNumbers
      BY <1>0, <2>1 DEF PageNumbers
    <3>3. QED
      BY <1>9, <3>1, <3>2, IdleAccepts DEF Execute, ProgramOf
  <2>4. QED
    BY <1>9, <2>1, <2>2, <2>3, NoJobIsNone
       DEF Execute, ExactInv, WriteInv, EraseInv, Aligned, call, globals
<1>10. CASE ProgramWaited
  <2>1. mode = "write" /\ (~failed' => ~failed /\ job = NoJob)
    BY <1>0, <1>10 DEF ProgramWaited, Waited, IInv, RangeInv
  <2>2. Aligned => len = 0
    BY <1>10, <2>1 DEF ProgramWaited, IInv, GlobalsInv
  <2>3. QED
    BY <1>10, <2>1, <2>2 DEF ProgramWaited, ExactInv, WriteInv, EraseInv, Aligned, call
<1>11. CASE PageWritten
  <2>1. mode = "write"
    BY <1>0, <1>11 DEF PageWritten, IInv, RangeInv
  <2>2. QED
    BY <1>11, <2>1
       DEF PageWritten, ExactInv, WriteInv, EraseInv, Aligned, globals, call, controller
<1>12. CASE Lost
  BY <1>12 DEF Lost, ExactInv
<1>13. CASE JobDone
  <2>1. SUFFICES ASSUME ~failed', Aligned PROVE ExactInv'
    BY <1>13 DEF JobDone, ExactInv, Aligned, call
  <2>2. ~failed /\ nand' = Apply(job, nand) /\ pc \in {"eraseWait", "programWait"} /\ job # NoJob
    BY <1>0, <1>13, <2>1 DEF JobDone, ExactInv, Places
  <2>3. page \in PageNumbers /\ start <= page
    BY <1>0, <2>2 DEF IInv, RangeInv, PageNumbers
  <2>4. CASE mode = "write" /\ pc = "eraseWait"
    <3>1. job = EraseOf(page) /\ nand = Written(start, page) /\ page % PageCountInBlock = 0
      BY <2>1, <2>2, <2>4 DEF ExactInv, WriteInv
    <3>2. nand' = Opened(start, page)
      BY <1>0, <2>2, <3>1, EraseOpens
    <3>3. QED
      BY <1>13, <2>4, <3>1, <3>2 DEF JobDone, ExactInv, WriteInv, EraseInv, Aligned, call
  <2>5. CASE mode = "write" /\ pc = "programWait"
    <3>1. job = ProgramOf(start, page) /\ nand = Opened(start, page)
      BY <2>1, <2>2, <2>5 DEF ExactInv, WriteInv
    <3>2. nand' = Written(start, page + 1)
      BY <1>0, <2>2, <2>3, <3>1, ProgramWrites
    <3>3. QED
      BY <1>13, <2>5, <3>2 DEF JobDone, ExactInv, WriteInv, EraseInv, Aligned, call
  <2>6. CASE mode = "erase"
    <3>1. /\ pc = "eraseWait" /\ page % PageCountInBlock = 0 /\ page <= RoundUp(end)
          /\ job = EraseOf(page) /\ nand = Cleared(start, page)
      BY <2>1, <2>2, <2>6 DEF ExactInv, EraseInv, IInv, RangeInv
    <3>2. nand' = Cleared(start, page + PageCountInBlock)
      BY <1>0, <2>2, <2>3, <3>1, EraseClears
    <3>3. QED
      BY <1>13, <2>6, <3>1, <3>2 DEF JobDone, ExactInv, WriteInv, EraseInv, Aligned, call
  <2>7. QED
    BY <1>0, <2>2, <2>4, <2>5, <2>6
<1>14. CASE UNCHANGED vars
  BY <1>14 DEF vars, ExactInv, WriteInv, EraseInv, Aligned, globals, call, controller
<1>15. ImagePages \subseteq Nat /\ ErasePages \subseteq Nat
  BY NandAssumption
<1>16. QED
  BY <1>1, <1>2, <1>3, <1>4, <1>5, <1>6, <1>7, <1>8, <1>9, <1>10, <1>11, <1>12, <1>13, <1>14,
     <1>15 DEF Next, Starting, Driver

(* When nothing fails, a write that began on an erase block has left the   *)
(* image so far, the erased rest of a block and the old pages, and an      *)
(* erase that answers 0 has erased its range and the rest of its last      *)
(* block: for any calls before, and a stop at any page.                    *)
THEOREM RangeTheorem == Spec => []RangeIsExact
<1>1. ExactInv => RangeIsExact
  BY DEF ExactInv, RangeIsExact, WriteInv, EraseInv, Written, Cleared
<1>2. QED
  BY InitInvariant, StepInvariant, ExactInit, ExactStep, <1>1, PTL DEF Spec

-------------------------------------------------------------------------------
(* The types.                                                              *)

(* The pages the driver has yet to program before it is done with the one  *)
(* it is at: a page that begins with no word left programs the buffer      *)
(* first, once more than the page has need of.                             *)
ToProgram ==
  CASE pc = "test"                                       -> IF gWORDsLeft = 0 THEN 1 ELSE 0
    [] pc = "fill" /\ gWORDsLeft = 0 /\ len > 0           -> 2
    [] pc = "fill" /\ gWORDsLeft > 0 /\ len >= gWORDsLeft -> 1
    [] pc \in {"execute", "programWait"}                  -> IF len = Words THEN 2 ELSE 1
    [] OTHER                                              -> 0

(* The pages of the call that will then be done.                           *)
PagesDone == IF pc = "test" THEN page - start ELSE page + 1 - start

(* A call in the middle of an erase block pushes gNextBlock on by no more  *)
(* than a page for each of its own, and one.                               *)
PagesInv ==
  mode = "write" /\ pc # "idle" =>
    /\ page <= end
    /\ pc = "eraseWait" => gNextBlock = page
    /\ pc = "fill" /\ len = 0 => gWORDsLeft > 0
    /\ pc \in {"execute", "programWait"} => gWORDsLeft = 0
    /\ pc # "eraseWait" /\ ~(pc = "test" /\ page = start /\ Aligned) =>
         gNextBlock + ToProgram <= NumPages + 1 + PagesDone

(* The parts of the type invariant.                                        *)
CountsOK ==
  /\ gNextBlock \in 0 .. 2 * NumPages + 1 /\ gWORDsLeft \in 0 .. Words
  /\ start \in 0 .. NumPages
  /\ len \in 0 .. Words /\ polls \in 0 .. PollLimit /\ ptr \in 0 .. Words
FlagsOK ==
  /\ stop \in BOOLEAN /\ failed \in BOOLEAN
  /\ ret \in {-1, 0, 1}
WordsOK ==
  /\ \A w \in 1 .. Words : buf[w] \in Cells
  /\ \A p \in PageNumbers : \A w \in 1 .. Words : nand[p][w] \in Cells
  /\ job # NoJob /\ job.op = "program" => \A w \in 1 .. Words : job.words[w] \in Cells

TypeInv == CountsOK /\ FlagsOK /\ WordsOK /\ PagesInv

(* The values before the first call.                                       *)
LEMMA InitType == Init => TypeInv
<1> SUFFICES ASSUME Init PROVE TypeInv
  OBVIOUS
<1>1. CountsOK /\ PagesInv
  BY NandAssumption DEF Init, CountsOK, PagesInv
<1>2. FlagsOK
  BY Zenon DEF Init, FlagsOK
<1>3. WordsOK
  BY DEF Init, WordsOK, Old, Cells
<1>4. QED
  BY <1>1, <1>2, <1>3 DEF TypeInv

(* The flags.                                                              *)
LEMMA StepFlags == FlagsOK /\ [Next]_vars => FlagsOK'
<1> SUFFICES ASSUME FlagsOK, [Next]_vars PROVE FlagsOK'
  OBVIOUS
<1> USE DEF FlagsOK
<1>1. ASSUME NEW m, NEW b, NEW n, Begin(m, b, n) PROVE FlagsOK'
  BY <1>1 DEF Begin
<1>2. CASE Stop \/ NextPageWithoutErase \/ PollAgain \/ Fill \/ PageWritten \/ UNCHANGED vars
  BY <1>2 DEF Stop, NextPageWithoutErase, PollAgain, Fill, PageWritten, vars
<1>3. CASE LoopEnds \/ Lost
  BY <1>3 DEF LoopEnds, Lost, Return
<1>4. CASE SendErase \/ Execute
  BY <1>4 DEF SendErase, Execute, Command
<1>5. CASE EraseWaited \/ ProgramWaited
  <2>1. failed' = (failed \/ job # NoJob)
    BY <1>5 DEF EraseWaited, ProgramWaited, Waited
  <2>2. failed' \in BOOLEAN
    BY <2>1, Zenon
  <2>3. QED
    BY <1>5, <2>2 DEF EraseWaited, ProgramWaited
<1>6. CASE JobDone
  BY <1>6 DEF JobDone
<1>7. QED
  BY <1>1, <1>2, <1>3, <1>4, <1>5, <1>6 DEF Next, Starting, Driver

(* The words a command leaves on the NAND, or spoils it with.              *)
LEMMA CommandWords ==
  ASSUME DataOK, JobInv, WordsOK, NEW n, n \in {nand, Apply(job, nand), Spoil(job, nand)}
  PROVE  \A p \in PageNumbers : \A w \in 1 .. Words : n[p][w] \in Cells
<1>1. \A w \in 1 .. Words : Erased[w] \in Cells /\ Garbled[w] \in Cells
  BY DEF Erased, Garbled, Cells
<1>2. \A p \in PageNumbers : \A w \in 1 .. Words : nand[p][w] \in Cells
  BY DEF WordsOK
<1>3. CASE job = NoJob
  BY <1>2, <1>3 DEF NoJob, Apply, Spoil
<1>4. CASE job # NoJob /\ job.op = "erase"
  BY <1>1, <1>2, <1>4 DEF Apply, Spoil
<1>5. CASE job # NoJob /\ job.op = "program"
  <2>1. \A w \in 1 .. Words : job.words[w] \in Cells
    BY <1>5 DEF WordsOK
  <2>2. job.page \in PageNumbers /\ nand = [p \in PageNumbers |-> nand[p]]
    BY <1>5 DEF JobInv, DataOK
  <2>3. ASSUME NEW p \in PageNumbers
        PROVE  n[p] \in {nand[p], job.words, Garbled}
    BY <1>5, <2>2 DEF Apply, Spoil
  <2>4. QED
    BY <1>1, <1>2, <2>1, <2>3
<1>6. QED
  BY <1>3, <1>4, <1>5 DEF JobInv

(* So a new command leaves words of the image, old ones and none.          *)
LEMMA CommandKeepsWords ==
  ASSUME DataOK, JobInv, WordsOK, NEW j, Command(j), UNCHANGED buf,
         j.op = "program" => \A w \in 1 .. Words : j.words[w] \in Cells
  PROVE  WordsOK'
<1>1. nand' \in {nand, Apply(job, nand)} /\ job' \in {job, j}
  BY DEF Command
<1>2. \A p \in PageNumbers : \A w \in 1 .. Words : nand'[p][w] \in Cells
  BY <1>1, CommandWords
<1>3. QED
  BY <1>1, <1>2 DEF WordsOK

(* The words.                                                              *)
LEMMA StepWords == IInv /\ CountsOK /\ WordsOK /\ PagesInv /\ [Next]_vars => WordsOK'
<1> SUFFICES ASSUME IInv, CountsOK, WordsOK, PagesInv, [Next]_vars PROVE WordsOK'
  OBVIOUS
<1>0. DataOK /\ JobInv /\ RangeInv
  BY DEF IInv
<1>1. ASSUME NEW m, NEW b, NEW n, Begin(m, b, n) PROVE WordsOK'
  BY <1>1 DEF Begin, WordsOK, NoJob, Old, Cells
<1>2. ASSUME UNCHANGED <<buf, job, nand>> PROVE WordsOK'
  BY <1>2 DEF WordsOK
<1>3. CASE Stop \/ LoopEnds \/ NextPageWithoutErase \/ PollAgain \/ EraseWaited
  BY <1>2, <1>3 DEF Stop, LoopEnds, NextPageWithoutErase, PollAgain, EraseWaited, controller
<1>4. CASE ProgramWaited \/ PageWritten \/ Lost \/ UNCHANGED vars
  BY <1>2, <1>4 DEF ProgramWaited, PageWritten, Lost, vars, controller
<1>5. CASE SendErase
  <2> DEFINE j == [op |-> "erase", page |-> page]
  <2>1. j.op # "program"
    OBVIOUS
  <2>2. Command(j) /\ UNCHANGED buf
    BY <1>5 DEF SendErase
  <2>3. QED
    BY <1>0, <2>1, <2>2, CommandKeepsWords
<1>6. CASE Execute
  <2> DEFINE j == [op |-> "program", page |-> gNextBlock, words |-> buf]
  <2>1. j.words = buf
    OBVIOUS
  <2>2. Command(j) /\ UNCHANGED buf
    BY <1>6 DEF Execute
  <2>3. \A w \in 1 .. Words : j.words[w] \in Cells
    BY <2>1 DEF WordsOK
  <2>4. QED
    BY <1>0, <2>2, <2>3, CommandKeepsWords
<1>7. CASE Fill
  <2> DEFINE n == Minimum(len, gWORDsLeft)
             k == page - start
  <2>1. /\ Words \in Nat /\ len \in 0 .. Words /\ gWORDsLeft \in 0 .. Words /\ ptr \in 0 .. Words
        /\ n \in 0 .. len
    BY NandAssumption DEF CountsOK, Minimum
  <2>2. k \in PageNumbers
    BY <1>0, <1>7, NandAssumption DEF Fill, DataOK, RangeInv, PageNumbers
  <2>3. UNCHANGED <<job, nand>> /\ Load(n, k)
    BY <1>7 DEF Fill
  <2>4. PICK ok \in BOOLEAN :
          buf' = [w \in 1 .. Words |->
                    IF w \in (ptr + 1) .. (ptr + n)
                    THEN IF ok THEN Word(k, w - ptr + (Words - len)) ELSE Junk
                    ELSE buf[w]]
    BY <2>3 DEF Load
  <2>5. ASSUME NEW w \in 1 .. Words PROVE buf'[w] \in Cells
    <3>1. CASE w \in (ptr + 1) .. (ptr + n) /\ ok
      <4>1. w - ptr + (Words - len) \in 1 .. Words
        BY <2>1, <3>1
      <4>2. buf'[w] = Word(k, w - ptr + (Words - len))
        BY <2>4, <3>1
      <4>3. QED
        BY <2>2, <4>1, <4>2 DEF Cells
    <3>2. CASE w \in (ptr + 1) .. (ptr + n) /\ ~ok
      BY <2>4, <3>2 DEF Cells
    <3>3. CASE w \notin (ptr + 1) .. (ptr + n)
      BY <2>4, <3>3 DEF WordsOK
    <3>4. QED
      BY <3>1, <3>2, <3>3
  <2>6. QED
    BY <2>3, <2>5 DEF WordsOK
<1>8. CASE JobDone
  <2>1. nand' \in {Apply(job, nand), Spoil(job, nand)} /\ job' = NoJob /\ buf' = buf
    BY <1>8 DEF JobDone
  <2>2. \A p \in PageNumbers : \A w \in 1 .. Words : nand'[p][w] \in Cells
    BY <1>0, <2>1, CommandWords
  <2>3. QED
    BY <2>1, <2>2 DEF WordsOK
<1>9. QED
  BY <1>1, <1>3, <1>4, <1>5, <1>6, <1>7, <1>8 DEF Next, Starting, Driver

(* The counters and pages.                                                 *)
LEMMA StepPages == IInv /\ CountsOK /\ PagesInv /\ [Next]_vars => CountsOK' /\ PagesInv'
<1> SUFFICES ASSUME IInv, CountsOK, PagesInv, [Next]_vars PROVE CountsOK' /\ PagesInv'
  OBVIOUS
<1>0. /\ DataOK /\ RangeInv
      /\ NumPages \in Nat /\ Words \in Nat \ {0} /\ PollLimit \in Nat
  BY NandAssumption DEF IInv
<1> USE <1>0 DEF CountsOK, PagesInv, DataOK, RangeInv, ToProgram, PagesDone, Aligned,
                 globals, call, controller
<1>1. ASSUME NEW m \in {"write", "erase"}, NEW b \in 0 .. (NumPages \div Unit),
             NEW n \in Nat, Begin(m, b, n)
      PROVE  CountsOK' /\ PagesInv'
  <2>1. b * Unit \in Nat /\ b * Unit + n <= NumPages
    BY <1>1, NandAssumption DEF Begin
  <2>2. pc' = "test" /\ page' = b * Unit /\ start' = b * Unit /\ end' = b * Unit + n
        /\ (start' % PageCountInBlock # 0 => gNextBlock <= NumPages)
        /\ UNCHANGED <<gNextBlock, gWORDsLeft, ptr>> /\ len' = 0 /\ polls' = 0
    BY <1>1 DEF Begin
  <2>3. QED
    BY <2>1, <2>2
<1>2. CASE Stop \/ LoopEnds \/ JobDone \/ UNCHANGED vars
  BY <1>2 DEF Stop, LoopEnds, JobDone, Return, vars
<1>3. CASE SendErase
  BY <1>3 DEF SendErase, EraseDue
<1>4. CASE NextPageWithoutErase
  BY <1>4 DEF NextPageWithoutErase
<1>5. CASE PollAgain
  BY <1>5 DEF PollAgain
<1>6. CASE EraseWaited
  BY <1>6 DEF EraseWaited
<1>7. CASE Fill
  <2> DEFINE n == Minimum(len, gWORDsLeft)
  <2>1. n \in Nat /\ n <= len /\ n <= gWORDsLeft /\ (n = len \/ n = gWORDsLeft)
    BY DEF Minimum
  <2>2. /\ len' = len - n /\ gWORDsLeft' = gWORDsLeft - n
        /\ pc' = IF gWORDsLeft = n THEN "execute" ELSE "fill"
        /\ ptr' = Minimum(ptr + n, Words)
    BY <1>7 DEF Fill, Load
  <2>3. pc = "fill" /\ len > 0 /\ UNCHANGED <<gNextBlock, call, page, polls>>
    BY <1>7 DEF Fill
  <2> HIDE DEF n
  <2>4. CountsOK'
    BY <2>1, <2>2, <2>3 DEF Minimum
  <2>5. SUFFICES ASSUME mode = "write" PROVE PagesInv'
    BY <2>3, <2>4
  <2>6. page <= end /\ gNextBlock + ToProgram <= NumPages + 1 + (page + 1 - start)
    BY <2>3, <2>5
  <2>7. ToProgram' <= ToProgram
    <3>1. CASE n = gWORDsLeft
      <4>1. pc' = "execute" /\ len' = len - gWORDsLeft
        BY <2>2, <3>1
      <4>2. ToProgram' = IF len' = Words THEN 2 ELSE 1
        BY <4>1
      <4>3. CASE gWORDsLeft = 0
        BY <2>3, <4>2, <4>3
      <4>4. CASE gWORDsLeft # 0
        <5>1. len >= gWORDsLeft
          BY <2>1, <3>1
        <5>2. ToProgram = 1
          BY <2>3, <4>4, <5>1
        <5>3. len' # Words
          BY <4>1, <4>4
        <5>4. QED
          BY <4>2, <5>2, <5>3
      <4>5. QED
        BY <4>3, <4>4
    <3>2. CASE n = len /\ n # gWORDsLeft
      BY <2>1, <2>2, <2>3, <3>2
    <3>3. QED
      BY <2>1, <3>1, <3>2
  <2>8. ToProgram \in Nat /\ ToProgram' \in Nat
    OBVIOUS
  <2>9. PagesDone' = page + 1 - start
    BY <2>2, <2>3
  <2>10. len' = 0 /\ pc' = "fill" => gWORDsLeft' > 0
    BY <2>1, <2>2
  <2>11. pc' = "execute" => gWORDsLeft' = 0
    BY <2>1, <2>2
  <2> HIDE DEF ToProgram, PagesDone
  <2>12. gNextBlock' + ToProgram' <= NumPages + 1 + PagesDone'
    BY <2>3, <2>6, <2>7, <2>8, <2>9
  <2>13. pc' \in {"fill", "execute"} /\ page' <= end'
    BY <2>2, <2>3, <2>6
  <2>14. QED
    BY <2>10, <2>11, <2>12, <2>13 DEF PagesInv
<1>8. CASE Execute
  BY <1>8 DEF Execute
<1>9. CASE ProgramWaited
  BY <1>9 DEF ProgramWaited
<1>10. CASE PageWritten
  BY <1>10 DEF PageWritten
<1>11. CASE Lost
  BY <1>11 DEF Lost, EraseDue, Return
<1>12. ImagePages \subseteq Nat /\ ErasePages \subseteq Nat
  BY NandAssumption
<1>13. QED
  BY <1>1, <1>2, <1>3, <1>4, <1>5, <1>6, <1>7, <1>8, <1>9, <1>10, <1>11, <1>12
     DEF Next, Starting, Driver

(* The type invariant: the counters of words stay within a page, nothing   *)
(* but words of an image, old ones and none reaches the NAND, and no call  *)
(* pushes gNextBlock further past the NAND than its own pages and one.     *)
THEOREM TypeTheorem == Spec => []TypeOK
<1>1. IInv /\ TypeInv /\ [Next]_vars => TypeInv'
  BY StepFlags, StepWords, StepPages DEF TypeInv
<1>2. IInv /\ TypeInv => TypeOK
  BY DEF IInv, DataOK, JobInv, Places, TypeInv, CountsOK, FlagsOK, WordsOK, TypeOK
<1>3. QED
  BY InitInvariant, StepInvariant, InitType, <1>1, <1>2, PTL DEF Spec

===============================================================================
