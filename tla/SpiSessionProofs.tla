--------------------------- MODULE SpiSessionProofs ---------------------------
(***************************************************************************)
(* What spi() promises, for every number of threads, of pages and of       *)
(* calls.  The invariant follows the worker: which pages are done at each  *)
(* place of spi(), and at which places the flag stop says what the history *)
(* variable asked says.                                                    *)
(***************************************************************************)
EXTENDS SpiSession, TLAPS

Setup  == {"resetBlock", "resetStop", "init", "identify", "openFile"}
Paging == {"test", "page", "finish"}

(* Where the branches on the mode can have led.                            *)
ModeInv ==
  /\ pc = "openFile" => mode \in ReadModes \cup WriteModes
  /\ pc \in {"start", "firstPage", "save"} \cup Paging => mode \in Jobs
  /\ pc = "save" => mode \in ReadModes

(* What the range of the call is.                                          *)
RangeInv ==
  /\ pc \in Setup => todo = {}
  /\ pc \in {"start", "firstPage", "save"} \cup Paging =>
       /\ todo = StartBlock .. (End_Block - 1)
       /\ mode \in ReadModes => End_Block = block_flash_max

(* How far the loop has come.                                              *)
CoverInv ==
  /\ pc \in Setup \cup {"start", "firstPage"} => worked = {}
  /\ pc \in Paging =>
       /\ block_flash >= StartBlock
       /\ worked = StartBlock .. (Minimum(block_flash, End_Block) - 1)
  /\ pc = "page" => block_flash < End_Block
  /\ pc = "finish" /\ ~stop => block_flash >= End_Block
  /\ pc = "save" => worked = todo

(* Between the reset of stop and its last test, stop tells of this call.   *)
StopInv ==
  /\ pc \in {"resetBlock", "resetStop", "save"} => ~asked
  /\ mode \notin Jobs => ~asked
  /\ pc \in {"init", "identify", "openFile", "start", "firstPage"} \cup Paging /\ mode \in Jobs =>
       (asked <=> stop)

AnswerInv ==
  /\ SuccessIsComplete
  /\ CancelledIffAsked
  /\ ErrorsTouchNothing
  /\ ReleasedOnReturn

IInv == TypeOK /\ ModeInv /\ RangeInv /\ CoverInv /\ StopInv /\ AnswerInv

USE DEF Locations, Codes, Threw, NotCalled, Modes, NoMode, ReadModes, WriteModes, Erase,
        ConfigOnly, Jobs, Returned

-------------------------------------------------------------------------------
(* Quotients.                                                              *)

(* Division is monotonic.                                                  *)
LEMMA QuotientAtLeast ==
  ASSUME NEW a \in Nat, NEW b \in Nat, NEW k \in Nat \ {0}, k * b <= a
  PROVE  b <= a \div k
<1> DEFINE d == a \div k
<1>1. d \in Nat /\ a < k * d + k
  OBVIOUS
<1>2. ASSUME d + 1 <= b PROVE FALSE
  <2>1. PICK x \in Nat : b = d + 1 + x
    <3>1. b - (d + 1) \in Nat /\ b = d + 1 + (b - (d + 1))
      BY <1>1, <1>2
    <3>2. QED
      BY <3>1
  <2>2. k * b = k * d + k + k * x
    BY <1>1, <2>1
  <2>3. k * x \in Nat /\ k * d \in Nat /\ k * b \in Nat
    BY <1>1, <2>1
  <2>4. QED
    BY <1>1, <2>2, <2>3
<1>3. QED
  BY <1>1, <1>2

-------------------------------------------------------------------------------
(* Arithmetic.                                                             *)

(* The page number a call starts at, and the one it stops before, are      *)
(* natural numbers whatever length the caller passes.                      *)
LEMMA PageNumbers ==
  ASSUME NEW s \in Starts, NEW n \in Lengths, NEW sz \in Sizes
  PROVE  s * Unit \in Nat /\ Limit(s, n, sz) \in Nat
<1>1. s \in Nat /\ n \in Int /\ sz \in Nat /\ Unit \in Nat /\ PagesPerMB \in Nat
  BY ConstantsAssumption
<1>2. s * Unit \in Nat /\ PagesPerMB * sz \in Nat
  BY <1>1
<1>3. n > 0 => n * Unit \in Nat
  BY <1>1
<1>4. QED
  BY <1>1, <1>2, <1>3 DEF Limit

(* A page number of the GUI's blocks is a natural number, and its block    *)
(* begins no later than the page.                                          *)
LEMMA BlockOfPage ==
  ASSUME NEW p \in Nat
  PROVE  p \div Unit \in Nat /\ (p \div Unit) * Unit <= p
<1>1. Unit \in Nat /\ Unit > 0
  BY ConstantsAssumption
<1>2. QED
  BY <1>1

(* The pages of a range are page numbers.                                  *)
LEMMA RangeOfPages ==
  ASSUME NEW a \in Nat, NEW b \in Nat
  PROVE  (a .. (b - 1)) \in SUBSET Nat
<1>1. \A p \in a .. (b - 1) : p \in Nat
  OBVIOUS
<1>2. QED
  BY <1>1

(* Before its first page the loop has covered nothing.                     *)
LEMMA CoverOfNone ==
  ASSUME NEW a \in Nat, NEW e \in Nat
  PROVE  a .. (Minimum(a, e) - 1) = {}
BY DEF Minimum

(* One more step of the loop extends the covered range by its pages.       *)
LEMMA CoverOfMore ==
  ASSUME NEW a \in Nat, NEW b \in Nat, NEW c \in Nat, NEW e \in Nat, a <= b, b < e, b <= c
  PROVE  (a .. (Minimum(b, e) - 1)) \cup (b .. (Minimum(c, e) - 1)) = a .. (Minimum(c, e) - 1)
BY DEF Minimum

(* The covered range is part of the whole one.                             *)
LEMMA CoverIsPart ==
  ASSUME NEW a \in Nat, NEW b \in Nat, NEW e \in Nat
  PROVE  a .. (Minimum(b, e) - 1) \subseteq a .. (e - 1)
BY DEF Minimum

(* At the end of the loop the covered range is the whole one.              *)
LEMMA CoverOfAll ==
  ASSUME NEW a \in Nat, NEW b \in Nat, NEW e \in Nat, b >= e
  PROVE  a .. (Minimum(b, e) - 1) = a .. (e - 1)
BY DEF Minimum

-------------------------------------------------------------------------------
(* The variables keep their types.                                         *)

(* The initial values of the globals and of the worker are of their types. *)
LEMMA InitTyped == Init => TypeOK
<1> SUFFICES ASSUME Init PROVE TypeOK
  OBVIOUS
<1>1. FlagsOK
  BY DEF Init, FlagsOK
<1>2. QED
  BY <1>1 DEF Init, TypeOK

(* No step of the worker, of a GUI thread or of the disk breaks a type.    *)
LEMMA StepTyped == TypeOK /\ [Next]_vars => TypeOK'
<1> SUFFICES ASSUME TypeOK, [Next]_vars PROVE TypeOK'
  OBVIOUS
<1> USE DEF TypeOK, shared, job, loop, owned, ledger, uiState
<1>1. ASSUME NEW m \in Modes, NEW s \in Starts, NEW n \in Lengths, NEW sz \in Sizes,
             Call(m, s, n, sz)
      PROVE  TypeOK'
  <2>1. s * Unit \in Nat /\ Limit(s, n, sz) \in Nat
    BY PageNumbers
  <2>2. FlagsOK'
    BY <1>1 DEF FlagsOK, Call
  <2>3. QED
    BY <1>1, <2>1, <2>2 DEF Call
<1>2. CASE ResetBlock
  <2>1. FlagsOK'
    BY <1>2 DEF FlagsOK, ResetBlock
  <2>2. QED
    BY <1>2, <2>1 DEF ResetBlock
<1>3. CASE ResetStop
  <2>1. FlagsOK'
    BY <1>3 DEF FlagsOK, ResetStop
  <2>2. QED
    BY <1>3, <2>1 DEF ResetStop
<1>4. CASE InitDevice
  <2>1. FlagsOK'
    BY <1>4 DEF FlagsOK, InitDevice, Return
  <2>2. QED
    BY <1>4, <2>1 DEF InitDevice, Return
<1>5. CASE Identify
  <2>1. FlagsOK'
    BY <1>5 DEF FlagsOK, Identify, Return, Throw
  <2>2. (todo \in SUBSET Nat)'
    <3>1. (StartBlock .. (block_flash_max - 1)) \in SUBSET Nat
      BY RangeOfPages
    <3>2. QED
      BY <1>5, <3>1 DEF Identify
  <2>3. (/\ pc \in Locations /\ ret \in Codes
         /\ held \in SUBSET {"file", "buffer"})'
    BY <1>5 DEF Identify, Return, Throw
  <2>4. (End_Block \in Nat /\ step \in Nat \ {0} /\ saved \in Nat)'
    BY ConstantsAssumption, <1>5 DEF Identify, Return, Throw
  <2>5. QED
    BY <1>5, <2>1, <2>2, <2>3, <2>4 DEF Identify
<1>6. CASE OpenForWrite
  <2>1. FlagsOK'
    BY <1>6 DEF FlagsOK, OpenForWrite, Return
  <2>2. (todo \in SUBSET Nat)'
    <3>1. ASSUME NEW f \in FilePages
          PROVE  (StartBlock .. (Minimum(block_flash_max, f) - 1)) \in SUBSET Nat
      <4>1. Minimum(block_flash_max, f) \in Nat
        BY ConstantsAssumption DEF Minimum
      <4>2. QED
        BY <4>1, RangeOfPages
    <3>2. QED
      BY <1>6, <3>1 DEF OpenForWrite
  <2>3. (/\ pc \in Locations /\ ret \in Codes
         /\ held \in SUBSET {"file", "buffer"})'
    BY <1>6 DEF OpenForWrite, Return, Minimum
  <2>4. (End_Block \in Nat /\ step \in Nat \ {0} /\ saved \in Nat)'
    BY ConstantsAssumption, <1>6 DEF OpenForWrite, Return, Minimum
  <2>5. QED
    BY <1>6, <2>1, <2>2, <2>3, <2>4 DEF OpenForWrite
<1>7. CASE OpenForRead
  <2>1. FlagsOK'
    BY <1>7 DEF FlagsOK, OpenForRead, Return
  <2>2. (todo \in SUBSET Nat)'
    <3>1. (StartBlock .. (block_flash_max - 1)) \in SUBSET Nat
      BY RangeOfPages
    <3>2. QED
      BY <1>7, <3>1 DEF OpenForRead
  <2>3. (/\ pc \in Locations /\ ret \in Codes
         /\ held \in SUBSET {"file", "buffer"})'
    BY <1>7 DEF OpenForRead, Return
  <2>4. (End_Block \in Nat /\ step \in Nat \ {0} /\ saved \in Nat)'
    BY ConstantsAssumption, <1>7 DEF OpenForRead, Return
  <2>5. QED
    BY <1>7, <2>1, <2>2, <2>3, <2>4 DEF OpenForRead
<1>8. CASE MarkStarted
  <2>1. FlagsOK'
    BY <1>8 DEF FlagsOK, MarkStarted
  <2>2. QED
    BY <1>8, <2>1 DEF MarkStarted
<1>9. CASE FirstPage
  <2>1. FlagsOK'
    BY <1>9 DEF FlagsOK, FirstPage
  <2>2. QED
    BY <1>9, <2>1 DEF FirstPage
<1>10. CASE LoopTest
  <2>1. FlagsOK'
    BY <1>10 DEF FlagsOK, LoopTest
  <2>2. QED
    BY <1>10, <2>1 DEF LoopTest
<1>11. CASE PageDone
  <2>1. FlagsOK'
    BY <1>11 DEF FlagsOK, PageDone
  <2>2. QED
    BY <1>11, <2>1 DEF PageDone, Minimum
<1>12. CASE PageThrows
  <2>1. FlagsOK'
    BY <1>12 DEF FlagsOK, PageThrows, Throw
  <2>2. QED
    BY <1>12, <2>1 DEF PageThrows, Throw
<1>13. CASE FinishEraseOrWrite
  <2>1. FlagsOK'
    BY <1>13 DEF FlagsOK, FinishEraseOrWrite, Return
  <2>2. QED
    BY <1>13, <2>1 DEF FinishEraseOrWrite, Return
<1>14. CASE FinishRead
  <2>1. FlagsOK'
    BY <1>14 DEF FlagsOK, FinishRead, Return
  <2>2. QED
    BY <1>14, <2>1 DEF FinishRead, Return
<1>15. CASE SavePage
  <2>1. FlagsOK'
    BY <1>15 DEF FlagsOK, SavePage
  <2>2. QED
    BY <1>15, <2>1 DEF SavePage
<1>16. CASE SaveDone
  <2>1. FlagsOK'
    BY <1>16 DEF FlagsOK, SaveDone, Return
  <2>2. QED
    BY <1>16, <2>1 DEF SaveDone, Return
<1>17. ASSUME NEW u \in UIThreads, StopTest(u) PROVE TypeOK'
  <2>1. FlagsOK'
    BY <1>17 DEF FlagsOK, StopTest, worker
  <2>2. QED
    BY <1>17, <2>1 DEF StopTest, worker
<1>18. ASSUME NEW u \in UIThreads, StopSet(u) PROVE TypeOK'
  <2>1. FlagsOK'
    BY <1>18 DEF FlagsOK, StopSet, worker
  <2>2. QED
    BY <1>18, <2>1 DEF StopSet, worker
<1>19. ASSUME NEW u \in UIThreads, PollTest(u) PROVE TypeOK'
  <2>1. FlagsOK'
    BY <1>19 DEF FlagsOK, PollTest, worker
  <2>2. QED
    BY <1>19, <2>1 DEF PollTest, worker
<1>20. ASSUME NEW u \in UIThreads, PollRead(u) PROVE TypeOK'
  <2>1. FlagsOK'
    BY <1>20 DEF FlagsOK, PollRead, worker
  <2>2. QED
    BY BlockOfPage, <1>20, <2>1 DEF PollRead, worker
<1>21. CASE DiskChanges
  <2>1. FlagsOK'
    BY <1>21 DEF FlagsOK, DiskChanges, worker
  <2>2. QED
    BY <1>21, <2>1 DEF DiskChanges, worker
<1>22. CASE UNCHANGED vars
  <2>1. FlagsOK'
    BY <1>22 DEF FlagsOK, vars
  <2>2. QED
    BY <1>22, <2>1 DEF vars
<1>23. QED
  BY <1>1, <1>2, <1>3, <1>4, <1>5, <1>6, <1>7, <1>8, <1>9, <1>10, <1>11, <1>12, <1>13, <1>14, <1>15, <1>16, <1>17, <1>18, <1>19, <1>20, <1>21, <1>22
     DEF Next, NewCall, Worker, Environment

(* The types of the variables hold in every reachable state; that the      *)
(* unsigned counters of spi() stay natural numbers is part of it.          *)
THEOREM TypesHold == Spec => []TypeOK
<1>1. QED
  BY InitTyped, StepTyped, PTL DEF Spec

-------------------------------------------------------------------------------
(* The invariant.                                                          *)

(* The invariant holds before the first call.                              *)
LEMMA InitInvariant == Init => IInv
<1> SUFFICES ASSUME Init PROVE IInv
  OBVIOUS
<1>1. TypeOK
  BY InitTyped
<1>2. QED
  BY <1>1 DEF Init, IInv, ModeInv, RangeInv, CoverInv, StopInv, AnswerInv, Setup, Paging,
              SuccessIsComplete, CancelledIffAsked, ErrorsTouchNothing, ReleasedOnReturn

(* Every step of the worker and of the GUI threads keeps the invariant.    *)
LEMMA StepInvariant == IInv /\ [Next]_vars => IInv'
<1> SUFFICES ASSUME IInv, [Next]_vars PROVE IInv'
  OBVIOUS
<1>t. TypeOK /\ TypeOK'
  BY StepTyped DEF IInv
<1>n. block_flash \in Nat /\ StartBlock \in Nat /\ End_Block \in Nat /\ step \in Nat
  BY <1>t DEF TypeOK
<1> USE DEF IInv, ModeInv, RangeInv, CoverInv, StopInv, AnswerInv, Setup, Paging,
            SuccessIsComplete, CancelledIffAsked, ErrorsTouchNothing, ReleasedOnReturn,
            shared, job, loop, owned, ledger, uiState
<1>1. ASSUME NEW m \in Modes, NEW s \in Starts, NEW n \in Lengths, NEW sz \in Sizes,
             Call(m, s, n, sz)
      PROVE  IInv'
  BY <1>t, <1>1 DEF Call
<1>2. CASE ResetBlock
  BY <1>t, <1>n, <1>2 DEF ResetBlock
<1>3. CASE ResetStop
  BY <1>t, <1>n, <1>3 DEF ResetStop
<1>4. CASE InitDevice
  BY <1>t, <1>n, <1>4 DEF InitDevice, Return
<1>5. CASE Identify
  <2>1. (ModeInv /\ RangeInv /\ CoverInv /\ StopInv)'
    BY <1>t, <1>n, <1>5 DEF Identify, Return, Throw
  <2>2. SuccessIsComplete'
    BY <1>t, <1>n, <1>5 DEF Identify, Return, Throw
  <2>3. CancelledIffAsked'
    BY <1>t, <1>n, <1>5 DEF Identify, Return, Throw
  <2>4. (ErrorsTouchNothing /\ ReleasedOnReturn)'
    BY <1>t, <1>n, <1>5 DEF Identify, Return, Throw
  <2>5. QED
    BY <1>t, <2>1, <2>2, <2>3, <2>4
<1>6. CASE OpenForWrite
  <2>1. (ModeInv /\ RangeInv /\ CoverInv /\ StopInv)'
    BY <1>t, <1>n, <1>6 DEF OpenForWrite, Return
  <2>2. (SuccessIsComplete /\ CancelledIffAsked)'
    BY <1>t, <1>n, <1>6 DEF OpenForWrite, Return
  <2>3. (ErrorsTouchNothing /\ ReleasedOnReturn)'
    BY <1>t, <1>n, <1>6 DEF OpenForWrite, Return
  <2>4. QED
    BY <1>t, <2>1, <2>2, <2>3
<1>7. CASE OpenForRead
  <2>1. (ModeInv /\ RangeInv /\ CoverInv /\ StopInv)'
    BY <1>t, <1>n, <1>7 DEF OpenForRead, Return
  <2>2. (SuccessIsComplete /\ CancelledIffAsked)'
    BY <1>t, <1>n, <1>7 DEF OpenForRead, Return
  <2>3. (ErrorsTouchNothing /\ ReleasedOnReturn)'
    BY <1>t, <1>n, <1>7 DEF OpenForRead, Return
  <2>4. QED
    BY <1>t, <2>1, <2>2, <2>3
<1>8. CASE MarkStarted
  BY <1>t, <1>n, <1>8 DEF MarkStarted
<1>9. CASE FirstPage
  <2>1. StartBlock .. (Minimum(StartBlock, End_Block) - 1) = {}
    BY <1>n, CoverOfNone
  <2>2. worked' = StartBlock .. (Minimum(block_flash', End_Block') - 1)
    BY <1>9, <2>1 DEF FirstPage
  <2>3. QED
    BY <1>t, <1>n, <1>9, <2>2 DEF FirstPage
<1>10. CASE LoopTest
  BY <1>t, <1>n, <1>10 DEF LoopTest
<1>11. CASE PageDone
  <2>1. block_flash >= StartBlock /\ block_flash < End_Block
    BY <1>n, <1>11 DEF PageDone
  <2>2. worked' = StartBlock .. (Minimum(block_flash', End_Block') - 1)
    <3>1. worked = StartBlock .. (Minimum(block_flash, End_Block) - 1)
      BY <1>11 DEF PageDone
    <3>2. /\ StartBlock <= block_flash
          /\ block_flash + step \in Nat /\ block_flash <= block_flash + step
      BY <1>n, <2>1
    <3>3. (StartBlock .. (Minimum(block_flash, End_Block) - 1))
            \cup (block_flash .. (Minimum(block_flash + step, End_Block) - 1))
            = StartBlock .. (Minimum(block_flash + step, End_Block) - 1)
      BY <1>n, <2>1, <3>2, CoverOfMore
    <3>4. QED
      BY <1>11, <3>1, <3>3 DEF PageDone
  <2>3. QED
    BY <1>t, <1>n, <1>11, <2>1, <2>2 DEF PageDone
<1>12. CASE PageThrows
  BY <1>t, <1>n, <1>12 DEF PageThrows, Throw
<1>13. CASE FinishEraseOrWrite
  <2>1. ~stop => worked = todo
    BY <1>t, <1>n, <1>13, CoverOfAll DEF FinishEraseOrWrite, Return
  <2>2. (ModeInv /\ RangeInv /\ CoverInv /\ StopInv)'
    BY <1>t, <1>n, <1>13, <2>1 DEF FinishEraseOrWrite, Return
  <2>3. (SuccessIsComplete /\ CancelledIffAsked)'
    BY <1>t, <1>n, <1>13, <2>1 DEF FinishEraseOrWrite, Return
  <2>4. (ErrorsTouchNothing /\ ReleasedOnReturn)'
    BY <1>t, <1>n, <1>13, <2>1 DEF FinishEraseOrWrite, Return
  <2>5. QED
    BY <1>t, <2>2, <2>3, <2>4
<1>14. CASE FinishRead
  <2>1. ~stop => worked = todo
    BY <1>t, <1>n, <1>14, CoverOfAll DEF FinishRead, Return
  <2>2. (ModeInv /\ RangeInv /\ CoverInv /\ StopInv)'
    BY <1>t, <1>n, <1>14, <2>1 DEF FinishRead, Return
  <2>3. (SuccessIsComplete /\ CancelledIffAsked)'
    BY <1>t, <1>n, <1>14, <2>1 DEF FinishRead, Return
  <2>4. (ErrorsTouchNothing /\ ReleasedOnReturn)'
    BY <1>t, <1>n, <1>14, <2>1 DEF FinishRead, Return
  <2>5. QED
    BY <1>t, <2>2, <2>3, <2>4
<1>15. CASE SavePage
  BY <1>t, <1>n, <1>15 DEF SavePage
<1>16. CASE SaveDone
  <2>1. (ModeInv /\ RangeInv /\ CoverInv /\ StopInv)'
    BY <1>t, <1>n, <1>16 DEF SaveDone, Return
  <2>2. SuccessIsComplete'
    BY <1>t, <1>n, <1>16 DEF SaveDone, Return, TypeOK
  <2>3. CancelledIffAsked'
    BY <1>t, <1>n, <1>16 DEF SaveDone, Return
  <2>4. (ErrorsTouchNothing /\ ReleasedOnReturn)'
    BY <1>t, <1>n, <1>16 DEF SaveDone, Return
  <2>5. QED
    BY <1>t, <2>1, <2>2, <2>3, <2>4
<1>17. ASSUME NEW u \in UIThreads, StopTest(u) PROVE IInv'
  BY <1>t, <1>17 DEF StopTest, worker
<1>18. ASSUME NEW u \in UIThreads, StopSet(u) PROVE IInv'
  <2>1. (ModeInv /\ RangeInv /\ CoverInv)'
    BY <1>t, <1>18 DEF StopSet, worker
  <2>2. StopInv'
    BY <1>t, <1>18 DEF StopSet, worker, StillTested, TypeOK
  <2>3. AnswerInv'
    BY <1>t, <1>18 DEF StopSet, worker, StillTested
  <2>4. QED
    BY <1>t, <2>1, <2>2, <2>3
<1>19. ASSUME NEW u \in UIThreads, PollTest(u) PROVE IInv'
  BY <1>t, <1>19 DEF PollTest, worker
<1>20. ASSUME NEW u \in UIThreads, PollRead(u) PROVE IInv'
  BY <1>t, <1>20 DEF PollRead, worker
<1>21. CASE DiskChanges
  BY <1>t, <1>21 DEF DiskChanges, worker
<1>22. CASE UNCHANGED vars
  BY <1>t, <1>22 DEF vars
<1>23. QED
  BY <1>1, <1>2, <1>3, <1>4, <1>5, <1>6, <1>7, <1>8, <1>9, <1>10, <1>11, <1>12, <1>13, <1>14, <1>15, <1>16, <1>17, <1>18, <1>19, <1>20, <1>21, <1>22
     DEF Next, NewCall, Worker, Environment

(* The invariant holds in every reachable state.                           *)
THEOREM InvariantHolds == Spec => []IInv
<1>1. QED
  BY InitInvariant, StepInvariant, PTL DEF Spec

(* spi() answers 0 only when its whole range went through the device and,  *)
(* for a read, through the file, under any interleaving with spiStop and   *)
(* spiGetBlocks.                                                           *)
THEOREM SuccessTheorem == Spec => []SuccessIsComplete
<1>1. IInv => SuccessIsComplete
  BY DEF IInv, AnswerInv
<1>2. QED
  BY <1>1, InvariantHolds, PTL

(* A stop set while the call can still see one is never lost, and a call   *)
(* is never cancelled by a stop that was set before it.                    *)
THEOREM CancelTheorem == Spec => []CancelledIffAsked
<1>1. IInv => CancelledIffAsked
  BY DEF IInv, AnswerInv
<1>2. QED
  BY <1>1, InvariantHolds, PTL

(* A call that answers an error has not touched the NAND.                  *)
THEOREM ErrorTheorem == Spec => []ErrorsTouchNothing
<1>1. IInv => ErrorsTouchNothing
  BY DEF IInv, AnswerInv
<1>2. QED
  BY <1>1, InvariantHolds, PTL

(* A call that returns has closed its device.                              *)
THEOREM ReleaseTheorem == Spec => []ReleasedOnReturn
<1>1. IInv => ReleasedOnReturn
  BY DEF IInv, AnswerInv
<1>2. QED
  BY <1>1, InvariantHolds, PTL

-------------------------------------------------------------------------------
(* What spiGetBlocks answers.                                              *)

(* start_spi and block_flash tell a GUI thread of this call or of none:    *)
(* until start_spi is set a thread that goes on to read block_flash is one *)
(* of the call before, and until the first page block_flash is 0.          *)
PollInv ==
  /\ pc \in Setup \cup {"start"} =>
       /\ ~start_spi
       /\ \A u \in UIThreads : polled[u] = -1 /\ (ui[u] # "idle" => u \in stale)
  /\ pc \in {"resetStop", "init", "identify", "openFile", "start", "firstPage"} => block_flash = 0
  /\ pc \in {"firstPage", "save"} \cup Paging => start_spi
  /\ pc # "idle" => \A u \in UIThreads : polled[u] = -1 \/ Unit * polled[u] <= block_flash

(* No thread has polled before the first call.                             *)
LEMMA PollInit == Init => PollInv
BY DEF Init, PollInv, Setup, Paging

(* Every step of spi() and of the GUI threads keeps what they polled       *)
(* behind block_flash.                                                     *)
LEMMA PollStep == TypeOK /\ PollInv /\ [Next]_vars => PollInv'
<1> SUFFICES ASSUME TypeOK, PollInv, [Next]_vars PROVE PollInv'
  OBVIOUS
<1>n. /\ block_flash \in Nat /\ StartBlock \in Nat /\ step \in Nat /\ Unit \in Nat \ {0}
      /\ pc \in Locations /\ polled \in [UIThreads -> Nat \cup {-1}]
      /\ ui \in [UIThreads -> {"idle", "setStop", "getBlock"}]
  BY ConstantsAssumption DEF TypeOK
<1> USE DEF PollInv, Setup, Paging, shared, job, loop, owned, ledger, uiState
<1>1. ASSUME NEW m \in Modes, NEW s \in Starts, NEW n \in Lengths, NEW sz \in Sizes,
             Call(m, s, n, sz)
      PROVE  PollInv'
  BY <1>n, <1>1 DEF Call
<1>2. CASE ResetBlock
  BY <1>n, <1>2 DEF ResetBlock
<1>3. CASE ResetStop
  BY <1>n, <1>3 DEF ResetStop
<1>4. CASE InitDevice
  BY <1>n, <1>4 DEF InitDevice, Return
<1>5. CASE Identify
  BY <1>n, <1>5 DEF Identify, Return, Throw
<1>6. CASE OpenForWrite
  BY <1>n, <1>6 DEF OpenForWrite, Return
<1>7. CASE OpenForRead
  BY <1>n, <1>7 DEF OpenForRead, Return
<1>8. CASE MarkStarted
  BY <1>n, <1>8 DEF MarkStarted
<1>9. CASE FirstPage
  <2>1. ASSUME NEW u \in UIThreads, polled[u] # -1
        PROVE  Unit * polled[u] <= StartBlock
    <3>1. polled[u] \in Nat /\ Unit * polled[u] <= 0
      BY <1>n, <1>9, <2>1 DEF FirstPage
    <3>2. QED
      BY <1>n, <3>1
  <2>2. QED
    BY <1>n, <1>9, <2>1 DEF FirstPage
<1>10. CASE LoopTest
  BY <1>n, <1>10 DEF LoopTest
<1>11. CASE PageDone
  <2>1. ASSUME NEW u \in UIThreads, polled[u] # -1
        PROVE  Unit * polled[u] <= block_flash + step
    <3>1. Unit * polled[u] \in Nat /\ Unit * polled[u] <= block_flash
      BY <1>n, <1>11, <2>1 DEF PageDone
    <3>2. QED
      BY <1>n, <3>1
  <2>2. QED
    BY <1>n, <1>11, <2>1 DEF PageDone
<1>12. CASE PageThrows
  BY <1>n, <1>12 DEF PageThrows, Throw
<1>13. CASE FinishEraseOrWrite
  BY <1>n, <1>13 DEF FinishEraseOrWrite, Return
<1>14. CASE FinishRead
  BY <1>n, <1>14 DEF FinishRead, Return
<1>15. CASE SavePage
  BY <1>n, <1>15 DEF SavePage
<1>16. CASE SaveDone
  BY <1>n, <1>16 DEF SaveDone, Return
<1>17. ASSUME NEW u \in UIThreads, StopTest(u) PROVE PollInv'
  BY <1>n, <1>17 DEF StopTest, worker
<1>18. ASSUME NEW u \in UIThreads, StopSet(u) PROVE PollInv'
  BY <1>n, <1>18 DEF StopSet, worker
<1>19. ASSUME NEW u \in UIThreads, PollTest(u) PROVE PollInv'
  BY <1>n, <1>19 DEF PollTest, worker
<1>20. ASSUME NEW u \in UIThreads, PollRead(u) PROVE PollInv'
  <2> DEFINE b == block_flash \div Unit
  <2>1. b \in Nat /\ Unit * b <= block_flash
    BY <1>n
  <2>2. pc \in Setup \cup {"start"} => u \in stale
    BY <1>20 DEF PollRead
  <2>3. \A v \in UIThreads : polled'[v] = polled[v] \/ (u \notin stale /\ v = u /\ polled'[v] = b)
    BY <1>n, <1>20 DEF PollRead
  <2>4. pc' # "idle" => \A v \in UIThreads : polled'[v] = -1 \/ Unit * polled'[v] <= block_flash'
    BY <1>20, <2>1, <2>3 DEF PollRead, worker
  <2>5. pc' \in Setup \cup {"start"} =>
          \A v \in UIThreads : polled'[v] = -1 /\ (ui'[v] # "idle" => v \in stale')
    BY <1>n, <1>20, <2>2, <2>3 DEF PollRead, worker
  <2>6. QED
    BY <1>20, <2>4, <2>5 DEF PollRead, worker
<1>21. CASE DiskChanges
  BY <1>n, <1>21 DEF DiskChanges, worker
<1>22. CASE UNCHANGED vars
  BY <1>n, <1>22 DEF vars
<1>23. QED
  BY <1>1, <1>2, <1>3, <1>4, <1>5, <1>6, <1>7, <1>8, <1>9, <1>10, <1>11, <1>12, <1>13, <1>14, <1>15, <1>16, <1>17, <1>18, <1>19, <1>20, <1>21, <1>22
     DEF Next, NewCall, Worker, Environment

(* A block number that spiGetBlocks answers is true: the pages of the      *)
(* range before it are done, by the running call.                          *)
THEOREM ProgressTheorem == Spec => []ProgressIsBacked
<1>1. IInv /\ PollInv => ProgressIsBacked
  <2>1. SUFFICES ASSUME IInv, PollInv, pc # "idle", NEW u \in UIThreads, polled[u] > 0,
                        NEW p \in todo, p < polled[u] * Unit
                 PROVE  p \in worked
    BY DEF ProgressIsBacked
  <2>2. /\ block_flash \in Nat /\ StartBlock \in Nat /\ End_Block \in Nat /\ Unit \in Nat
        /\ polled[u] \in Nat \cup {-1} /\ pc \in Locations /\ p \in Nat
    BY ConstantsAssumption, <2>1 DEF IInv, TypeOK
  <2>3. polled[u] # -1 /\ polled[u] \in Nat
    BY <2>1, <2>2
  <2>4. polled[u] * Unit \in Nat /\ polled[u] * Unit = Unit * polled[u]
    BY <2>2, <2>3
  <2>5. p < block_flash
    BY <2>1, <2>2, <2>3, <2>4 DEF PollInv
  <2>6. pc \in {"save"} \cup Paging
    BY <2>1, <2>2, <2>3, <2>5 DEF PollInv, Setup, Paging
  <2>7. pc \in Paging => p \in StartBlock .. (Minimum(block_flash, End_Block) - 1)
    BY <2>1, <2>2, <2>5 DEF IInv, RangeInv, Minimum
  <2>8. QED
    BY <2>1, <2>6, <2>7 DEF IInv, CoverInv
<1>2. IInv => TypeOK
  BY DEF IInv
<1>3. QED
  BY InvariantHolds, PollInit, PollStep, <1>1, <1>2, PTL DEF Spec

(* What a thread is told never decreases within a call.                    *)
THEOREM PollsTheorem == Spec => PollsNeverGoBack
<1>1. TypeOK /\ PollInv /\ [Next]_vars =>
        [pc # "idle" => \A u \in UIThreads : polled'[u] >= polled[u]]_vars
  <2> SUFFICES ASSUME TypeOK, PollInv, [Next]_vars, vars' # vars, pc # "idle", NEW v \in UIThreads
               PROVE  polled'[v] >= polled[v]
    OBVIOUS
  <2>n. /\ block_flash \in Nat /\ Unit \in Nat \ {0} /\ pc \in Locations
        /\ polled \in [UIThreads -> Nat \cup {-1}] /\ polled[v] \in Nat \cup {-1}
    BY ConstantsAssumption DEF TypeOK
  <2>1. ASSUME NEW u \in UIThreads, PollTest(u) PROVE polled'[v] >= polled[v]
    <3>1. ~start_spi => polled[v] = -1
      BY <2>n DEF PollInv, Setup, Paging
    <3>2. QED
      BY <2>n, <2>1, <3>1 DEF PollTest
  <2>2. ASSUME NEW u \in UIThreads, PollRead(u) PROVE polled'[v] >= polled[v]
    <3>1. polled[v] # -1 => polled[v] <= block_flash \div Unit
      BY <2>n, QuotientAtLeast DEF PollInv
    <3>2. block_flash \div Unit \in Nat
      BY <2>n
    <3>3. QED
      BY <2>n, <2>2, <3>1, <3>2 DEF PollRead
  <2>3. ASSUME UNCHANGED polled PROVE polled'[v] >= polled[v]
    BY <2>n, <2>3
  <2>4. CASE Worker
    BY <2>3, <2>4
       DEF Worker, ResetBlock, ResetStop, InitDevice, Identify, OpenForWrite, OpenForRead,
           MarkStarted, FirstPage, LoopTest, PageDone, PageThrows, FinishEraseOrWrite, FinishRead,
           SavePage, SaveDone, uiState
  <2>5. CASE Environment
    BY <2>1, <2>2, <2>3, <2>5 DEF Environment, StopTest, StopSet, DiskChanges
  <2>6. QED
    BY <2>4, <2>5 DEF Next, NewCall, Call
<1>2. IInv => TypeOK
  BY DEF IInv
<1>3. QED
  BY InvariantHolds, PollInit, PollStep, <1>1, <1>2, PTL DEF Spec, PollsNeverGoBack

-------------------------------------------------------------------------------
(* spi() is a cancellable job.                                             *)

(* Before the first call there is no job.                                  *)
LEMMA JobInit == Init => Job!Init
BY DEF Init, Job!Init, phaseMap, outcomeMap

(* Each step of spi(), spiStop() or spiGetBlocks() is a step of the job or *)
(* none of its business.                                                   *)
LEMMA JobStep == IInv /\ IInv' /\ [Next]_vars => [Job!Next]_(Job!vars)
<1> SUFFICES ASSUME IInv, IInv', [Next]_vars PROVE [Job!Next]_(Job!vars)
  OBVIOUS
<1>n. /\ pc \in Locations /\ mode \in Modes /\ ret \in Codes /\ asked \in BOOLEAN
      /\ stop \in BOOLEAN /\ todo \in SUBSET Nat /\ worked \in SUBSET Nat
      /\ pc' \in Locations /\ todo' \in SUBSET Nat /\ worked' \in SUBSET Nat
  BY DEF IInv, TypeOK, FlagsOK
<1> USE DEF shared, job, loop, owned, ledger, uiState
(* A step that changes none of what the job sees.                          *)
<1>s. ASSUME pc' = pc \/ (pc \in Setup /\ pc' \in Setup)
                       \/ (pc \in {"start", "firstPage"} \cup Paging
                           /\ pc' \in {"start", "firstPage"} \cup Paging),
             UNCHANGED <<todo, worked, asked>>, ret' = ret
      PROVE  UNCHANGED Job!vars
  BY <1>n, <1>s DEF Job!vars, phaseMap, outcomeMap, Setup, Paging
(* A step that ends the call.                                              *)
<1>e. ASSUME pc # "idle", pc' = "idle", UNCHANGED <<todo, worked, asked>>,
             ret' \in Codes \ {NotCalled},
             ret' = 0 => ~asked /\ worked = todo,
             ret' = -1 => asked,
             ret' \notin {0, -1, Threw} => worked = {}
      PROVE  Job!Next
  <2>1. phaseMap # "idle" /\ phaseMap' = "idle"
    BY <1>n, <1>e DEF phaseMap
  <2>2. outcomeMap' = CASE ret' = Threw -> "lost" [] ret' = 0 -> "success"
                        [] ret' = -1 -> "cancelled" [] OTHER -> "error"
    BY <1>e DEF outcomeMap
  <2>3. Job!End(outcomeMap') /\ outcomeMap' \in Job!Outcomes \ {"none"}
    BY <1>e, <2>1, <2>2 DEF Job!End, Job!Outcomes
  <2>4. QED
    BY <2>3 DEF Job!Next
(* A step that begins the work.                                            *)
<1>b. ASSUME pc \in Setup, pc' = "start", UNCHANGED <<worked, asked>>
      PROVE  Job!Next
  BY <1>n, <1>b DEF Job!Next, Job!Begin, phaseMap, outcomeMap, Setup
<1>1. ASSUME NEW m \in Modes, NEW s \in Starts, NEW n \in Lengths, NEW sz \in Sizes,
             Call(m, s, n, sz)
      PROVE  Job!Next
  BY <1>1 DEF Call, Job!Next, Job!Start, phaseMap, outcomeMap
<1>2. CASE ResetBlock
  BY <1>2, <1>s DEF ResetBlock, Setup
<1>3. CASE ResetStop
  BY <1>3, <1>s DEF ResetStop, Setup
<1>4. CASE InitDevice
  <2>1. worked = {}
    BY <1>4 DEF InitDevice, IInv, CoverInv, Setup
  <2>2. QED
    BY <1>4, <2>1, <1>s, <1>e DEF InitDevice, Return, Setup
<1>5. CASE Identify
  <2>1. worked = {} /\ todo = {} /\ (mode \notin Jobs => ~asked) /\ pc = "identify"
    BY <1>5 DEF Identify, IInv, CoverInv, RangeInv, StopInv, Setup
  <2>2. QED
    BY <1>n, <1>5, <2>1, <1>s, <1>e, <1>b DEF Identify, Return, Throw, Setup
<1>6. CASE OpenForWrite
  <2>1. worked = {} /\ pc = "openFile"
    BY <1>6 DEF OpenForWrite, IInv, CoverInv, Setup
  <2>2. QED
    BY <1>6, <2>1, <1>e, <1>b DEF OpenForWrite, Return, Setup
<1>7. CASE OpenForRead
  <2>1. worked = {} /\ pc = "openFile"
    BY <1>7 DEF OpenForRead, IInv, CoverInv, Setup
  <2>2. QED
    BY <1>7, <2>1, <1>e, <1>b DEF OpenForRead, Return, Setup
<1>8. CASE MarkStarted
  BY <1>8, <1>s DEF MarkStarted, Paging
<1>9. CASE FirstPage
  BY <1>9, <1>s DEF FirstPage, Paging
<1>10. CASE LoopTest
  BY <1>10, <1>s DEF LoopTest, Paging
<1>11. CASE PageDone
  <2>1. /\ todo' = todo /\ pc = "page" /\ pc' = "test" /\ worked \subseteq worked'
        /\ asked' = asked
    BY <1>11 DEF PageDone
  <2>2. worked' \subseteq todo'
    <3>1. worked' = StartBlock' .. (Minimum(block_flash', End_Block') - 1)
      BY <2>1 DEF IInv, CoverInv, Paging
    <3>2. todo' = StartBlock' .. (End_Block' - 1)
      BY <2>1 DEF IInv, RangeInv, Paging
    <3>3. block_flash' \in Nat /\ End_Block' \in Nat /\ StartBlock' \in Nat
      BY DEF IInv, TypeOK
    <3>4. QED
      BY <3>1, <3>2, <3>3, CoverIsPart
  <2>3. QED
    BY <2>1, <2>2 DEF Job!Next, Job!Work, phaseMap, outcomeMap
<1>12. CASE PageThrows
  BY <1>12, <1>e DEF PageThrows, Throw
<1>13. CASE FinishEraseOrWrite
  <2>1. (~stop => worked = todo) /\ (asked <=> stop)
    BY <1>13, CoverOfAll
       DEF FinishEraseOrWrite, IInv, CoverInv, RangeInv, StopInv, ModeInv, TypeOK, Paging
  <2>2. QED
    BY <1>13, <2>1, <1>e DEF FinishEraseOrWrite, Return
<1>14. CASE FinishRead
  <2>1. (~stop => worked = todo) /\ (asked <=> stop) /\ pc = "finish"
    BY <1>14, CoverOfAll
       DEF FinishRead, IInv, CoverInv, RangeInv, StopInv, ModeInv, TypeOK, Paging
  <2>2. CASE stop
    BY <1>14, <2>1, <2>2, <1>e DEF FinishRead, Return
  <2>3. CASE ~stop
    BY <1>14, <2>1, <2>3 DEF FinishRead, Job!Next, Job!Close, phaseMap, outcomeMap
  <2>4. QED
    BY <2>2, <2>3
<1>15. CASE SavePage
  BY <1>15, <1>s DEF SavePage
<1>16. CASE SaveDone
  <2>1. worked = todo /\ ~asked
    BY <1>16 DEF SaveDone, IInv, CoverInv, StopInv
  <2>2. QED
    BY <1>16, <2>1, <1>e DEF SaveDone, Return
<1>17. ASSUME NEW u \in UIThreads, StopTest(u) PROVE UNCHANGED Job!vars
  BY <1>17, <1>s DEF StopTest, worker
<1>18. ASSUME NEW u \in UIThreads, StopSet(u) PROVE [Job!Next]_(Job!vars)
  <2>1. UNCHANGED <<pc, ret, todo, worked>> /\ asked' = (asked \/ StillTested)
    BY <1>18 DEF StopSet, worker
  <2>2. CASE StillTested
    BY <1>n, <2>1, <2>2 DEF StillTested, Job!Next, Job!Ask, phaseMap, outcomeMap
  <2>3. CASE ~StillTested
    BY <1>n, <2>1, <2>3, <1>s
  <2>4. QED
    BY <2>2, <2>3
<1>19. ASSUME NEW u \in UIThreads, PollTest(u) PROVE UNCHANGED Job!vars
  BY <1>19, <1>s DEF PollTest, worker
<1>20. ASSUME NEW u \in UIThreads, PollRead(u) PROVE UNCHANGED Job!vars
  BY <1>20, <1>s DEF PollRead, worker
<1>21. CASE DiskChanges
  BY <1>21, <1>s DEF DiskChanges, worker
<1>22. CASE UNCHANGED vars
  BY <1>22, <1>s DEF vars
<1>23. QED
  BY <1>1, <1>2, <1>3, <1>4, <1>5, <1>6, <1>7, <1>8, <1>9, <1>10, <1>11, <1>12, <1>13, <1>14, <1>15, <1>16, <1>17, <1>18, <1>19, <1>20, <1>21, <1>22
     DEF Next, NewCall, Worker, Environment

(* Every behaviour of spi(), spiStop() and spiGetBlocks() is one of a      *)
(* cancellable job.                                                        *)
THEOREM RefinementTheorem == Spec => ImplementsJob
<1>1. QED
  BY InvariantHolds, JobInit, JobStep, PTL DEF Spec, ImplementsJob, Job!Spec

===============================================================================
