------------------------------- MODULE EmmcProofs -------------------------------
(***************************************************************************)
(* Theorems about emmc_read() and the set-up of the card, for every card,  *)
(* every range and any lateness of the card's answers.                     *)
(***************************************************************************)
EXTENDS Emmc, TLAPS

Names    == {"none", "select", "blocklen", "deselect", "read", "write"}
Commands == [cmd : Names, arg : Nat, accepted : BOOLEAN, block : Int]

(* What the proofs need of the types.                                      *)
DataOK ==
  /\ StartBlock \in 0 .. (Wrap - 1) /\ i \in Nat
  /\ op \in {"read", "write"} /\ file \in Seq(Int) /\ buffer \in Int
  /\ card \in Commands
  /\ is_selected \in BOOLEAN /\ is_block_set \in BOOLEAN
  /\ confirmed \subseteq {"select", "blocklen"}

\* Places at which the card is selected, and knows the length of a block.
Selected == {"blocklen", "blocklenWait", "data", "readWait", "save", "commandWait", "writeWait"}
Ready    == Selected \ {"blocklen", "blocklenWait"}

(* Within the loop a flag is only set when the card has answered for it,   *)
(* but for the wait that asks for the answer.                              *)
SetupInv ==
  /\ pc \in Selected \cup {"block", "select"} => (is_selected => "select" \in confirmed)
  /\ pc \in Ready \cup {"block", "select", "blocklen"} => (is_block_set => "blocklen" \in confirmed)
  /\ pc \in Selected => "select" \in confirmed
  /\ pc \in Ready => "blocklen" \in confirmed
  /\ pc = "files" => ~is_selected /\ ~is_block_set
  /\ pc = "selectWait" => ~is_block_set

\* Places in the loop of a call.
Loop == Waits \cup {"block", "select", "blocklen", "data", "save"}

\* The block of the card that is addressed for block n of a range from start on.
Place(start, n) == (start + n) % Addressable

(* The file of a read has the blocks before the i-th, and the block in     *)
(* hand is the i-th: the response that is waited for is the one to the     *)
(* command for it.                                                         *)
ReadInv ==
  op = "read" =>
    /\ pc \notin {"commandWait", "writeWait"}
    /\ pc \in {"open", "init", "initWait", "files"} => i = 0 /\ file = <<>>
    /\ pc \in Loop => Len(file) = i
    /\ pc = "readWait" =>
         /\ card.cmd = "read" /\ BlockAt(card.arg) = Place(StartBlock, i)
         /\ "response" \in ints => card.accepted
    /\ pc = "save" => buffer = Place(StartBlock, i)

IInv == DataOK /\ SetupInv /\ ReadInv /\ ReadIsExact

USE DEF Waits, Selected, Ready, Loop, OldBlock, NoBlock, Threw, NotCalled, Returned

-------------------------------------------------------------------------------

(* Quotient and rest of a natural number.                                  *)
LEMMA Division ==
  ASSUME NEW x \in Nat, NEW d \in Nat \ {0}
  PROVE  x \div d \in Nat /\ x % d \in 0 .. (d - 1) /\ x = d * (x \div d) + (x % d)
<1>1. x \div d \in Nat
  OBVIOUS
<1>2. x % d \in 0 .. (d - 1)
  OBVIOUS
<1>3. x = d * (x \div d) + (x % d)
  BY <1>1, <1>2
<1>4. QED
  BY <1>1, <1>2, <1>3

(* A number between two multiples of d.                                    *)
LEMMA Between ==
  ASSUME NEW d \in Nat \ {0}, NEW q \in Int, NEW r \in 0 .. (d - 1), NEW t \in 0 .. (d - 1),
         d * q = t - r
  PROVE  q = 0
<1>1. CASE q >= 1
  <2>1. d * q >= d
    <3>1. d * (q - 1) >= 0
      BY <1>1
    <3>2. QED
      BY <3>1
  <2>2. QED
    BY <2>1
<1>2. CASE q <= -1
  <2>1. d * q <= -d
    <3>1. d * (q + 1) <= 0
      BY <1>2
    <3>2. QED
      BY <3>1
  <2>2. QED
    BY <2>1
<1>3. QED
  BY <1>1, <1>2

(* There is one way to write a number as so many times d and a rest.       *)
LEMMA OneRest ==
  ASSUME NEW d \in Nat \ {0}, NEW q \in Nat, NEW r \in 0 .. (d - 1)
  PROVE  (d * q + r) % d = r /\ (d * q + r) \div d = q
<1> DEFINE x == d * q + r
<1>1. x \in Nat
  <2>1. d * q \in Nat
    OBVIOUS
  <2>2. QED
    BY <2>1
<1>2. x \div d \in Nat /\ x % d \in 0 .. (d - 1) /\ x = d * (x \div d) + (x % d)
  BY <1>1, Division
<1>3. d * (q - x \div d) = (x % d) - r
  <2> DEFINE p == x \div d
             t == x % d
  <2>1. p \in Nat /\ t \in Int /\ d * q + r = d * p + t
    BY <1>2
  <2> HIDE DEF p, t, x
  <2>2. d * (q - p) = d * q - d * p
    BY <2>1
  <2>3. d * (q - p) = t - r
    BY <2>1, <2>2
  <2>4. QED
    BY <2>3 DEF p, t
<1>4. q - x \div d = 0
  <2> DEFINE p == q - x \div d
             t == x % d
  <2>1. p \in Int /\ t \in 0 .. (d - 1) /\ d * p = t - r
    BY <1>2, <1>3
  <2> HIDE DEF p, t, x
  <2>2. p = 0
    BY <2>1, Between
  <2>3. QED
    BY <2>2 DEF p
<1>5. x \div d = q /\ x % d = r
  <2> DEFINE p == x \div d
             t == x % d
  <2>1. p \in Nat /\ t \in Int /\ d * (q - p) = t - r /\ q - p = 0
    BY <1>2, <1>3, <1>4
  <2> HIDE DEF p, t, x
  <2>2. p = q /\ t = r
    BY <2>1
  <2>3. QED
    BY <2>2 DEF p, t
<1>6. QED
  BY <1>5

(* The address of a block is that of the block it is modulo the blocks an  *)
(* address can tell apart, and a shift by less than all of them is another *)
(* block.                                                                  *)
LEMMA AddressOfBlock ==
  ASSUME NEW n \in Nat
  PROVE  /\ Address(n % Wrap) \in Nat
         /\ BlockAt(Address(n % Wrap)) = n % Addressable
<1>c. Addressable \in Nat \ {0} /\ BlockSize \in Nat \ {0}
  BY EmmcAssumption
<1> DEFINE A == Addressable
           B == BlockSize
           m == n % (A * B)
           u == m * B
<1>w. A * B \in Nat \ {0}
  BY <1>c
<1> HIDE DEF A, B
<1>1. PICK p \in Nat : n = (A * B) * p + m
  BY <1>w, Division
<1>2. m \in Nat
  BY <1>w, Division
<1>3. PICK q \in Nat, r \in 0 .. (A - 1) : m = A * q + r
  BY <1>2, <1>c, Division DEF A
<1> HIDE DEF m
<1>4. n % A = r
  <2>1. n = A * (B * p + q) + r
    BY <1>1, <1>3, <1>c DEF A, B
  <2>2. B * p + q \in Nat
    BY <1>c DEF B
  <2>3. QED
    BY <2>1, <2>2, <1>c, OneRest DEF A
<1>5. r * B \in 0 .. (A * B - 1)
  <2>1. r * B <= (A - 1) * B
    BY <1>c DEF A, B
  <2>2. (A - 1) * B = A * B - B
    BY <1>c DEF A, B
  <2>3. r * B \in Nat /\ A * B \in Int
    BY <1>c DEF A, B
  <2>4. QED
    BY <2>1, <2>2, <2>3, <1>c DEF B
<1>6. u % (A * B) = r * B
  <2>1. u = (A * B) * q + r * B
    BY <1>2, <1>3, <1>c DEF A, B
  <2>2. QED
    BY <2>1, <1>5, <1>w, OneRest
<1>7. (r * B) \div B = r
  <2>1. (B * r + 0) \div B = r
    BY <1>c, <1>3, OneRest DEF B
  <2>2. B * r + 0 = r * B
    BY <1>c, <1>3 DEF B
  <2>3. QED
    BY <2>1, <2>2
<1>8. Address(n % Wrap) = r * B
  BY <1>6 DEF Address, Wrap, m, A, B
<1>9. QED
  BY <1>4, <1>5, <1>7, <1>8 DEF BlockAt, A, B

(* Two blocks of a range that are nearer to each other than all that can   *)
(* be told apart have different places.                                    *)
LEMMA PlacesDiffer ==
  ASSUME StartBlock \in Nat, NEW k \in Nat, NEW n \in Nat, k <= n, n - k < Addressable,
         Place(StartBlock, k) = Place(StartBlock, n)
  PROVE  k = n
<1>c. Addressable \in Nat \ {0}
  BY EmmcAssumption
<1>1. PICK p \in Nat : StartBlock + k = Addressable * p + Place(StartBlock, k)
  <2>1. StartBlock + k \in Nat
    OBVIOUS
  <2>2. QED
    BY <1>c, <2>1, Division DEF Place
<1>2. PICK q \in Nat : StartBlock + n = Addressable * q + Place(StartBlock, n)
  <2>1. StartBlock + n \in Nat
    OBVIOUS
  <2>2. QED
    BY <1>c, <2>1, Division DEF Place
<1>3. Place(StartBlock, k) \in Int
  BY <1>c, Division DEF Place
<1>4. Addressable * (q - p) = (n - k) - 0
  <2>1. Addressable * (q - p) = Addressable * q - Addressable * p
    BY <1>c
  <2>2. QED
    BY <1>1, <1>2, <1>3, <1>c, <2>1
<1>5. q - p = 0
  BY <1>4, <1>c, Between
<1>6. QED
  BY <1>4, <1>5, <1>c

(* The empty place for a command is of the type of one.                    *)
LEMMA NoCommandTyped == NoCommand \in Commands
BY DEF NoCommand, Commands, Names

(* A new command is unanswered and clears the interrupt bits.              *)
LEMMA Executed ==
  ASSUME NEW c \in Names, NEW arg \in Nat, Execute(c, arg)
  PROVE  /\ card' \in Commands /\ card'.cmd = c /\ card'.arg = arg /\ card'.accepted = FALSE
         /\ ints' = {} /\ polls' = 0
<1>1. card' = [cmd |-> c, arg |-> arg, accepted |-> FALSE, block |-> NoBlock]
  BY DEF Execute, NoCommand
<1>2. card' \in Commands
  BY <1>1 DEF Commands
<1>3. card'.cmd = c /\ card'.arg = arg /\ card'.accepted = FALSE
  BY <1>1
<1>4. ints' = {} /\ polls' = 0
  BY DEF Execute
<1>5. QED
  BY <1>2, <1>3, <1>4

(* A call of an earlier time is of the same type when it is made old.      *)
LEMMA MadeOld ==
  ASSUME NEW c \in Commands
  PROVE  [c EXCEPT !.block = OldBlock] \in Commands
BY DEF Commands

(* The invariant holds before the first call.                              *)
LEMMA InitInvariant == Init => IInv
<1> SUFFICES ASSUME Init PROVE IInv
  OBVIOUS
<1>1. DataOK
  BY EmmcAssumption, NoCommandTyped DEF Init, DataOK
<1>2. SetupInv /\ ReadInv /\ ReadIsExact
  BY DEF Init, SetupInv, ReadInv, ReadIsExact
<1>3. QED
  BY <1>1, <1>2 DEF IInv

(* Every step of a call, of the controller and of the card keeps it.       *)
LEMMA StepInvariant == IInv /\ [Next]_vars => IInv'
<1> SUFFICES ASSUME IInv, [Next]_vars PROVE IInv'
  OBVIOUS
<1> USE EmmcAssumption
    DEF IInv, DataOK, SetupInv, ReadInv, ReadIsExact, flags, call, owned, data, hw
<1>1. ASSUME NEW s \in Starts, NEW n, NEW p, NEW o \in {"read", "write"}, Begin(o, s, n, p)
      PROVE  IInv'
  <2>1. s \in 0 .. (Wrap - 1)
    OBVIOUS
  <2>2. card' \in Commands
    BY <1>1, MadeOld DEF Begin
  <2>3. UNCHANGED <<flags, confirmed>> /\ pc' = "open" /\ op' = o /\ StartBlock' = s /\ i' = 0
        /\ file' = <<>> /\ buffer' \in Int
    BY <1>1 DEF Begin
  <2>4. DataOK'
    BY <2>1, <2>2, <2>3
  <2>5. QED
    BY <2>3, <2>4
<1>2. CASE Open
  BY <1>2 DEF Open, Return
<1>3. CASE InitReset
  BY <1>3, NoCommandTyped DEF InitReset
<1>4. CASE InitDone
  BY <1>4 DEF InitDone
<1>5. CASE OpenFiles
  BY <1>5 DEF OpenFiles, Return
<1>6. CASE AllDone
  BY <1>6 DEF AllDone, Return
<1>7. CASE NextBlock
  BY <1>7 DEF NextBlock, Return
<1>8. CASE SelectCard
  <2>1. CASE is_selected
    BY <1>8, <2>1 DEF SelectCard
  <2>2. CASE ~is_selected
    <3>1. Execute("select", 0)
      BY <1>8, <2>2 DEF SelectCard
    <3>2. card' \in Commands
      <4>1. "select" \in Names /\ 0 \in Nat
        BY DEF Names
      <4>2. QED
        BY <3>1, <4>1, Executed
    <3>3. QED
      BY <1>8, <2>2, <3>2 DEF SelectCard
  <2>3. QED
    BY <2>1, <2>2
<1>9. CASE SetBlocklen
  <2>1. CASE is_block_set
    BY <1>9, <2>1 DEF SetBlocklen
  <2>2. CASE ~is_block_set
    <3>1. Execute("blocklen", 0)
      BY <1>9, <2>2 DEF SetBlocklen
    <3>2. card' \in Commands
      <4>1. "blocklen" \in Names /\ 0 \in Nat
        BY DEF Names
      <4>2. QED
        BY <3>1, <4>1, Executed
    <3>3. QED
      BY <1>9, <2>2, <3>2 DEF SetBlocklen
  <2>3. QED
    BY <2>1, <2>2
<1>10. CASE DataCommand
  <2>1. StartBlock + i \in Nat
    OBVIOUS
  <2>2. op \in Names /\ Execute(op, Address((StartBlock + i) % Wrap))
    BY <1>10 DEF DataCommand, Names
  <2>3. /\ card' \in Commands /\ card'.cmd = op /\ BlockAt(card'.arg) = Place(StartBlock, i)
        /\ card'.accepted = FALSE /\ ints' = {}
    BY <2>1, <2>2, Executed, AddressOfBlock DEF Place
  <2>4. QED
    BY <1>10, <2>2, <2>3 DEF DataCommand
<1>11. CASE PollAgain
  BY <1>11 DEF PollAgain
<1>12. CASE Answered
  BY <1>12 DEF Answered
<1>13. CASE ReadArrived
  <2>1. pc = "readWait" /\ "response" \in ints
    BY <1>13 DEF ReadArrived, Want
  <2>2. op = "read" => card.accepted /\ BlockAt(card.arg) = Place(StartBlock, i)
    BY <2>1
  <2>3. buffer' \in Int /\ (op = "read" => buffer' = Place(StartBlock, i))
    <3>1. BlockAt(card.arg) \in Int
      BY Division DEF Commands, BlockAt
    <3>2. QED
      BY <1>13, <2>2, <3>1 DEF ReadArrived
  <2>5. UNCHANGED <<flags, op, StartBlock, BlockCount, i, file, card, confirmed>> /\ pc' = "save"
    BY <1>13 DEF ReadArrived
  <2>6. QED
    BY <2>1, <2>3, <2>5 DEF Place
<1>14. CASE SaveBlock
  <2>1. DataOK' /\ SetupInv'
    <3>1. file' \in Seq(Int) /\ i' \in Nat
      <4>1. Append(file, buffer) \in Seq(Int) /\ i + 1 \in Nat
        OBVIOUS
      <4>2. QED
        BY <1>14, <4>1 DEF SaveBlock
    <3>2. QED
      BY <1>14, <3>1 DEF SaveBlock, Return
  <2>2. CASE Return(-21, {}) /\ UNCHANGED <<file, i>>
    BY <1>14, <2>1, <2>2 DEF SaveBlock, Return
  <2>3. CASE pc' = "block" /\ file' = Append(file, buffer) /\ i' = i + 1
    <3>1. UNCHANGED <<op, StartBlock, BlockCount>> /\ pc = "save"
      BY <1>14 DEF SaveBlock
    <3>2. Len(file') = Len(file) + 1 /\ \A k \in DOMAIN file' :
             file'[k] = IF k = Len(file) + 1 THEN buffer ELSE file[k]
      BY <2>3
    <3>3. ReadInv'
      BY <2>3, <3>1, <3>2
    <3>4. op = "read" => \A k \in DOMAIN file' : file'[k] = (StartBlock + k - 1) % Addressable
      <4>1. ASSUME op = "read", NEW k \in DOMAIN file'
            PROVE  file'[k] = (StartBlock + k - 1) % Addressable
        <5>1. CASE k = Len(file) + 1
          <6>0. Len(file) = i
            BY <3>1, <4>1
          <6>1. StartBlock + k - 1 = StartBlock + i
            BY <5>1, <6>0
          <6>2. file'[k] = Place(StartBlock, i)
            BY <3>1, <3>2, <4>1, <5>1
          <6>3. QED
            BY <6>1, <6>2 DEF Place
        <5>2. CASE k # Len(file) + 1
          <6>1. k \in DOMAIN file /\ file'[k] = file[k]
            BY <2>3, <3>2, <5>2
          <6>2. QED
            BY <4>1, <6>1
        <5>3. QED
          BY <5>1, <5>2
      <4>2. QED
        BY <4>1
    <3>5. QED
      BY <2>1, <2>3, <3>1, <3>3, <3>4
  <2>4. QED
    BY <1>14, <2>2, <2>3 DEF SaveBlock
<1>15. CASE SendBlock
  <2>1. card' \in Commands
    BY <1>15 DEF SendBlock, Commands
  <2>2. QED
    BY <1>15, <2>1 DEF SendBlock
<1>16. CASE BlockWritten
  BY <1>16 DEF BlockWritten
<1>17. CASE Deselect
  <2>1. Execute("deselect", 0)
    BY <1>17 DEF Deselect
  <2>2. card' \in Commands
    <3>1. "deselect" \in Names /\ 0 \in Nat
      BY DEF Names
    <3>2. QED
      BY <2>1, <3>1, Executed
  <2>3. QED
    BY <1>17, <2>2 DEF Deselect
<1>18. CASE GiveUp
  BY <1>18 DEF GiveUp, Return
<1>19. CASE Lost
  BY <1>19 DEF Lost
<1>20. CASE ResetDone
  BY <1>20 DEF ResetDone
<1>21. CASE Accept
  <2>1. card' \in Commands /\ card'.cmd = card.cmd /\ card'.arg = card.arg /\ card'.accepted
    BY <1>21 DEF Accept, Commands
  <2>2. QED
    BY <1>21, <2>1 DEF Accept
<1>22. CASE Store
  BY <1>22, NoCommandTyped DEF Store
<1>23. CASE UNCHANGED vars
  BY <1>23 DEF vars
<1>24. ASSUME NEW s \in Starts, NEW n \in Lengths, CallRead(s, n) PROVE IInv'
  BY <1>1, <1>24 DEF CallRead
<1>25. ASSUME NEW s \in Starts, NEW size \in FileSizes, CallWrite(s, size) PROVE IInv'
  BY <1>1, <1>25 DEF CallWrite
<1>26. QED
  BY <1>2, <1>3, <1>4, <1>5, <1>6, <1>7, <1>8, <1>9, <1>10, <1>11, <1>12, <1>13, <1>14, <1>15,
     <1>16, <1>17, <1>18, <1>19, <1>20, <1>21, <1>22, <1>23, <1>24, <1>25
     DEF Next, Starting, Driver, Device

(* The invariant holds in every reachable state.                           *)
LEMMA InvariantHolds == Spec => []IInv
<1>1. QED
  BY InitInvariant, StepInvariant, PTL DEF Spec

(* No flag ever lets a data command skip a set-up the card has not         *)
(* answered.                                                               *)
THEOREM SetupTheorem == Spec => []DataAfterSetup
<1>1. IInv => DataAfterSetup
  BY DEF IInv, DataOK, SetupInv, DataAfterSetup
<1>2. QED
  BY <1>1, InvariantHolds, PTL

(* The file of a read is the blocks of the card from startblock on - from  *)
(* block 2^23 on those from the start of the card again -, all of them     *)
(* when the answer is 0.                                                   *)
THEOREM ReadTheorem == Spec => []ReadIsExact
<1>1. IInv => ReadIsExact
  BY DEF IInv
<1>2. QED
  BY <1>1, InvariantHolds, PTL

-------------------------------------------------------------------------------
(* Writing.                                                                *)

(* A block the controller has in hand belongs to a command the card has    *)
(* taken, and to its place on the card; one of a call before is old.       *)
CardInv ==
  /\ mem \in [0 .. (CardBlocks - 1) -> Int]
  /\ card.cmd = "write" /\ card.accepted => BlockAt(card.arg) < CardBlocks
  /\ card.block # NoBlock => card.cmd = "write" /\ card.accepted
  /\ card.block \notin {NoBlock, OldBlock} =>
       op = "write" /\ BlockAt(card.arg) = Place(StartBlock, card.block)

(* Every place of the card that is no longer old has its block.            *)
PlaceInv ==
  \A lba \in 0 .. (CardBlocks - 1) :
    mem[lba] # OldBlock => op = "write" /\ lba = Place(StartBlock, mem[lba])

\* Places of a write with a block in hand.
InHand == {"select", "selectWait", "blocklen", "blocklenWait", "data", "commandWait", "writeWait"}

\* Answers of a call that has worked through its blocks as far as it says.
Kept == pc \in {"initWait", "files"} \cup Loop \/ (pc = "idle" /\ ret \in {0, -21})

(* Block k of the file is in its place.                                    *)
Stored(k) == Place(StartBlock, k) < CardBlocks /\ mem[Place(StartBlock, k)] = k

\* Has block i its command, or is it about to have one?
Taken == IF pc \in InHand THEN 1 ELSE 0

(* How far a write has come: the blocks before the i-th are in their       *)
(* places, as long as no other block has the same one, and a block that    *)
(* the controller has in hand or reports as complete is the i-th.          *)
WriteInv ==
  op = "write" =>
    /\ pc \notin {"readWait", "save"}
    /\ pc \in {"open", "init", "initWait", "files"} => i = 0
    /\ Kept => \A k \in 0 .. (i - 1) : i - k + Taken <= Addressable => Stored(k)
    /\ Kept /\ card.block # NoBlock =>
         pc = "writeWait" /\ card.block = i /\ "complete" \notin ints
    /\ pc \in InHand => buffer = i
    /\ pc = "commandWait" => /\ card.cmd = "write" /\ BlockAt(card.arg) = Place(StartBlock, i)
                            /\ "complete" \notin ints
    /\ pc = "writeWait" /\ "complete" \in ints => Stored(i)
    /\ pc = "idle" /\ ret = 0 => i = BlockCount

WInv == CardInv /\ PlaceInv /\ WriteInv

USE DEF InHand, Kept, Taken, Stored

(* The invariant of a write holds before the first call.                   *)
LEMMA WriteInit == Init => WInv
BY EmmcAssumption DEF Init, WInv, CardInv, PlaceInv, WriteInv, NoCommand

(* A new command leaves the NAND and the blocks alone, and has none.       *)
LEMMA NewCommand ==
  ASSUME NEW c \in Names, NEW arg \in Nat, Execute(c, arg), CardInv, UNCHANGED <<op, StartBlock, mem>>
  PROVE  /\ CardInv' /\ card'.block = NoBlock /\ card'.cmd = c /\ card'.arg = arg
         /\ ints' = {} /\ card' \in Commands
<1>1. card' = [cmd |-> c, arg |-> arg, accepted |-> FALSE, block |-> NoBlock] /\ ints' = {}
  BY DEF Execute, NoCommand
<1>2. card' \in Commands
  BY Executed
<1>3. QED
  BY <1>1, <1>2 DEF CardInv

(* Every step of driver, card and controller keeps it.                     *)
LEMMA WriteStep == IInv /\ WInv /\ [Next]_vars => WInv'
<1> SUFFICES ASSUME IInv, WInv, [Next]_vars PROVE WInv'
  OBVIOUS
<1>n. /\ DataOK /\ StartBlock \in Nat /\ i \in Nat /\ CardBlocks \in Nat
      /\ card \in Commands /\ op \in {"read", "write"} /\ Addressable \in Nat \ {0}
  BY EmmcAssumption DEF IInv, DataOK
<1> USE DEF WInv, WriteInv, flags, call, owned, data, hw
<1>1. ASSUME NEW s \in Starts, NEW n, NEW p, NEW o \in {"read", "write"}, Begin(o, s, n, p)
      PROVE  WInv'
  <2>1. /\ card'.cmd = card.cmd /\ card'.arg = card.arg /\ card'.accepted = card.accepted
        /\ card'.block \in {NoBlock, OldBlock} /\ (card.block = NoBlock => card'.block = NoBlock)
    BY <1>n, <1>1 DEF Begin, Commands
  <2>2. CardInv' /\ PlaceInv'
    BY <1>1, <2>1 DEF Begin, CardInv, PlaceInv
  <2>3. WriteInv'
    BY <1>1 DEF Begin
  <2>4. QED
    BY <2>2, <2>3
<1>2. CASE Open
  BY <1>n, <1>2 DEF Open, Return, CardInv, PlaceInv
<1>3. CASE InitReset
  <2>1. card' = NoCommand /\ mem' = mem
    BY <1>3 DEF InitReset
  <2>2. CardInv' /\ PlaceInv'
    BY <1>3, <2>1 DEF InitReset, CardInv, PlaceInv, NoCommand
  <2>3. WriteInv'
    BY <1>n, <1>3, <2>1 DEF InitReset, NoCommand
  <2>4. QED
    BY <2>2, <2>3
<1>4. CASE InitDone
  BY <1>n, <1>4 DEF InitDone, CardInv, PlaceInv
<1>5. CASE OpenFiles
  BY <1>n, <1>5 DEF OpenFiles, Return, CardInv, PlaceInv
<1>6. CASE AllDone
  BY <1>n, <1>6 DEF AllDone, Return, CardInv, PlaceInv
<1>7. CASE NextBlock
  BY <1>n, <1>7 DEF NextBlock, Return, CardInv, PlaceInv
<1>8. CASE SelectCard
  <2>1. CASE is_selected
    BY <1>n, <1>8, <2>1 DEF SelectCard, CardInv, PlaceInv
  <2>2. CASE ~is_selected
    <3>1. Execute("select", 0) /\ "select" \in Names /\ 0 \in Nat /\ UNCHANGED <<op, StartBlock, mem>>
      BY <1>8, <2>2 DEF SelectCard, Names
    <3>2. CardInv' /\ card'.block = NoBlock
      BY <3>1, NewCommand
    <3>3. QED
      BY <1>n, <1>8, <2>2, <3>2 DEF SelectCard, PlaceInv
  <2>3. QED
    BY <2>1, <2>2
<1>9. CASE SetBlocklen
  <2>1. CASE is_block_set
    BY <1>n, <1>9, <2>1 DEF SetBlocklen, CardInv, PlaceInv
  <2>2. CASE ~is_block_set
    <3>1. Execute("blocklen", 0) /\ "blocklen" \in Names /\ 0 \in Nat /\ UNCHANGED <<op, StartBlock, mem>>
      BY <1>9, <2>2 DEF SetBlocklen, Names
    <3>2. CardInv' /\ card'.block = NoBlock
      BY <3>1, NewCommand
    <3>3. QED
      BY <1>n, <1>9, <2>2, <3>2 DEF SetBlocklen, PlaceInv
  <2>3. QED
    BY <2>1, <2>2
<1>10. CASE DataCommand
  <2>1. StartBlock + i \in Nat
    BY <1>n
  <2>2. Execute(op, Address((StartBlock + i) % Wrap)) /\ op \in Names /\ UNCHANGED <<op, StartBlock, mem>>
    BY <1>n, <1>10 DEF DataCommand, Names
  <2>3. CardInv' /\ card'.block = NoBlock /\ card'.cmd = op /\ ints' = {}
        /\ BlockAt(card'.arg) = Place(StartBlock, i)
    BY <2>1, <2>2, NewCommand, AddressOfBlock DEF Place
  <2>4. QED
    BY <1>n, <1>10, <2>3 DEF DataCommand, PlaceInv
<1>11. CASE PollAgain
  BY <1>n, <1>11 DEF PollAgain, CardInv, PlaceInv
<1>12. CASE Answered
  BY <1>n, <1>12 DEF Answered, CardInv, PlaceInv
<1>13. CASE ReadArrived
  BY <1>n, <1>13 DEF ReadArrived, CardInv, PlaceInv
<1>14. CASE SaveBlock
  BY <1>n, <1>14 DEF SaveBlock, Return, CardInv, PlaceInv
<1>15. CASE SendBlock
  <2>1. /\ pc = "commandWait" /\ pc' = "writeWait"
        /\ UNCHANGED <<op, StartBlock, BlockCount, i, buffer, ret, mem, ints>>
    BY <1>15 DEF SendBlock
  <2>2. CASE op = "write" /\ card.accepted
    <3>1. /\ card'.cmd = card.cmd /\ card'.arg = card.arg /\ card'.accepted = card.accepted
          /\ card'.block = i
      BY <1>n, <1>15, <2>1, <2>2 DEF SendBlock, Commands
    <3>2. card.cmd = "write" /\ BlockAt(card.arg) = Place(StartBlock, i)
      BY <1>n, <2>1, <2>2
    <3>3. CardInv'
      BY <2>1, <2>2, <3>1, <3>2 DEF CardInv
    <3>4. PlaceInv' /\ WriteInv'
      BY <1>n, <2>1, <2>2, <3>1 DEF PlaceInv
    <3>5. QED
      BY <3>3, <3>4
  <2>3. CASE op = "write" /\ ~card.accepted
    BY <1>n, <1>15, <2>1, <2>3 DEF SendBlock, CardInv, PlaceInv
  <2>4. CASE op = "read"
    BY <2>1, <2>4 DEF IInv, ReadInv
  <2>5. QED
    BY <1>n, <2>2, <2>3, <2>4
<1>16. CASE BlockWritten
  <2>1. /\ pc = "writeWait" /\ pc' = "block" /\ i' = i + 1 /\ "complete" \in ints
        /\ UNCHANGED <<op, StartBlock, BlockCount, ret, mem, card>>
    BY <1>16 DEF BlockWritten, Want
  <2>2. op = "write"
    BY <1>n, <2>1 DEF IInv, ReadInv
  <2>3. ASSUME NEW k \in 0 .. (i' - 1), i' - k <= Addressable PROVE Stored(k)'
    <3>1. Stored(k)
      BY <1>n, <2>1, <2>2, <2>3
    <3>2. QED
      BY <2>1, <3>1 DEF Place
  <2>4. card'.block = NoBlock
    BY <1>n, <2>1, <2>2
  <2>5. CardInv' /\ PlaceInv'
    BY <2>1 DEF CardInv, PlaceInv, Place
  <2>6. QED
    BY <2>1, <2>3, <2>4, <2>5
<1>17. CASE Deselect
  <2>1. Execute("deselect", 0) /\ "deselect" \in Names /\ 0 \in Nat /\ UNCHANGED <<op, StartBlock, mem>>
        /\ op = "read"
    BY <1>17 DEF Deselect, Names
  <2>2. CardInv'
    BY <2>1, NewCommand
  <2>3. QED
    BY <2>1, <2>2 DEF PlaceInv
<1>18. CASE GiveUp
  BY <1>n, <1>18 DEF GiveUp, Return, CardInv, PlaceInv
<1>19. CASE Lost
  BY <1>n, <1>19 DEF Lost, CardInv, PlaceInv
<1>20. CASE ResetDone
  BY <1>n, <1>20 DEF ResetDone, CardInv, PlaceInv
<1>21. CASE Accept
  <2>1. /\ card'.cmd = card.cmd /\ card'.arg = card.arg /\ card'.accepted /\ card'.block = card.block
        /\ card.cmd = "write" => BlockAt(card.arg) < CardBlocks
    BY <1>n, <1>21 DEF Accept, Commands
  <2>2. UNCHANGED <<op, StartBlock, BlockCount, i, buffer, ret, mem, pc>>
        /\ ("complete" \in ints' => "complete" \in ints)
    BY <1>21 DEF Accept
  <2>3. CardInv' /\ PlaceInv'
    BY <2>1, <2>2 DEF CardInv, PlaceInv
  <2>4. WriteInv'
    BY <2>1, <2>2
  <2>5. QED
    BY <2>3, <2>4
<1>22. CASE Store
  <2> DEFINE lba == BlockAt(card.arg)
  <2>1. /\ card' = NoCommand /\ mem' = [mem EXCEPT ![lba] = card.block]
        /\ card.block # NoBlock /\ card.cmd = "write"
        /\ UNCHANGED <<op, StartBlock, BlockCount, i, buffer, ret, pc>>
    BY <1>22 DEF Store
  <2>2. lba \in 0 .. (CardBlocks - 1) /\ card.block \in Int
    <3>1. lba \in Nat
      BY <1>n, EmmcAssumption, Division DEF BlockAt, Commands
    <3>2. QED
      BY <1>n, <2>1, <3>1 DEF CardInv, Commands
  <2> HIDE DEF lba
  <2>3. CardInv' /\ PlaceInv'
    <3>1. card.block # OldBlock => op = "write" /\ lba = Place(StartBlock, card.block)
      BY <2>1 DEF CardInv, lba
    <3>2. mem' \in [0 .. (CardBlocks - 1) -> Int]
      BY <2>1, <2>2 DEF CardInv
    <3>3. CardInv'
      BY <2>1, <3>2 DEF CardInv, NoCommand
    <3>4. PlaceInv'
      BY <2>1, <2>2, <3>1 DEF CardInv, PlaceInv, Place
    <3>5. QED
      BY <3>3, <3>4
  <2>4. CASE op = "write" /\ Kept
    <3>1. pc = "writeWait" /\ card.block = i /\ lba = Place(StartBlock, i)
      BY <1>n, <2>1, <2>4 DEF CardInv, lba
    <3>2. ASSUME NEW k \in 0 .. (i - 1), i - k + 1 <= Addressable PROVE Stored(k)'
      <4>1. Stored(k)
        BY <1>n, <2>4, <3>1, <3>2
      <4>2. Place(StartBlock, k) # Place(StartBlock, i)
        BY <1>n, <3>2, PlacesDiffer
      <4>3. Place(StartBlock, k) \in Nat
        BY <1>n, <3>2, Division DEF Place
      <4>4. mem'[Place(StartBlock, k)] = mem[Place(StartBlock, k)]
        BY <2>1, <2>2, <3>1, <4>1, <4>2, <4>3 DEF CardInv
      <4>5. QED
        BY <2>1, <4>1, <4>4 DEF Place
    <3>3. Stored(i)'
      <4>1. mem'[lba] = card.block
        BY <2>1, <2>2 DEF CardInv
      <4>p. lba < CardBlocks
        BY <1>n, <2>2
      <4>2. QED
        BY <2>1, <3>1, <4>1, <4>p
    <3>4. QED
      BY <2>1, <2>3, <2>4, <3>1, <3>2, <3>3 DEF NoCommand
  <2>5. CASE op = "write" /\ ~Kept
    BY <2>1, <2>3, <2>5
  <2>6. CASE op = "read"
    BY <2>1, <2>3, <2>6
  <2>7. QED
    BY <1>n, <2>4, <2>5, <2>6
<1>23. CASE UNCHANGED vars
  BY <1>23 DEF vars, CardInv, PlaceInv
<1>24. ASSUME NEW s \in Starts, NEW n \in Lengths, CallRead(s, n) PROVE WInv'
  BY <1>1, <1>24 DEF CallRead
<1>25. ASSUME NEW s \in Starts, NEW size \in FileSizes, CallWrite(s, size) PROVE WInv'
  BY <1>1, <1>25 DEF CallWrite
<1>26. QED
  BY <1>2, <1>3, <1>4, <1>5, <1>6, <1>7, <1>8, <1>9, <1>10, <1>11, <1>12, <1>13, <1>14, <1>15,
     <1>16, <1>17, <1>18, <1>19, <1>20, <1>21, <1>22, <1>23, <1>24, <1>25
     DEF Next, Starting, Driver, Device

(* Whatever the card is late with, a write has every block before the one  *)
(* it stopped at in its place, which from block 2^23 on is one at the      *)
(* start of the card, and nothing anywhere else.                           *)
THEOREM WriteTheorem == Spec => []WriteIsExact
<1>1. IInv /\ WInv => WriteIsExact
  <2> SUFFICES ASSUME IInv, WInv PROVE WriteIsExact
    OBVIOUS
  <2>1. i \in Nat /\ Addressable \in Nat
    BY EmmcAssumption DEF IInv, DataOK
  <2>2. QED
    BY <2>1 DEF WInv, CardInv, PlaceInv, WriteInv, WriteIsExact, Place
<1>2. QED
  BY InvariantHolds, WriteInit, WriteStep, <1>1, PTL DEF Spec

-------------------------------------------------------------------------------
(* What a call gives back.                                                 *)

(* Before the device is open a write has its buffer, a read nothing.       *)
HeldInv == pc = "open" => held = IF op = "write" THEN {"buffer"} ELSE {}

(* A call that returns has closed the device and its file, and freed its   *)
(* buffer but for a write that could not open the device.                  *)
THEOREM ReleaseTheorem == Spec => []ReleasedOnReturn
<1>1. Init => HeldInv /\ ReleasedOnReturn
  BY DEF Init, HeldInv, ReleasedOnReturn
<1>2. HeldInv /\ ReleasedOnReturn /\ [Next]_vars => HeldInv' /\ ReleasedOnReturn'
  <2> SUFFICES ASSUME HeldInv, ReleasedOnReturn, [Next]_vars
               PROVE  HeldInv' /\ ReleasedOnReturn'
    OBVIOUS
  <2> USE DEF HeldInv, ReleasedOnReturn, owned, call, Return
  <2>1. CASE Starting
    BY <2>1 DEF Starting, CallRead, CallWrite, Begin
  <2>2. CASE Open \/ InitReset \/ InitDone \/ OpenFiles \/ AllDone \/ NextBlock
    BY <2>2 DEF Open, InitReset, InitDone, OpenFiles, AllDone, NextBlock
  <2>3. CASE SelectCard \/ SetBlocklen \/ DataCommand \/ PollAgain \/ Answered \/ ReadArrived
    BY <2>3 DEF SelectCard, SetBlocklen, DataCommand, PollAgain, Answered, ReadArrived
  <2>4. CASE SaveBlock \/ SendBlock \/ BlockWritten \/ Deselect \/ GiveUp \/ Lost
    BY <2>4 DEF SaveBlock, SendBlock, BlockWritten, Deselect, GiveUp, Lost
  <2>5. CASE Device \/ UNCHANGED vars
    BY <2>5 DEF Device, ResetDone, Accept, Store, vars
  <2>6. QED
    BY <2>1, <2>2, <2>3, <2>4, <2>5 DEF Next, Driver
<1>3. QED
  BY <1>1, <1>2, PTL DEF Spec

===============================================================================
