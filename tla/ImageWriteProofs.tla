--------------------------- MODULE ImageWriteProofs ---------------------------
(***************************************************************************)
(* Theorems about the geometry, the buffer and the pages of a write, for   *)
(* any consoles in any order, any sizes and any arguments.                 *)
(***************************************************************************)
EXTENDS ImageWrite, WellFoundedInduction, FiniteSetTheorems, TLAPS

(* The arguments of a call are among those of the constants.               *)
ArgsOK ==
  /\ config \in Configs
  /\ StartBlock \in Nat
  /\ block_flash_max \in 0 .. (MaxUnsigned - 1)
  /\ file \in Nat

(* A call that goes on has a NAND that SFC_init knows.                     *)
KnownNand == pc \in {"load", "write"} => Supported(config)

(* The range ends within the limit, and where the file does if its size is *)
(* known; fread has delivered some pages.                                  *)
LoadedInv ==
  pc = "write" =>
    /\ End_Block \in Nat /\ End_Block <= block_flash_max /\ loaded \in Nat
    /\ FileIsTold => End_Block = EndOfRange(file)

IInv == ArgsOK /\ KnownNand /\ LoadedInv /\ GeometryIsOwn /\ BufferHoldsImage

-------------------------------------------------------------------------------
(* Induction.  The principle is stated with a set: the library's theorem   *)
(* has a predicate for a parameter, which no prover instantiates.          *)

(* A set of natural numbers has a least one.                               *)
LEMMA LeastNatural ==
  ASSUME NEW T \in SUBSET Nat, T # {}
  PROVE  \E x \in T : \A y \in T : x <= y
<1> DEFINE R == OpToRel(<, Nat)
<1>1. IsWellFoundedOn(R, Nat)
  BY NatLessThanWellFounded
<1>2. R = {ss \in Nat \X Nat : ss[1] < ss[2]}
  BY DEF OpToRel
<1> HIDE DEF R
<1>3. PICK x \in T : \A y \in T : ~ (<<y, x>> \in R)
  BY <1>1, WFMin
<1>4. ASSUME NEW y \in T, y < x PROVE FALSE
  <2>1. <<y, x>> \in Nat \X Nat
    OBVIOUS
  <2>2. <<y, x>> \in R
    BY <1>2, <1>4, <2>1
  <2>3. QED
    BY <1>3, <2>2
<1>5. QED
  BY <1>4

(* A set that has 0 and with each number the next one has them all.        *)
LEMMA Induction ==
  ASSUME NEW S, 0 \in S, \A n \in Nat : n \in S => n + 1 \in S
  PROVE  Nat \subseteq S
<1>1. SUFFICES ASSUME Nat \ S # {} PROVE FALSE
  OBVIOUS
<1>2. PICK x \in Nat \ S : \A y \in Nat \ S : x <= y
  BY <1>1, LeastNatural
<1>3. x # 0 /\ x - 1 \in Nat /\ x - 1 \notin S
  BY <1>2
<1>4. QED
  BY <1>2, <1>3

-------------------------------------------------------------------------------
(* Quotients.                                                              *)

(* Division is monotonic.                                                  *)
LEMMA QuotientAtLeast ==
  ASSUME NEW a \in Nat, NEW b \in Nat, NEW k \in Nat \ {0}, k * b <= a
  PROVE  b <= a \div k
<1> DEFINE d == a \div k
<1>1. d \in Nat /\ a < k * d + k
  OBVIOUS
<1>2. ASSUME d + 1 <= b PROVE FALSE
  <2>1. PICK x \in Nat : b = d + 1 + x
    <3>1. b - (d + 1) \in Nat /\ b = d + 1 + (b - (d + 1))
      BY <1>1, <1>2
    <3>2. QED
      BY <3>1
  <2>2. k * b = k * d + k + k * x
    BY <1>1, <2>1
  <2>3. k * x \in Nat /\ k * d \in Nat /\ k * b \in Nat
    BY <1>1, <2>1
  <2>4. QED
    BY <1>1, <2>2, <2>3
<1>3. QED
  BY <1>1, <1>2

(* A quotient is the only number whose multiple is that near.              *)
LEMMA QuotientIs ==
  ASSUME NEW a \in Nat, NEW b \in Nat, NEW k \in Nat \ {0}, k * b <= a, a < k * b + k
  PROVE  a \div k = b
<1> DEFINE d == a \div k
<1>1. d \in Nat /\ k * d <= a
  OBVIOUS
<1>2. b <= d
  BY QuotientAtLeast
<1>3. k * (b + 1) = k * b + k /\ k * b \in Nat /\ k * (b + 1) \in Nat
  OBVIOUS
<1>4. ASSUME b + 1 <= d PROVE FALSE
  <2>1. PICK x \in Nat : d = b + 1 + x
    <3>1. d - (b + 1) \in Nat /\ d = b + 1 + (d - (b + 1))
      BY <1>1, <1>4
    <3>2. QED
      BY <3>1
  <2>2. k * d = k * b + k + k * x /\ k * x \in Nat
    BY <2>1
  <2>3. QED
    BY <1>1, <1>3, <2>2
<1>5. QED
  BY <1>1, <1>2, <1>4

-------------------------------------------------------------------------------
(* SFC_init.                                                               *)

(* The size of the data partition does not depend on the console before,   *)
(* but for a controller of the last revision with size code 0.             *)
LEMMA PartitionIsOwn ==
  ASSUME NEW c \in Configs, NEW s, NEW t, Supported(c), c.size # 0
  PROVE  DataPartition(c, s) = DataPartition(c, t)
BY DEF Configs, Supported, DataPartition, Large

(* Nor does the size of the NAND, ever.                                    *)
LEMMA SizeIsOwn ==
  ASSUME NEW c \in Configs, NEW s, NEW t, Supported(c)
  PROVE  NandSizes(c, s) = NandSizes(c, t)
BY PartitionIsOwn DEF NandSizes

(* SFC_init leaves the same geometry whatever it finds.                    *)
LEMMA InitIsOwn ==
  ASSUME NEW c \in Configs, NEW s, Supported(c), NEW r \in SFC_init(c, s)
  PROVE  \E fresh \in SFC_init(c, NoSfc) :
           /\ r.PageCountInBlock = fresh.PageCountInBlock
           /\ r.LargeBlock = fresh.LargeBlock
           /\ c.size # 0 => r.PagesCountInNand = fresh.PagesCountInNand
           /\ r.NandSize = fresh.NandSize
<1> DEFINE Filled(t, n) ==
      [Initialized           |-> TRUE,
       LargeBlock            |-> IF Large(c) THEN c.size ELSE 0,
       BlockSize             |-> BlockSize(c),
       PageCountInBlock      |-> BlockSize(c),
       NandSizeDataPartition |-> DataPartition(c, t),
       NandSize              |-> n,
       PagesCountInNand      |-> DataPartition(c, t)]
<1>1. \A t : SFC_init(c, t) = {Filled(t, n) : n \in NandSizes(c, t)}
  BY DEF SFC_init
<1>2. PICK n \in NandSizes(c, s) : r = Filled(s, n)
  BY <1>1
<1>3. Filled(NoSfc, n) \in SFC_init(c, NoSfc)
  BY <1>1, <1>2, SizeIsOwn
<1>4. c.size # 0 => DataPartition(c, s) = DataPartition(c, NoSfc)
  BY PartitionIsOwn
<1>5. QED
  BY <1>2, <1>3, <1>4

-------------------------------------------------------------------------------
(* The buffer.                                                             *)

(* What fread delivers is no more than the limit when the write begins     *)
(* within it, and is the whole range when there is one, although the       *)
(* number of pages it is asked for wraps when the file ends before         *)
(* startblock.                                                             *)
LEMMA LoadFits ==
  ASSUME NEW M \in Nat \ {0}, NEW s \in Nat, NEW e \in 0 .. (M - 1), NEW f \in Nat
  PROVE  LET end  == Minimum(e, f)
             load == Minimum((end - s) % M, f)
         IN  /\ s <= e => load <= e
             /\ s < end => end - s <= load
<1> DEFINE end == Minimum(e, f)
<1>1. end \in 0 .. (M - 1) /\ end <= e /\ end <= f /\ (end = e \/ end = f)
  BY DEF Minimum
<1>2. CASE s <= end
  <2>1. (end - s) \in 0 .. (M - 1)
    BY <1>1, <1>2
  <2>2. (end - s) % M = end - s
    BY <2>1
  <2>3. QED
    BY <1>1, <1>2, <2>2 DEF Minimum
<1>3. CASE end < s
  <2>1. (end - s) % M \in 0 .. (M - 1)
    BY <1>1
  <2>2. s <= e => end = f
    BY <1>1, <1>3
  <2>3. QED
    BY <1>1, <1>3, <2>1, <2>2 DEF Minimum
<1>4. QED
  BY <1>1, <1>2, <1>3

(* A size that an int holds is told as it is.                              *)
LEMMA SizeIsTold ==
  ASSUME NEW f \in Nat, f * RawPage <= MaxInt
  PROVE  \A size \in ftell(f * RawPage) : size \div RawPage = f
<1>1. RawPage \in Nat \ {0} /\ RawPage * f = f * RawPage /\ f * RawPage \in Nat
  BY ImageAssumption
<1>2. (f * RawPage) \div RawPage = f
  BY <1>1, QuotientIs
<1>3. QED
  BY <1>2 DEF ftell

(* Any other is some number.                                               *)
LEMMA SizeIsNumber ==
  ASSUME NEW f \in Nat
  PROVE  \A size \in ftell(f * RawPage) : size \in Nat /\ size \div RawPage \in Nat
<1>1. /\ RawPage \in Nat \ {0} /\ MaxUnsigned \in Nat \ {0} /\ f * RawPage \in Nat
      /\ (f * RawPage) % MaxUnsigned \in Nat
  BY ImageAssumption
<1>2. \A size \in ftell(f * RawPage) : size \in Nat
  BY <1>1 DEF ftell
<1>3. QED
  BY <1>1, <1>2

(* Pages up to the limit fit in the buffer if their bytes are no more than *)
(* malloc can be asked for.                                                *)
LEMMA BufferFits ==
  ASSUME NEW read \in Nat, block_flash_max \in Nat, read <= block_flash_max,
         block_flash_max * RawPage < MaxUnsigned
  PROVE  read * RawPage <= BufferBytes
<1>1. RawPage \in Nat \ {0} /\ MaxUnsigned \in Nat \ {0}
  BY ImageAssumption
<1>2. PICK x \in Nat : block_flash_max = read + x
  <2>1. block_flash_max - read \in Nat /\ block_flash_max = read + (block_flash_max - read)
    OBVIOUS
  <2>2. QED
    BY <2>1
<1>3. /\ block_flash_max * RawPage = read * RawPage + x * RawPage
      /\ x * RawPage \in Nat /\ read * RawPage \in Nat
  BY <1>1, <1>2
<1>4. BufferBytes = block_flash_max * RawPage
  <2>1. block_flash_max * RawPage \in 0 .. (MaxUnsigned - 1)
    BY <1>1, <1>3
  <2>2. \A n \in 0 .. (MaxUnsigned - 1) : n % MaxUnsigned = n
    BY <1>1
  <2>3. QED
    BY <2>1, <2>2 DEF BufferBytes
<1>5. QED
  BY <1>3, <1>4

-------------------------------------------------------------------------------
(* The code.                                                               *)

(* The values of val, round by round.                                      *)
IsRounds(val, page, n) ==
  val = [i \in 0 .. n |-> IF i = 0 THEN {} ELSE Step(val[i - 1], page[i - 1])]

(* There are such values, for any page and number of rounds: what a        *)
(* recursive function needs to be one.                                     *)
LEMMA RoundsExist ==
  ASSUME NEW page, NEW n \in Nat
  PROVE  \E val : IsRounds(val, page, n)
<1> DEFINE S == {k \in Nat : \E val : IsRounds(val, page, k)}
<1>1. 0 \in S
  <2>1. IsRounds([i \in 0 .. 0 |-> {}], page, 0)
    BY DEF IsRounds
  <2>2. QED
    BY <2>1
<1>2. ASSUME NEW k \in Nat, k \in S
      PROVE  k + 1 \in S
  <2>1. PICK val : IsRounds(val, page, k)
    BY <1>2
  <2>2. DEFINE more == [i \in 0 .. k + 1 |-> IF i = k + 1 THEN Step(val[k], page[k]) ELSE val[i]]
  <2>3. \A i \in 0 .. k : more[i] = val[i]
    OBVIOUS
  <2>4. ASSUME NEW i \in 0 .. k + 1
        PROVE  more[i] = IF i = 0 THEN {} ELSE Step(more[i - 1], page[i - 1])
    <3>1. CASE i = k + 1
      <4>1. more[i] = Step(val[k], page[k]) /\ i - 1 = k /\ i # 0 /\ more[k] = val[k]
        BY <3>1, <2>3
      <4>2. QED
        BY <4>1
    <3>2. CASE i \in 0 .. k /\ i # 0
      <4>1. more[i] = val[i] /\ i - 1 \in 0 .. k /\ more[i - 1] = val[i - 1]
        BY <3>2, <2>3
      <4>2. val[i] = Step(val[i - 1], page[i - 1])
        BY <2>1, <3>2 DEF IsRounds
      <4>3. QED
        BY <3>2, <4>1, <4>2
    <3>3. CASE i = 0
      BY <2>1, <2>3, <3>3 DEF IsRounds
    <3>4. QED
      BY <3>1, <3>2, <3>3
  <2>5. IsRounds(more, page, k + 1)
    BY <2>4 DEF IsRounds
  <2>6. QED
    BY <2>5
<1>3. Nat \subseteq S
  <2> HIDE DEF S
  <2>1. QED
    BY <1>1, <1>2, Induction
<1>4. QED
  BY <1>3

(* The values of val when all bits that are covered have been taken.       *)
Rounds(page) == CHOOSE val : IsRounds(val, page, Covered)

(* Each round makes its val from the last one and its bit.                 *)
LEMMA RoundsAre ==
  ASSUME NEW page
  PROVE  /\ Rounds(page)[0] = {}
         /\ \A i \in 0 .. (Covered - 1) : Rounds(page)[i + 1] = Step(Rounds(page)[i], page[i])
<1>1. Covered \in Nat \ {0}
  BY EccAssumption DEF Covered, SpareBytes
<1>2. IsRounds(Rounds(page), page, Covered)
  BY <1>1, RoundsExist DEF Rounds
<1>3. ASSUME NEW val, IsRounds(val, page, Covered)
      PROVE  /\ val[0] = {}
             /\ \A i \in 0 .. (Covered - 1) : val[i + 1] = Step(val[i], page[i])
  <2>1. val[0] = {}
    BY <1>1, <1>3 DEF IsRounds
  <2>2. ASSUME NEW i \in 0 .. (Covered - 1)
        PROVE  val[i + 1] = Step(val[i], page[i])
    <3>1. i + 1 \in 0 .. Covered /\ i + 1 # 0 /\ i + 1 - 1 = i
      BY <1>1
    <3>2. \A j \in 0 .. Covered : val[j] = IF j = 0 THEN {} ELSE Step(val[j - 1], page[j - 1])
      BY <1>3 DEF IsRounds
    <3>3. QED
      BY <3>1, <3>2
  <2>3. QED
    BY <2>1, <2>2
<1>4. QED
  BY <1>2, <1>3

(* fixECC stores the complement of the last val.                           *)
LEMMA CodeIs ==
  ASSUME NEW page
  PROVE  fixECC(page) = [i \in PageBits |->
           CASE i = Spare(CodeByte) -> 0
             [] i < Spare(CodeByte) -> page[i]
             [] OTHER               -> IF i - Covered \in Rounds(page)[Covered] THEN 0 ELSE 1]
BY DEF fixECC, Rounds, IsRounds

(* The pairs of exponents that Times counts for the exponent e.            *)
Pairs(q, e) == {t \in Generator \X q : t[1] + t[2] = e}

(* The generator, written forwards.                                        *)
LEMMA GeneratorIs ==
  /\ Generator \subseteq 0 .. Degree
  /\ \A g \in Int : g \in Generator <=> Degree - g \in Feedback
<1>1. Degree \in Nat /\ Feedback \subseteq 0 .. Degree
  BY EccAssumption
<1>2. ASSUME NEW g \in Int, Degree - g \in Feedback
      PROVE  g \in Generator
  <2>1. g = Degree - (Degree - g)
    BY <1>1
  <2>2. QED
    BY <1>2, <2>1 DEF Generator
<1>3. ASSUME NEW g \in Generator
      PROVE  g \in 0 .. Degree /\ Degree - g \in Feedback
  <2>1. PICK k \in Feedback : g = Degree - k
    BY DEF Generator
  <2>2. k \in 0 .. Degree /\ Degree - g = k
    BY <1>1, <2>1
  <2>3. QED
    BY <1>1, <2>1, <2>2
<1>4. QED
  BY <1>2, <1>3

(* There are finitely many pairs.                                          *)
LEMMA PairsFinite ==
  ASSUME NEW q \in SUBSET (0 .. (Covered - 1)), NEW e
  PROVE  IsFiniteSet(Pairs(q, e)) /\ Cardinality(Pairs(q, e)) \in Nat
<1>1. Covered - 1 \in Int /\ Degree \in Int
  BY EccAssumption DEF Covered, SpareBytes
<1>2. IsFiniteSet(q) /\ IsFiniteSet(Generator)
  <2>1. IsFiniteSet(0 .. (Covered - 1)) /\ IsFiniteSet(0 .. Degree)
    BY <1>1, FS_Interval
  <2>2. Generator \in SUBSET (0 .. Degree)
    BY GeneratorIs
  <2>3. QED
    BY <2>1, <2>2, FS_Subset
<1>3. IsFiniteSet(Generator \X q)
  BY <1>2, FS_Product
<1>4. Pairs(q, e) \in SUBSET (Generator \X q)
  BY DEF Pairs
<1>5. IsFiniteSet(Pairs(q, e))
  BY <1>3, <1>4, FS_Subset
<1>6. QED
  BY <1>5, FS_CardinalityType

(* A product with nothing is nothing.                                      *)
LEMMA TimesNothing == Times(Generator, {}) = {}
<1>1. \A e : Pairs({}, e) = {}
  BY DEF Pairs
<1>2. Cardinality({}) = 0
  BY FS_EmptySet
<1>3. QED
  BY <1>1, <1>2 DEF Times, Pairs

(* One more exponent in a factor adds the generator, shifted.              *)
LEMMA TimesOneMore ==
  ASSUME NEW q \in SUBSET (0 .. (Covered - 1)), NEW n \in (0 .. (Covered - 1)) \ q, NEW e \in Int
  PROVE  e \in Times(Generator, q \cup {n}) <=> ~ (e \in Times(Generator, q) <=> e - n \in Generator)
<1>1. Covered \in Nat /\ Degree \in Nat /\ n \in Nat /\ n < Covered
  BY EccAssumption DEF Covered, SpareBytes
<1>2. \A g \in Generator : g \in Int
  BY <1>1, GeneratorIs
<1>3. e - n \in Generator => e \in 0 .. (Covered + Degree)
  BY <1>1, GeneratorIs
<1>4. ASSUME NEW p \in SUBSET (0 .. (Covered - 1))
      PROVE  e \in Times(Generator, p) <=> e \in 0 .. (Covered + Degree) /\ Cardinality(Pairs(p, e)) % 2 = 1
  BY DEF Times, Pairs
<1>5. q \cup {n} \in SUBSET (0 .. (Covered - 1))
  OBVIOUS
<1>6. CASE e - n \in Generator
  <2>1. <<e - n, n>> \notin Pairs(q, e)
    BY DEF Pairs
  <2>2. Pairs(q \cup {n}, e) = Pairs(q, e) \cup {<<e - n, n>>}
    <3>1. ASSUME NEW t \in Pairs(q \cup {n}, e) PROVE t \in Pairs(q, e) \cup {<<e - n, n>>}
      <4>1. t \in Generator \X (q \cup {n}) /\ t[1] + t[2] = e
        BY DEF Pairs
      <4>2. t[1] \in Generator /\ t[2] \in q \cup {n}
        BY <4>1
      <4>3. t[1] \in Int
        BY <1>2, <4>2
      <4>4. CASE t[2] = n
        <5>1. t = <<t[1], t[2]>> /\ t[1] = e - n
          BY <1>1, <4>1, <4>2, <4>3, <4>4
        <5>2. QED
          BY <4>4, <5>1
      <4>5. CASE t[2] \in q
        BY <4>1, <4>2, <4>5 DEF Pairs
      <4>6. QED
        BY <4>2, <4>4, <4>5
    <3>2. <<e - n, n>> \in Pairs(q \cup {n}, e)
      <4>1. e - n + n = e
        BY <1>1
      <4>2. QED
        BY <1>6, <4>1 DEF Pairs
    <3>3. Pairs(q, e) \subseteq Pairs(q \cup {n}, e)
      BY DEF Pairs
    <3>4. QED
      BY <3>1, <3>2, <3>3
  <2>3. Cardinality(Pairs(q \cup {n}, e)) = Cardinality(Pairs(q, e)) + 1
    BY <2>1, <2>2, PairsFinite, FS_AddElement
  <2>4. Cardinality(Pairs(q, e)) \in Nat
    BY PairsFinite
  <2>5. Cardinality(Pairs(q \cup {n}, e)) % 2 = 1 <=> ~ (Cardinality(Pairs(q, e)) % 2 = 1)
    BY <2>3, <2>4
  <2>6. QED
    BY <1>3, <1>4, <1>5, <1>6, <2>5
<1>7. CASE e - n \notin Generator
  <2>1. ASSUME NEW t \in Pairs(q \cup {n}, e) PROVE t \in Pairs(q, e)
    <3>1. t \in Generator \X (q \cup {n}) /\ t[1] + t[2] = e
      BY DEF Pairs
    <3>2. t[1] \in Generator /\ t[2] \in q \cup {n}
      BY <3>1
    <3>3. t[1] \in Int
      BY <1>2, <3>2
    <3>4. t[2] # n
      BY <1>1, <1>7, <3>1, <3>2, <3>3
    <3>5. QED
      BY <3>1, <3>2, <3>4 DEF Pairs
  <2>2. Pairs(q, e) \subseteq Pairs(q \cup {n}, e)
    BY DEF Pairs
  <2>3. Pairs(q \cup {n}, e) = Pairs(q, e)
    BY <2>1, <2>2
  <2>4. QED
    BY <1>4, <1>5, <1>7, <2>3
<1>8. QED
  BY <1>6, <1>7

(* The polynomials of the bits taken by round i, and of what val stands    *)
(* for then: bit k of it comes k after the next bit of the page.           *)
Taken(page, i) == {e \in Int : Covered + Degree - i <= e /\ e <= Covered + Degree - 1
                               /\ page[Covered + Degree - 1 - e] = 0}
Rest(val, i) == {e \in Int : Covered + Degree - 1 - i - e \in val}

(* val is what is left of the bits taken after division by the generator,  *)
(* with the quotient q.                                                    *)
Divides(page, val, i, q) ==
  \A e \in Int : e \in Rest(val, i) <=> ~ (e \in Times(Generator, q) <=> e \in Taken(page, i))

(* A round is a step of that division.                                     *)
LEMMA RoundDivides ==
  ASSUME NEW page, NEW val, NEW i \in 0 .. (Covered - 1), val \subseteq 0 .. (Degree - 1),
         NEW q \in SUBSET ((Covered - i) .. (Covered - 1)), Divides(page, val, i, q)
  PROVE  /\ Step(val, page[i]) \subseteq 0 .. (Degree - 1)
         /\ \E r \in SUBSET ((Covered - (i + 1)) .. (Covered - 1)) :
              Divides(page, Step(val, page[i]), i + 1, r)
<1> DEFINE N    == Covered + Degree - 1 - i
           bit  == page[i]
           fed  == IF bit = 0 THEN SymDiff(val, {0}) ELSE val
           back == IF 0 \in fed THEN SymDiff(fed, Feedback) ELSE fed
<1>1. /\ Covered \in Nat /\ Degree \in Nat \ {0} /\ i \in Nat /\ i < Covered
      /\ Feedback \subseteq 0 .. Degree /\ 0 \in Feedback /\ Degree \in Feedback
  BY EccAssumption DEF Covered, SpareBytes
<1>2. Step(val, bit) = {k - 1 : k \in back}
  BY DEF Step
<1>3. \A k : k \in fed <=> ~ (k \in val <=> (k = 0 /\ bit = 0))
  BY DEF SymDiff
<1>4. \A k : k \in back <=> IF 0 \in fed THEN ~ (k \in fed <=> k \in Feedback) ELSE k \in fed
  BY DEF SymDiff
<1> HIDE DEF fed, back
<1>5. back \subseteq 1 .. Degree
  <2>1. ASSUME NEW k \in fed PROVE k \in 0 .. (Degree - 1)
    <3>1. CASE k \in val
      BY <3>1
    <3>2. CASE k \notin val
      <4>1. k = 0
        BY <1>3, <3>2
      <4>2. QED
        BY <1>1, <4>1
    <3>3. QED
      BY <3>1, <3>2
  <2>2. 0 \notin back
    BY <1>1, <1>4
  <2>3. ASSUME NEW k \in back PROVE k \in 0 .. Degree
    <3>1. k \in fed \/ k \in Feedback
      BY <1>4
    <3>2. CASE k \in fed
      <4>1. k \in 0 .. (Degree - 1)
        BY <2>1, <3>2
      <4>2. QED
        BY <1>1, <4>1
    <3>3. CASE k \in Feedback
      BY <1>1, <3>3
    <3>4. QED
      BY <3>1, <3>2, <3>3
  <2>4. QED
    BY <1>1, <2>2, <2>3
<1>6. \A m \in Int : m \in Step(val, bit) <=> m + 1 \in back
  <2>1. ASSUME NEW m \in Int, m + 1 \in back PROVE m \in Step(val, bit)
    <3>1. m = (m + 1) - 1
      OBVIOUS
    <3>2. QED
      BY <1>2, <2>1, <3>1
  <2>2. ASSUME NEW m \in Int, m \in Step(val, bit) PROVE m + 1 \in back
    <3>1. PICK k \in back : m = k - 1
      BY <1>2, <2>2
    <3>2. m + 1 = k
      BY <1>1, <1>5, <3>1
    <3>3. QED
      BY <3>1, <3>2
  <2>3. QED
    BY <2>1, <2>2
<1>7. Step(val, bit) \subseteq 0 .. (Degree - 1)
  BY <1>1, <1>2, <1>5
<1>8. \A e \in Int : e \in Rest(Step(val, bit), i + 1) <=> N - e \in back
  <2>1. ASSUME NEW e \in Int
        PROVE  e \in Rest(Step(val, bit), i + 1) <=> N - e \in back
    <3>1. Covered + Degree - 1 - (i + 1) - e \in Int /\ Covered + Degree - 1 - (i + 1) - e + 1 = N - e
      BY <1>1
    <3>2. QED
      BY <1>6, <3>1 DEF Rest
  <2>2. QED
    BY <2>1
<1>9. \A e \in Int : e \in Taken(page, i + 1) <=> e \in Taken(page, i) \/ (e = N /\ bit = 0)
  BY <1>1 DEF Taken
<1>10. N \notin Taken(page, i)
  BY <1>1 DEF Taken
<1>11. ASSUME NEW e \in Int
       PROVE  N - e \in fed <=> ~ (e \in Times(Generator, q) <=> e \in Taken(page, i + 1))
  <2>1. N - e \in val <=> e \in Rest(val, i)
    BY <1>1 DEF Rest
  <2>2. N - e = 0 <=> e = N
    BY <1>1
  <2>3. QED
    BY <1>3, <1>9, <1>10, <2>1, <2>2 DEF Divides
<1>12. CASE 0 \notin fed
  <2>1. Divides(page, Step(val, bit), i + 1, q)
    BY <1>4, <1>8, <1>11, <1>12 DEF Divides
  <2>2. q \in SUBSET ((Covered - (i + 1)) .. (Covered - 1))
    BY <1>1
  <2>3. QED
    BY <1>7, <2>1, <2>2
<1>13. CASE 0 \in fed
  <2> DEFINE n == Covered - 1 - i
             r == q \cup {n}
  <2>1. n \in (0 .. (Covered - 1)) \ q /\ q \in SUBSET (0 .. (Covered - 1))
        /\ r \in SUBSET ((Covered - (i + 1)) .. (Covered - 1))
    BY <1>1
  <2>2. ASSUME NEW e \in Int
        PROVE  e - n \in Generator <=> N - e \in Feedback
    <3>1. e - n \in Int /\ Degree - (e - n) = N - e
      BY <1>1
    <3>2. QED
      BY <3>1, GeneratorIs
  <2>3. ASSUME NEW e \in Int
        PROVE  e \in Times(Generator, r) <=> ~ (e \in Times(Generator, q) <=> N - e \in Feedback)
    BY <2>1, <2>2, TimesOneMore
  <2>4. Divides(page, Step(val, bit), i + 1, r)
    BY <1>4, <1>8, <1>11, <1>13, <2>3 DEF Divides
  <2>5. QED
    BY <1>7, <2>1, <2>4
<1>14. QED
  BY <1>12, <1>13

(* So are all of them: by induction over the rounds.                       *)
LEMMA AllRoundsDivide ==
  ASSUME NEW page, NEW i \in 0 .. Covered
  PROVE  /\ Rounds(page)[i] \subseteq 0 .. (Degree - 1)
         /\ \E q \in SUBSET ((Covered - i) .. (Covered - 1)) : Divides(page, Rounds(page)[i], i, q)
<1> DEFINE OK(k) == /\ Rounds(page)[k] \subseteq 0 .. (Degree - 1)
                    /\ \E q \in SUBSET ((Covered - k) .. (Covered - 1)) : Divides(page, Rounds(page)[k], k, q)
           S == {k \in Nat : k <= Covered => OK(k)}
<1>1. Covered \in Nat /\ Degree \in Nat
  BY EccAssumption DEF Covered, SpareBytes
<1>2. 0 \in S
  <2>1. Divides(page, {}, 0, {})
    BY <1>1, TimesNothing DEF Divides, Rest, Taken
  <2>2. QED
    BY <2>1, RoundsAre
<1>3. ASSUME NEW k \in Nat, k \in S PROVE k + 1 \in S
  <2>1. CASE k + 1 <= Covered
    <3>1. k \in 0 .. (Covered - 1) /\ OK(k)
      BY <1>1, <1>3, <2>1
    <3>2. Rounds(page)[k + 1] = Step(Rounds(page)[k], page[k])
      BY <3>1, RoundsAre
    <3>3. OK(k + 1)
      <4> DEFINE val == Rounds(page)[k]
      <4>1. PICK q \in SUBSET ((Covered - k) .. (Covered - 1)) : Divides(page, val, k, q)
        BY <3>1
      <4>2. val \subseteq 0 .. (Degree - 1)
        BY <3>1
      <4> HIDE DEF val
      <4>3. /\ Step(val, page[k]) \subseteq 0 .. (Degree - 1)
            /\ \E r \in SUBSET ((Covered - (k + 1)) .. (Covered - 1)) :
                 Divides(page, Step(val, page[k]), k + 1, r)
        BY <3>1, <4>1, <4>2, RoundDivides
      <4>4. Rounds(page)[k + 1] = Step(val, page[k])
        BY <3>2 DEF val
      <4>5. QED
        BY <4>3, <4>4, Zenon
    <3>4. QED
      BY <3>3
  <2>2. CASE ~ (k + 1 <= Covered)
    BY <2>2
  <2>3. QED
    BY <2>1, <2>2
<1>4. Nat \subseteq S
  <2> HIDE DEF S
  <2>1. QED
    BY <1>2, <1>3, Induction
<1>5. OK(i)
  <2>1. i \in Nat /\ i <= Covered
    BY <1>1
  <2> HIDE DEF OK
  <2>2. QED
    BY <1>4, <2>1
<1>6. QED
  BY <1>5

(* With the code of fixECC a page is a multiple of the generator - if the  *)
(* bits that the code's first byte shares with it were 0, as they are when *)
(* fixSpare_ECC has cleared them.                                          *)
LEMMA CodeFits ==
  ASSUME NEW page, page[Spare(CodeByte)] = 0
  PROVE  IsCodeWord(fixECC(page))
<1> DEFINE val  == Rounds(page)[Covered]
           last == Covered + Degree - 1
           code == fixECC(page)
           zeros == {Covered + Degree - 1 - i : i \in {j \in PageBits : code[j] = 0}}
<1>1. /\ Covered \in Nat \ {0} /\ Degree \in Nat \ {0} /\ Spare(CodeByte) = Covered - 1
      /\ PageBits = 0 .. last
  BY EccAssumption DEF Covered, SpareBytes, Spare, CodeByte, PageBits
<1>2. PICK q \in SUBSET (0 .. (Covered - 1)) : Divides(page, val, Covered, q)
  <2>1. Covered \in 0 .. Covered /\ Covered - Covered = 0
    BY <1>1
  <2>2. \E q \in SUBSET ((Covered - Covered) .. (Covered - 1)) : Divides(page, val, Covered, q)
    BY <2>1, AllRoundsDivide, Zenon
  <2>3. QED
    BY <2>1, <2>2, Zenon
<1>3. val \subseteq 0 .. (Degree - 1)
  BY <1>1, AllRoundsDivide
<1> HIDE DEF val, code
<1>4. \A j \in PageBits : code[j] = 0 <=> IF j < Covered THEN page[j] = 0 ELSE j - Covered \in val
  <2>1. code = [i \in PageBits |->
           CASE i = Spare(CodeByte) -> 0
             [] i < Spare(CodeByte) -> page[i]
             [] OTHER               -> IF i - Covered \in val THEN 0 ELSE 1]
    BY CodeIs DEF code, val
  <2>2. ASSUME NEW j \in PageBits
        PROVE  code[j] = 0 <=> IF j < Covered THEN page[j] = 0 ELSE j - Covered \in val
    <3>1. CASE j = Covered - 1
      BY <1>1, <2>1, <3>1
    <3>2. CASE j < Covered - 1
      BY <1>1, <2>1, <3>2
    <3>3. CASE j > Covered - 1
      BY <1>1, <2>1, <3>3
    <3>4. QED
      BY <1>1, <3>1, <3>2, <3>3
  <2>3. QED
    BY <2>2
<1>5. ASSUME NEW e \in 0 .. last
      PROVE  e \in Times(Generator, q) <=> code[last - e] = 0
  <2>1. last - e \in PageBits /\ last - e < Covered <=> e >= Degree
    BY <1>1
  <2>2. e \in Rest(val, Covered) <=> Degree - 1 - e \in val
    BY <1>1 DEF Rest
  <2>3. e \in Taken(page, Covered) <=> e >= Degree /\ page[last - e] = 0
    BY <1>1 DEF Taken
  <2>4. QED
    BY <1>1, <1>2, <1>3, <1>4, <2>1, <2>2, <2>3 DEF Divides
<1>6. Times(Generator, q) \subseteq 0 .. last
  <2>1. ASSUME NEW e \in Times(Generator, q) PROVE e \in 0 .. last
    <3>1. e \in 0 .. (Covered + Degree)
      BY DEF Times
    <3>2. e # Covered + Degree
      BY <1>1, <1>2, <1>3, <2>1 DEF Divides, Rest, Taken
    <3>3. QED
      BY <1>1, <3>1, <3>2
  <2>2. QED
    BY <2>1
<1>7. zeros = Times(Generator, q)
  <2>1. ASSUME NEW e \in Times(Generator, q)
        PROVE  e \in zeros
    <3>1. last - e \in PageBits /\ code[last - e] = 0 /\ e = Covered + Degree - 1 - (last - e)
      BY <1>1, <1>5, <1>6, <2>1
    <3>2. QED
      BY <3>1
  <2>2. ASSUME NEW i \in {j \in PageBits : code[j] = 0}
        PROVE  Covered + Degree - 1 - i \in Times(Generator, q)
    <3>1. last - i \in 0 .. last /\ last - (last - i) = i /\ Covered + Degree - 1 - i = last - i
      BY <1>1, <2>2
    <3>2. QED
      BY <1>5, <2>2, <3>1
  <2>3. QED
    BY <2>1, <2>2
<1>8. QED
  <2>1. Times(Generator, q) \in CodeWords
    BY DEF CodeWords
  <2>2. zeros \in CodeWords
    <3> HIDE DEF zeros
    <3>1. QED
      BY <1>7, <2>1
  <2>3. IsCodeWord(code)
    BY <2>2 DEF IsCodeWord
  <2>4. QED
    BY <2>3 DEF code

-------------------------------------------------------------------------------
(* The invariant.                                                          *)

(* The invariant holds before the first call.                              *)
LEMMA InitInvariant == Init => IInv
BY ImageAssumption
   DEF Init, IInv, ArgsOK, KnownNand, LoadedInv, GeometryIsOwn, BufferHoldsImage

(* Every step of a call and every new call keeps it.                       *)
LEMMA StepInvariant == IInv /\ [Next]_vars => IInv'
<1> SUFFICES ASSUME IInv, [Next]_vars PROVE IInv'
  OBVIOUS
<1> USE DEF IInv, ArgsOK, KnownNand, LoadedInv, globals, args
<1>1. ASSUME NEW c \in Devices, NEW m, NEW s \in Nat, NEW e \in 0 .. (MaxUnsigned - 1),
             NEW f \in Nat, Begin(m, c, s, e, f)
      PROVE  IInv'
  <2>1. c \in Configs /\ s * Unit \in Nat
    BY ImageAssumption
  <2>2. ArgsOK'
    BY <1>1, <2>1 DEF Begin
  <2>3. pc' \in {"idle", "load"} /\ (pc' = "load" => Supported(c)) /\ config' = c
    BY <1>1 DEF Begin, Return
  <2>4. GeometryIsOwn'
    BY <1>1, <2>1, <2>3, InitIsOwn DEF Begin, GeometryIsOwn
  <2>5. QED
    BY <2>2, <2>3, <2>4 DEF BufferHoldsImage
<1>2. CASE NotIdentified
  BY <1>2 DEF NotIdentified, Return, GeometryIsOwn, BufferHoldsImage
<1>3. CASE Load
  <2>1. CASE pc' = "idle"
    BY <1>3, <2>1 DEF Load, GeometryIsOwn, BufferHoldsImage
  <2>2. CASE pc' # "idle"
    <3> DEFINE end(size)  == EndOfRange(size \div RawPage)
               read(size) == Minimum((end(size) - StartBlock) % MaxUnsigned, file)
    <3>1. PICK size \in ftell(file * RawPage) :
            /\ pc' = IF read(size) * RawPage <= BufferBytes THEN "write" ELSE "overrun"
            /\ End_Block' = end(size) /\ loaded' = read(size)
      BY <1>3, <2>2 DEF Load, Return
    <3>2. pc = "load" /\ UNCHANGED <<globals, args>>
      BY <1>3 DEF Load
    <3>3. /\ StartBlock \in Nat /\ block_flash_max \in 0 .. (MaxUnsigned - 1) /\ file \in Nat
          /\ MaxUnsigned \in Nat \ {0} /\ size \div RawPage \in Nat
      BY ImageAssumption, SizeIsNumber
    <3>4. end(size) \in Nat /\ end(size) <= block_flash_max
      BY <3>3 DEF EndOfRange, Minimum
    <3>5. read(size) \in Nat
      <4>1. (end(size) - StartBlock) % MaxUnsigned \in Nat
        BY <3>3, <3>4
      <4>2. QED
        BY <3>3, <4>1 DEF Minimum
    <3>6. FileIsTold => size \div RawPage = file
      BY <3>3, SizeIsTold DEF FileIsTold
    <3>7. FileIsTold => end(size) = Minimum(block_flash_max, file)
      BY <3>6 DEF EndOfRange
    <3>8. FileIsTold =>
            /\ StartBlock <= block_flash_max => read(size) <= block_flash_max
            /\ StartBlock < end(size) => end(size) - StartBlock <= read(size)
      BY <3>3, <3>7, LoadFits
    <3>9. ArgsOK' /\ KnownNand' /\ LoadedInv' /\ GeometryIsOwn'
      <4>1. FileIsTold' = FileIsTold
        BY <3>2 DEF FileIsTold
      <4>2. LoadedInv'
        BY <3>1, <3>2, <3>4, <3>5, <3>6, <4>1 DEF EndOfRange
      <4>3. pc' \in {"write", "overrun"}
        BY <3>1
      <4>4. ArgsOK' /\ KnownNand'
        BY <3>2, <4>3
      <4>5. GeometryIsOwn'
        BY <3>2, <4>3 DEF GeometryIsOwn
      <4>6. QED
        BY <4>2, <4>4, <4>5
    <3>10. BufferHoldsImage'
      <4>1. ASSUME FileIsTold, StartBlock <= block_flash_max, block_flash_max * RawPage < MaxUnsigned
            PROVE  pc' = "write"
        BY <3>1, <3>3, <3>5, <3>8, <4>1, BufferFits
      <4>2. block_flash_max * RawPage \in Nat
        BY <3>3, ImageAssumption
      <4>3. QED
        BY <3>1, <3>2, <3>3, <3>8, <4>1, <4>2, ImageAssumption DEF BufferHoldsImage, FileIsTold
    <3>11. QED
      BY <3>9, <3>10
  <2>3. QED
    BY <2>1, <2>2
<1>4. CASE WritePage
  <2>1. UNCHANGED <<Sfc, pc, config, StartBlock, block_flash_max, file, End_Block, loaded>>
    BY <1>4 DEF WritePage
  <2>2. FileIsTold' = FileIsTold
    BY <2>1 DEF FileIsTold
  <2>3. QED
    BY <2>1, <2>2 DEF GeometryIsOwn, BufferHoldsImage, EndOfRange
<1>5. CASE LoopEnds
  BY <1>5 DEF LoopEnds, Return, GeometryIsOwn, BufferHoldsImage
<1>6. CASE UNCHANGED vars
  <2>1. UNCHANGED <<Sfc, pc, config, StartBlock, block_flash_max, file, End_Block, loaded>>
    BY <1>6 DEF vars
  <2>2. FileIsTold' = FileIsTold
    BY <2>1 DEF FileIsTold
  <2>3. QED
    BY <2>1, <2>2 DEF GeometryIsOwn, BufferHoldsImage, EndOfRange
<1>7. CASE Restart
  BY <1>7 DEF Restart, Return, GeometryIsOwn, BufferHoldsImage
<1>8. QED
  <2>1. Starts \subseteq Nat /\ Ends \subseteq 0 .. (MaxUnsigned - 1)
        /\ FilePages \subseteq Nat /\ 0 \in 0 .. (MaxUnsigned - 1)
    BY ImageAssumption
  <2>2. QED
    BY <1>1, <1>2, <1>3, <1>4, <1>5, <1>6, <1>7, <2>1 DEF Next

(* The invariant holds in every reachable state.                           *)
LEMMA InvariantHolds == Spec => []IInv
<1>1. QED
  BY InitInvariant, StepInvariant, PTL DEF Spec

(* A write works with the geometry of its own console, whatever consoles   *)
(* came before it.                                                         *)
THEOREM GeometryTheorem == Spec => []GeometryIsOwn
<1>1. IInv => GeometryIsOwn
  BY DEF IInv
<1>2. QED
  BY <1>1, InvariantHolds, PTL

(* fread keeps to the buffer, unless the limit takes more bytes than an    *)
(* unsigned number counts, the file more than an int, or startblock is     *)
(* past the limit; and a file whose size is known is in the buffer with    *)
(* every page that the loop takes.                                         *)
THEOREM BufferTheorem == Spec => []BufferHoldsImage
<1>1. IInv => BufferHoldsImage
  BY DEF IInv
<1>2. QED
  BY <1>1, InvariantHolds, PTL

-------------------------------------------------------------------------------
(* The pages.                                                              *)

(* What is not a page's content is told apart from it.                     *)
LEMMA NoPage ==
  ASSUME NEW f, DOMAIN f = PageBits
  PROVE  f \notin {Old, Erased, Garbled}
<1>1. 0 \in PageBits
  BY EccAssumption DEF PageBits, Covered, SpareBytes
<1>2. DOMAIN Old = 1 .. 1 /\ DOMAIN Erased = 1 .. 1 /\ DOMAIN Garbled = 1 .. 1
  BY DEF Old, Erased, Garbled
<1>3. QED
  BY <1>1, <1>2

(* The three are different.                                                *)
LEMMA Different == Old # Erased /\ Old # Garbled /\ Erased # Garbled
<1>1. Old[1] = "old" /\ Erased[1] = "erased" /\ Garbled[1] = "garbled"
  BY DEF Old, Erased, Garbled
<1>2. QED
  BY <1>1

(* The code leaves the data alone.                                         *)
LEMMA CodeKeepsData ==
  ASSUME NEW page
  PROVE  /\ DOMAIN fixECC(page) = PageBits
         /\ \A i \in PageBits : i < Spare(CodeByte) => fixECC(page)[i] = page[i]
BY DEF fixECC, PageBits, Spare, CodeByte

(* So does the spare.                                                      *)
LEMMA SpareKeepsData ==
  ASSUME NEW page, NEW n, NEW large \in BOOLEAN
  PROVE  /\ DOMAIN fixSpare_ECC(page, n, large) = PageBits
         /\ \A i \in PageBits : i < DataBits => fixSpare_ECC(page, n, large)[i] = page[i]
<1> DEFINE marked == [i \in PageBits |-> IF i < Spare(CodeByte) THEN Marked(page, n, large)[i] ELSE 0]
<1>1. DataBits \in Nat /\ \A b \in 0 .. 8 : Spare(b) >= DataBits
  BY EccAssumption DEF Spare
<1>2. fixSpare_ECC(page, n, large) = fixECC(marked)
  BY DEF fixSpare_ECC
<1>3. ASSUME NEW i \in PageBits, i < DataBits
      PROVE  i < Spare(CodeByte) /\ i # Spare(0) /\ i # Spare(1) /\ i # Spare(2) /\ i # Spare(5)
             /\ i \notin {Spare(b) : b \in VersionBytes(large)}
  BY <1>1, <1>3, EccAssumption DEF PageBits, Covered, SpareBytes, VersionBytes, CodeByte, Spare
<1>4. ASSUME NEW i \in PageBits, i < DataBits
      PROVE  Marked(page, n, large)[i] = page[i]
  BY <1>3, <1>4 DEF Marked, NumberBytes, GoodByte
<1>5. \A i \in PageBits : i < DataBits => marked[i] = page[i]
  BY <1>3, <1>4
<1>6. QED
  BY <1>2, <1>3, <1>5, CodeKeepsData

(* Erase blocks follow one another.                                        *)
LEMMA BlocksFollow ==
  ASSUME NEW B \in Nat \ {0}, NEW a \in Nat, NEW b \in Nat
  PROVE  /\ a <= b => a \div B <= b \div B
         /\ a < b /\ b % B = 0 => a \div B < b \div B
         /\ b % B # 0 => b > 0 /\ (b - 1) \div B = b \div B
<1> DEFINE q == a \div B
           r == b \div B
<1>1. /\ q \in Nat /\ r \in Nat /\ B * q \in Nat /\ B * r \in Nat
      /\ a = B * q + (a % B) /\ a % B \in 0 .. (B - 1)
      /\ b = B * r + (b % B) /\ b % B \in 0 .. (B - 1)
  OBVIOUS
<1>2. a <= b => q <= r
  BY <1>1, QuotientAtLeast
<1>3. ASSUME a < b, b % B = 0, q = r PROVE FALSE
  BY <1>1, <1>3
<1>4. ASSUME b % B # 0 PROVE b > 0 /\ (b - 1) \div B = r
  <2>1. b - 1 \in Nat /\ B * r <= b - 1 /\ b - 1 < B * r + B
    BY <1>1, <1>4
  <2>2. b > 0
    BY <1>1, <2>1
  <2>3. (b - 1) \div B = r
    BY <1>1, <2>1, QuotientIs
  <2>4. QED
    BY <2>2, <2>3
<1>5. QED
  BY <1>1, <1>2, <1>3, <1>4

(* Until the loop begins nothing is written; in it the driver's gNextBlock *)
(* is the page of the loop as soon as one has been written.                *)
PlaceInv ==
  /\ block_flash \in Nat
  /\ pc = "load" => block_flash = 0
  /\ Written /\ pc = "write" =>
       StartBlock <= block_flash /\ (StartBlock < block_flash => gNextBlock = block_flash)

(* One more page of the file gets to its place, and those before it stay.  *)
LEMMA PageInPlace ==
  ASSUME IInv, PlaceInv, ImageInPlace, Written, WritePage
  PROVE  /\ ImageInPlace' /\ PlaceInv'
         /\ BufferPage(Slot) = FilePage(block_flash - StartBlock) /\ BufferPage(Slot) # Garbled
         /\ \A p \in PageNumbers \cap (StartBlock .. block_flash) :
              nand'[p] = IF p = block_flash THEN Patched ELSE nand[p]
<1> DEFINE B      == BlockSize(config)
           bf     == block_flash
           first  == bf % B = 0
           target == IF first THEN bf ELSE gNextBlock
           erased == [p \in PageNumbers |->
                        IF first /\ p \div B = bf \div B THEN Erased ELSE nand[p]]
<1>1. /\ bf \in Nat /\ StartBlock \in Nat /\ StartBlock <= bf /\ pc = "write" /\ bf < End_Block
      /\ StartBlock < bf => gNextBlock = bf
      /\ config \in Configs /\ StartBlock % B = 0
  BY DEF IInv, ArgsOK, PlaceInv, WritePage, Written
<1>2. B \in Nat \ {0}
  BY <1>1, GeometryAssumption DEF BlockSize, Large, Configs
<1>3. Sfc.PageCountInBlock = B
  BY <1>1 DEF IInv, KnownNand, GeometryIsOwn, SFC_init
<1>4. /\ nand' = [p \in PageNumbers |->
                    IF p # target THEN erased[p]
                    ELSE IF erased[p] = Erased THEN Patched ELSE Garbled]
      /\ gNextBlock' = target + 1 /\ block_flash' = bf + 1
      /\ UNCHANGED <<pc, mode, config, StartBlock, block_flash_max, file, End_Block, ret>>
  BY <1>3 DEF WritePage, args
<1>5. target = bf
  BY <1>1 DEF PlaceInv
<1>6. /\ \A p \in PageNumbers :
           IF p \in StartBlock .. (bf - 1)
           THEN /\ nand[p] \notin {Old, Erased, Garbled}
                /\ \A i \in PageBits : i < DataBits \/ mode = 3 =>
                     nand[p][i] = FilePage(p - StartBlock)[i]
           ELSE nand[p] \in {Old, Erased}
      /\ \A p \in PageNumbers : nand[p] = Old <=>
           p < StartBlock \/ bf <= StartBlock \/ p \div B > (bf - 1) \div B
  BY DEF ImageInPlace
<1>7. PageNumbers \subseteq Nat
  BY ImageAssumption DEF PageNumbers
<1>8. /\ BufferPage(Slot) = FilePage(bf - StartBlock) /\ BufferPage(Slot) # Garbled
      /\ DOMAIN FilePage(bf - StartBlock) = PageBits
  <2>1. Slot < loaded
    <3>1. End_Block \in Nat /\ loaded \in Nat
      BY <1>1 DEF IInv, LoadedInv
    <3>2. StartBlock < End_Block => End_Block - StartBlock <= loaded
      BY <1>1 DEF IInv, BufferHoldsImage, Written
    <3>3. QED
      BY <1>1, <3>1, <3>2 DEF Slot
  <2>2. BufferPage(Slot) = FilePage(bf - StartBlock)
    BY <2>1 DEF BufferPage, Slot
  <2>3. DOMAIN FilePage(bf - StartBlock) = PageBits
    <3>1. bf - StartBlock \in 0 .. (MaxUnsigned - 1)
      BY <1>1, ImageAssumption DEF IInv, LoadedInv, ArgsOK
    <3>2. FilePage(bf - StartBlock) \in [PageBits -> {0, 1}]
      BY <3>1, ImageAssumption
    <3>3. QED
      BY <3>2
  <2>4. QED
    BY <2>2, <2>3, NoPage
<1>9. Patched \notin {Old, Erased, Garbled}
      /\ \A i \in PageBits : i < DataBits \/ mode = 3 => Patched[i] = FilePage(bf - StartBlock)[i]
  <2>1. CASE PatchECCEnable
    <3>1. Patched = fixSpare_ECC(FilePage(bf - StartBlock), bf \div Sfc.PageCountInBlock, LargePages)
      BY <1>8, <2>1, NoPage DEF Patched
    <3>2. LargePages \in BOOLEAN
      BY DEF LargePages
    <3>3. QED
      BY <1>8, <2>1, <3>1, <3>2, SpareKeepsData, NoPage DEF PatchECCEnable
  <2>2. CASE ~PatchECCEnable
    BY <1>8, <2>2, NoPage DEF Patched
  <2>3. QED
    BY <2>1, <2>2
<1>10. bf \in PageNumbers => erased[bf] = Erased
  <2>1. CASE first
    BY <2>1
  <2>2. CASE ~first
    <3>1. (bf - 1) \div B = bf \div B /\ StartBlock < bf
      BY <1>1, <1>2, <2>2, BlocksFollow
    <3>2. bf \in PageNumbers => nand[bf] \in {Old, Erased} /\ nand[bf] # Old
      BY <1>1, <1>2, <1>6, <3>1
    <3>3. QED
      BY <2>2, <3>2
  <2>3. QED
    BY <2>1, <2>2
<1>11. \A p \in PageNumbers : nand'[p] = IF p = bf THEN Patched ELSE erased[p]
  BY <1>4, <1>5, <1>10
<1>12. ASSUME NEW p \in PageNumbers, p # bf, first, p \div B = bf \div B
       PROVE  p > bf
  BY <1>1, <1>2, <1>7, <1>12, BlocksFollow
<1>13. ASSUME NEW p \in PageNumbers
       PROVE  IF p \in StartBlock .. bf
              THEN /\ nand'[p] \notin {Old, Erased, Garbled}
                   /\ \A i \in PageBits : i < DataBits \/ mode = 3 =>
                        nand'[p][i] = FilePage(p - StartBlock)[i]
              ELSE nand'[p] \in {Old, Erased}
  <2>1. CASE p = bf
    BY <1>1, <1>9, <1>11, <2>1
  <2>2. CASE p # bf /\ p \in StartBlock .. bf
    <3>1. p \in StartBlock .. (bf - 1) /\ p <= bf
      BY <1>1, <2>2
    <3>2. nand'[p] = nand[p]
      BY <1>1, <1>7, <1>11, <1>12, <2>2, <3>1
    <3>3. QED
      BY <1>6, <2>2, <3>1, <3>2
  <2>3. CASE p \notin StartBlock .. bf
    <3>1. p # bf /\ nand[p] \in {Old, Erased}
      BY <1>1, <1>6, <2>3
    <3>2. QED
      BY <1>11, <2>3, <3>1
  <2>4. QED
    BY <2>1, <2>2, <2>3
<1>14. ASSUME NEW p \in PageNumbers
       PROVE  nand'[p] = Old <=> p < StartBlock \/ bf + 1 <= StartBlock \/ p \div B > bf \div B
  <2>1. p \in Nat /\ p \div B \in Nat /\ bf \div B \in Nat /\ StartBlock \div B \in Nat
    BY <1>1, <1>2, <1>7
  <2>2. CASE p = bf
    BY <1>1, <1>9, <1>11, <2>1, <2>2
  <2>3. CASE p # bf /\ first
    <3>1. CASE p \div B = bf \div B
      <4>1. nand'[p] = Erased /\ p > bf
        BY <1>11, <1>12, <2>3, <3>1
      <4>2. QED
        BY <1>1, <2>1, <3>1, <4>1, Different
    <3>2. CASE p \div B # bf \div B
      <4>1. nand'[p] = nand[p]
        BY <1>11, <2>3, <3>2
      <4>2. CASE p < bf
        <5>1. bf - 1 \in Nat /\ p <= bf - 1
          BY <1>1, <2>1, <4>2
        <5>2. p \div B <= (bf - 1) \div B /\ p \div B <= bf \div B /\ (bf - 1) \div B \in Nat
          BY <1>1, <1>2, <2>1, <4>2, <5>1, BlocksFollow
        <5>3. QED
          BY <1>1, <1>6, <2>1, <4>1, <4>2, <5>2
      <4>3. CASE p > bf
        <5>1. p \div B > bf \div B
          BY <1>1, <1>2, <2>1, <3>2, <4>3, BlocksFollow
        <5>2. bf > StartBlock => bf - 1 \in Nat /\ (bf - 1) \div B \in Nat /\ (bf - 1) \div B <= bf \div B
          BY <1>1, <1>2, BlocksFollow
        <5>3. QED
          BY <1>1, <1>6, <2>1, <4>1, <5>1, <5>2
      <4>4. QED
        BY <1>1, <2>1, <2>3, <4>2, <4>3
    <3>3. QED
      BY <3>1, <3>2
  <2>4. CASE p # bf /\ ~first
    <3>1. nand'[p] = nand[p]
      BY <1>11, <2>4
    <3>2. (bf - 1) \div B = bf \div B /\ StartBlock < bf
      BY <1>1, <1>2, <2>4, BlocksFollow
    <3>3. QED
      BY <1>1, <1>6, <3>1, <3>2
  <2>5. QED
    BY <2>2, <2>3, <2>4
<1>15. bf + 1 - 1 = bf
  BY <1>1
<1>16. PlaceInv'
  BY <1>1, <1>4, <1>5 DEF PlaceInv
<1>17. ImageInPlace'
  BY <1>1, <1>4, <1>13, <1>14, <1>15 DEF ImageInPlace, Written, FileIsTold
<1>18. ASSUME NEW p \in PageNumbers \cap (StartBlock .. bf)
       PROVE  nand'[p] = IF p = bf THEN Patched ELSE nand[p]
  <2>1. CASE p = bf
    BY <1>11, <2>1
  <2>2. CASE p # bf
    <3>1. p \in Nat /\ p <= bf
      BY <1>1, <1>7
    <3>2. ~ (first /\ p \div B = bf \div B)
      BY <1>1, <1>12, <2>2, <3>1
    <3>3. QED
      BY <1>11, <2>2, <3>2
  <2>3. QED
    BY <2>1, <2>2
<1>19. QED
  BY <1>8, <1>16, <1>17, <1>18

(* Before a page is written the NAND is as it was.                         *)
LEMMA NothingYet ==
  ASSUME NEW S \in Nat, NEW B, NEW n, n = [p \in PageNumbers |-> Old],
         NEW bf \in Nat, bf <= S
  PROVE  /\ \A p \in PageNumbers : p \notin S .. (bf - 1) /\ n[p] \in {Old, Erased}
         /\ \A p \in PageNumbers : n[p] = Old <=>
              p < S \/ bf <= S \/ p \div B > (bf - 1) \div B
<1>1. PageNumbers \subseteq Nat
  BY ImageAssumption DEF PageNumbers
<1>2. ASSUME NEW p \in PageNumbers PROVE p \notin S .. (bf - 1)
  BY <1>1
<1>3. \A p \in PageNumbers : n[p] = Old
  OBVIOUS
<1>4. QED
  BY <1>2, <1>3

(* Both hold before the first call.                                        *)
LEMMA PlacesInit == Init => PlaceInv /\ ImageInPlace
BY DEF Init, PlaceInv, ImageInPlace, Written

(* Every step keeps the file in its place.                                 *)
LEMMA PlacesStep == IInv /\ PlaceInv /\ ImageInPlace /\ [Next]_vars => (PlaceInv /\ ImageInPlace)'
<1> SUFFICES ASSUME IInv, PlaceInv, ImageInPlace, [Next]_vars PROVE PlaceInv' /\ ImageInPlace'
  OBVIOUS
<1>0. StartBlock \in Nat /\ block_flash \in Nat
  BY DEF IInv, ArgsOK, PlaceInv
<1>1. ASSUME NEW c \in Devices, NEW m, NEW s \in Nat, NEW e, NEW f, Begin(m, c, s, e, f)
      PROVE  PlaceInv' /\ ImageInPlace'
  <2>1. /\ StartBlock' \in Nat /\ block_flash' = 0 /\ pc' \in {"idle", "load"}
        /\ nand' = [p \in PageNumbers |-> Old]
        /\ mode' # 0 /\ pc' = "idle" => ret' # 0
    BY <1>1, ImageAssumption DEF Begin, Return
  <2>2. PlaceInv'
    BY <2>1 DEF PlaceInv
  <2>3. ImageInPlace'
    BY <2>1, NothingYet DEF ImageInPlace, Written
  <2>4. QED
    BY <2>2, <2>3
<1>2. CASE NotIdentified
  <2>1. /\ StartBlock' \in Nat /\ block_flash' = 0 /\ pc' = "idle" /\ ret' # 0
        /\ nand' = [p \in PageNumbers |-> Old]
    BY <1>0, <1>2 DEF NotIdentified, Return, args
  <2>2. PlaceInv'
    BY <2>1 DEF PlaceInv
  <2>3. ImageInPlace'
    BY <2>1, NothingYet DEF ImageInPlace
  <2>4. QED
    BY <2>2, <2>3
<1>3. CASE Load
  <2>1. /\ UNCHANGED <<mode, config, StartBlock, block_flash_max, file, nand>>
        /\ pc = "load" /\ block_flash = 0 /\ block_flash' \in {0, StartBlock}
        /\ pc' \in {"idle", "write", "overrun"} /\ (pc' = "idle" => ret' # 0)
        /\ pc' = "write" => block_flash' = StartBlock
    BY <1>3 DEF Load, Return, args, PlaceInv
  <2>2. PlaceInv'
    BY <1>0, <2>1 DEF PlaceInv
  <2>3. block_flash' \in Nat /\ block_flash' <= StartBlock
    BY <1>0, <2>1
  <2>4. ASSUME Written, NEW p \in PageNumbers PROVE nand[p] = Old
    BY <1>0, <2>1, <2>4 DEF ImageInPlace
  <2>5. PageNumbers \subseteq Nat
    BY ImageAssumption DEF PageNumbers
  <2>6. ASSUME NEW p \in PageNumbers PROVE p \notin StartBlock .. (block_flash' - 1)
    <3>1. \A b \in Nat : b <= StartBlock => p \notin StartBlock .. (b - 1)
      BY <1>0, <2>5
    <3>2. QED
      BY <2>3, <3>1
  <2>7. ImageInPlace'
    BY <2>1, <2>3, <2>4, <2>6 DEF ImageInPlace, Written, FileIsTold
  <2>8. QED
    BY <2>2, <2>7
<1>4. CASE WritePage
  <2>1. CASE Written
    BY <1>4, <2>1, PageInPlace
  <2>2. CASE ~Written
    <3>1. block_flash' = block_flash + 1 /\ UNCHANGED <<pc, mode, config, StartBlock, file>> /\ pc = "write"
      BY <1>4 DEF WritePage, args
    <3>2. QED
      BY <1>0, <2>2, <3>1 DEF PlaceInv, ImageInPlace, Written, FileIsTold
  <2>3. QED
    BY <2>1, <2>2
<1>5. CASE LoopEnds
  <2>1. /\ UNCHANGED <<mode, config, StartBlock, block_flash_max, file, block_flash, nand>>
        /\ pc' = "idle" /\ pc = "write" /\ (ret' = 0 => block_flash >= End_Block)
    BY <1>5 DEF LoopEnds, Return, args
  <2>2. Written => End_Block = Minimum(block_flash_max, file)
    BY <2>1 DEF IInv, LoadedInv, EndOfRange, Written
  <2>3. PlaceInv'
    BY <1>0, <2>1 DEF PlaceInv
  <2>4. ImageInPlace'
    BY <2>1, <2>2 DEF ImageInPlace, Written, FileIsTold
  <2>5. QED
    BY <2>3, <2>4
<1>6. CASE UNCHANGED vars
  BY <1>6 DEF vars, globals, args, PlaceInv, ImageInPlace, Written, FileIsTold
<1>7. CASE Restart
  <2>1. /\ StartBlock' \in Nat /\ block_flash' = 0 /\ pc' = "idle" /\ ret' # 0
        /\ nand' = [p \in PageNumbers |-> Old]
    BY <1>0, <1>7 DEF Restart, Return, args
  <2>2. PlaceInv'
    BY <2>1 DEF PlaceInv
  <2>3. ImageInPlace'
    BY <2>1, NothingYet DEF ImageInPlace
  <2>4. QED
    BY <2>2, <2>3
<1>8. QED
  <2>1. Starts \subseteq Nat
    BY ImageAssumption
  <2>2. QED
    BY <1>1, <1>2, <1>3, <1>4, <1>5, <1>6, <1>7, <2>1 DEF Next

(* A file is where it was to go, for any file, range and NAND: each page   *)
(* in its place with its data, none elsewhere, and all of the range when   *)
(* the answer is 0.                                                        *)
THEOREM ImageTheorem == Spec => []ImageInPlace
<1>1. QED
  BY InitInvariant, StepInvariant, PlacesInit, PlacesStep, PTL DEF Spec

-------------------------------------------------------------------------------
(* The spare of the pages.                                                 *)

(* The written pages of mode 4 are those of the file, patched for where    *)
(* they lie.                                                               *)
PatchInv ==
  Written /\ PatchECCEnable =>
    \A p \in PageNumbers \cap (StartBlock .. (block_flash - 1)) :
      nand[p] = fixSpare_ECC(FilePage(p - StartBlock), p \div BlockSize(config), Large(config))

(* Two digits are a number.                                                *)
LEMMA TwoDigits ==
  ASSUME NEW n \in Nat
  PROVE  (n % 2) + 2 * ((n \div 2) % 2) = n % 4
OBVIOUS

(* What fixSpare_ECC makes of a page is one a reader accepts.              *)
LEMMA PatchFits ==
  ASSUME NEW page, NEW n \in Nat, NEW large \in BOOLEAN
  PROVE  LET patched == fixSpare_ECC(page, n, large)
         IN  /\ IsCodeWord(patched)
             /\ BlockNumber(patched, large) = n % 4
             /\ patched[Spare(GoodByte(large))] = 1
             /\ patched[Spare(FreeByte)] = page[Spare(FreeByte)]
<1> DEFINE marked  == [i \in PageBits |-> IF i < Spare(CodeByte) THEN Marked(page, n, large)[i] ELSE 0]
           patched == fixSpare_ECC(page, n, large)
<1>1. patched = fixECC(marked)
  BY DEF fixSpare_ECC
<1>2. DataBits \in Nat /\ \A b \in 0 .. 8 : Spare(b) = DataBits + b /\ Spare(b) \in PageBits
  BY EccAssumption DEF Spare, PageBits, Covered, SpareBytes
<1>3. \A b \in 0 .. 7 : patched[Spare(b)] = Marked(page, n, large)[Spare(b)]
  BY <1>1, <1>2, CodeKeepsData DEF CodeByte
<1>4. IsCodeWord(patched)
  <2>1. marked[Spare(CodeByte)] = 0
    BY <1>2 DEF CodeByte
  <2>2. QED
    BY <1>1, <2>1, CodeFits
<1>5. CASE large
  <2>1. /\ patched[Spare(1)] = n % 2 /\ patched[Spare(2)] = (n \div 2) % 2
        /\ patched[Spare(0)] = 1 /\ patched[Spare(7)] = page[Spare(7)]
    <3>1. Marked(page, n, large) = [i \in PageBits |->
            CASE i = Spare(1)                     -> n % 2
              [] i = Spare(2)                     -> (n \div 2) % 2
              [] i = Spare(0)                     -> 1
              [] i \in {Spare(b) : b \in {3, 4, 5, 6}} -> 0
              [] OTHER                            -> page[i]]
      BY <1>5 DEF Marked, NumberBytes, GoodByte, VersionBytes
    <3>2. \A a \in {0, 1, 2, 7} : Spare(a) \notin {Spare(b) : b \in {3, 4, 5, 6}}
      BY <1>2
    <3>3. /\ Spare(1) # Spare(2) /\ Spare(0) # Spare(1) /\ Spare(0) # Spare(2)
          /\ Spare(7) # Spare(0) /\ Spare(7) # Spare(1) /\ Spare(7) # Spare(2)
          /\ {Spare(0), Spare(1), Spare(2), Spare(7)} \subseteq PageBits
      BY <1>2
    <3>4. /\ patched[Spare(1)] = Marked(page, n, large)[Spare(1)]
          /\ patched[Spare(2)] = Marked(page, n, large)[Spare(2)]
          /\ patched[Spare(0)] = Marked(page, n, large)[Spare(0)]
          /\ patched[Spare(7)] = Marked(page, n, large)[Spare(7)]
      BY <1>3
    <3>5. /\ Marked(page, n, large)[Spare(1)] = n % 2
          /\ Marked(page, n, large)[Spare(2)] = (n \div 2) % 2
          /\ Marked(page, n, large)[Spare(0)] = 1
      BY <3>1, <3>2, <3>3
    <3>6. Marked(page, n, large)[Spare(7)] = page[Spare(7)]
      BY <3>1, <3>2, <3>3
    <3>7. QED
      BY <3>4, <3>5, <3>6
  <2>2. QED
    BY <1>4, <1>5, <2>1, TwoDigits DEF BlockNumber, NumberBytes, GoodByte, FreeByte
<1>6. CASE ~large
  <2>1. /\ patched[Spare(0)] = n % 2 /\ patched[Spare(1)] = (n \div 2) % 2
        /\ patched[Spare(5)] = 1 /\ patched[Spare(7)] = page[Spare(7)]
    BY <1>2, <1>3, <1>6 DEF Marked, NumberBytes, GoodByte, VersionBytes
  <2>2. QED
    BY <1>4, <1>6, <2>1, TwoDigits DEF BlockNumber, NumberBytes, GoodByte, FreeByte
<1>7. QED
  BY <1>5, <1>6

(* It holds before the first call.                                         *)
LEMMA PatchInit == Init => PatchInv
BY DEF Init, PatchInv, Written

(* Every step keeps it.                                                    *)
LEMMA PatchStep == IInv /\ PlaceInv /\ ImageInPlace /\ PatchInv /\ [Next]_vars => PatchInv'
<1> SUFFICES ASSUME IInv, PlaceInv, ImageInPlace, PatchInv, [Next]_vars PROVE PatchInv'
  OBVIOUS
<1>1. StartBlock \in Nat /\ block_flash \in Nat
  BY DEF IInv, ArgsOK, PlaceInv
<1>2. ASSUME StartBlock' \in Nat, block_flash' \in Nat, block_flash' <= StartBlock'
      PROVE  PatchInv'
  <2>1. \A s, b \in Nat : b <= s => s .. (b - 1) = {}
    OBVIOUS
  <2>2. StartBlock' .. (block_flash' - 1) = {}
    BY <1>2, <2>1
  <2>3. QED
    BY <2>2 DEF PatchInv
<1>3. ASSUME NEW c \in Devices, NEW m, NEW s \in Nat, NEW e, NEW f, Begin(m, c, s, e, f)
      PROVE  PatchInv'
  BY <1>2, <1>3, ImageAssumption DEF Begin
<1>4. CASE NotIdentified
  BY <1>1, <1>2, <1>4 DEF NotIdentified, args
<1>5. CASE Load
  BY <1>1, <1>2, <1>5 DEF Load, args, PlaceInv
<1>6. CASE WritePage
  <2>1. /\ UNCHANGED <<Sfc, mode, config, StartBlock, file>> /\ block_flash' = block_flash + 1
        /\ pc = "write"
    BY <1>6 DEF WritePage, args
  <2>2. SUFFICES ASSUME Written, PatchECCEnable, NEW p \in PageNumbers \cap (StartBlock .. block_flash)
                 PROVE  nand'[p] = fixSpare_ECC(FilePage(p - StartBlock), p \div BlockSize(config), Large(config))
    <3>1. block_flash' - 1 = block_flash
      BY <1>1, <2>1
    <3>2. QED
      BY <2>1, <3>1 DEF PatchInv, Written, PatchECCEnable, FileIsTold
  <2>3. CASE p = block_flash
    <3>1. nand'[p] = Patched /\ BufferPage(Slot) = FilePage(p - StartBlock) /\ BufferPage(Slot) # Garbled
      BY <1>6, <2>2, <2>3, PageInPlace
    <3>2. Sfc.PageCountInBlock = BlockSize(config) /\ LargePages = Large(config)
      <4>1. PICK fresh \in SFC_init(config, NoSfc) : Sfc.PageCountInBlock = fresh.PageCountInBlock
                                                      /\ Sfc.LargeBlock = fresh.LargeBlock
        BY <2>1 DEF IInv, GeometryIsOwn
      <4>2. /\ fresh.PageCountInBlock = BlockSize(config)
            /\ fresh.LargeBlock = IF Large(config) THEN config.size ELSE 0
        BY <2>1 DEF IInv, KnownNand, SFC_init
      <4>3. Large(config) \in BOOLEAN /\ (Large(config) => config.size # 0)
        BY DEF Large
      <4>4. QED
        BY <4>1, <4>2, <4>3 DEF LargePages
    <3>3. QED
      BY <2>2, <2>3, <3>1, <3>2 DEF Patched
  <2>4. CASE p # block_flash
    <3>1. nand'[p] = nand[p]
      BY <1>6, <2>2, <2>4, PageInPlace
    <3>2. p \in StartBlock .. (block_flash - 1)
      BY <1>1, <2>4
    <3>3. QED
      BY <2>2, <3>1, <3>2 DEF PatchInv
  <2>5. QED
    BY <2>3, <2>4
<1>7. CASE LoopEnds
  BY <1>7 DEF LoopEnds, args, PatchInv, Written, PatchECCEnable, FileIsTold
<1>8. CASE UNCHANGED vars
  BY <1>8 DEF vars, args, PatchInv, Written, PatchECCEnable, FileIsTold
<1>9. CASE Restart
  BY <1>1, <1>2, <1>9 DEF Restart, args
<1>10. QED
  <2>1. Starts \subseteq Nat
    BY ImageAssumption
  <2>2. QED
    BY <1>3, <1>4, <1>5, <1>6, <1>7, <1>8, <1>9, <2>1 DEF Next

(* Every page patched in mode 4 is right where it lies: its code is right  *)
(* for all of its bits, for any polynomial and any size of page, and its   *)
(* spare names its erase block, for small and large blocks.                *)
THEOREM PatchTheorem == Spec => []PatchedPagesFit
<1>1. IInv /\ PatchInv => PatchedPagesFit
  <2> SUFFICES ASSUME IInv, PatchInv, Written, PatchECCEnable,
                      NEW p \in PageNumbers \cap (StartBlock .. (block_flash - 1))
               PROVE  /\ IsCodeWord(nand[p])
                      /\ BlockNumber(nand[p], Large(config)) = (p \div BlockSize(config)) % 4
                      /\ nand[p][Spare(GoodByte(Large(config)))] = 1
                      /\ nand[p][Spare(FreeByte)] = FilePage(p - StartBlock)[Spare(FreeByte)]
    BY DEF PatchedPagesFit
  <2>1. nand[p] = fixSpare_ECC(FilePage(p - StartBlock), p \div BlockSize(config), Large(config))
    BY DEF PatchInv
  <2>2. Large(config) \in BOOLEAN
    BY DEF Large
  <2>3. BlockSize(config) \in Nat \ {0} /\ p \in Nat
    BY GeometryAssumption, ImageAssumption DEF IInv, ArgsOK, Configs, BlockSize, Large, PageNumbers
  <2>4. p \div BlockSize(config) \in Nat
    BY <2>3
  <2> DEFINE patched == fixSpare_ECC(FilePage(p - StartBlock), p \div BlockSize(config), Large(config))
  <2>5. /\ IsCodeWord(patched)
        /\ BlockNumber(patched, Large(config)) = (p \div BlockSize(config)) % 4
        /\ patched[Spare(GoodByte(Large(config)))] = 1
        /\ patched[Spare(FreeByte)] = FilePage(p - StartBlock)[Spare(FreeByte)]
    BY <2>2, <2>4, PatchFits
  <2>6. QED
    BY <2>1, <2>5
<1>2. QED
  BY <1>1, InitInvariant, StepInvariant, PlacesInit, PlacesStep, PatchInit, PatchStep, PTL DEF Spec

-------------------------------------------------------------------------------
(* The types.                                                              *)

(* Sfc has the members of sfc_type.                                        *)
SfcOK(s) ==
  /\ s = [Initialized           |-> s.Initialized,
          LargeBlock            |-> s.LargeBlock,
          BlockSize             |-> s.BlockSize,
          PageCountInBlock      |-> s.PageCountInBlock,
          NandSizeDataPartition |-> s.NandSizeDataPartition,
          NandSize              |-> s.NandSize,
          PagesCountInNand      |-> s.PagesCountInNand]
  /\ s.LargeBlock \in {0, 2, 3} /\ s.Initialized \in BOOLEAN
  /\ s.BlockSize \in Nat /\ s.PageCountInBlock \in Nat

CallOK ==
  /\ pc \in {"idle", "load", "write", "overrun"} /\ mode \in {0, 3, 4} /\ config \in Devices
  /\ StartBlock < MaxUnsigned /\ block_flash_max \in Ends \cup {0}
  /\ block_flash \in 0 .. (MaxUnsigned - 1) /\ loaded \in 0 .. (MaxUnsigned - 1)
  /\ End_Block <= block_flash_max /\ ret \in {0, -1, -2, -3, -4, -8, -9}
  /\ pc = "write" => StartBlock <= block_flash

(* A write moves gNextBlock to its own pages, or, until it comes to the    *)
(* first of an erase block, on from where it was by a page for each.       *)
NextInv ==
  /\ \E e \in Ends \cup {0} : gNextBlock \in 0 .. (NumPages + e)
  /\ pc = "load" /\ StartBlock % BlockSize(config) # 0 => gNextBlock <= NumPages
  /\ pc = "write" /\ ~(block_flash = StartBlock /\ StartBlock % BlockSize(config) = 0) =>
       gNextBlock <= NumPages + block_flash

PagesOK == \A p \in PageNumbers : nand[p] \in PageValues

TypeInv == SfcOK(Sfc) /\ CallOK /\ NextInv /\ PagesOK

(* SFC_init leaves what it found or assigns members of their types.        *)
LEMMA SfcStays ==
  ASSUME NEW c \in Configs, NEW s, SfcOK(s), NEW r \in SFC_init(c, s)
  PROVE  SfcOK(r)
<1>1. BlockPages[1] \in Nat /\ BlockSize(c) \in Nat
  BY GeometryAssumption DEF BlockSize, Large, Configs
<1>2. CASE Supported(c)
  <2>1. PICK n \in NandSizes(c, s) :
          r = [Initialized           |-> TRUE,
               LargeBlock            |-> IF Large(c) THEN c.size ELSE 0,
               BlockSize             |-> BlockSize(c),
               PageCountInBlock      |-> BlockSize(c),
               NandSizeDataPartition |-> DataPartition(c, s),
               NandSize              |-> n,
               PagesCountInNand      |-> DataPartition(c, s)]
    BY <1>2 DEF SFC_init
  <2>2. (IF Large(c) THEN c.size ELSE 0) \in {0, 2, 3}
    BY DEF Large
  <2>3. QED
    BY <1>1, <2>1, <2>2 DEF SfcOK
<1>3. CASE ~Supported(c)
  <2>1. r = [s EXCEPT !.Initialized = FALSE,
                      !.LargeBlock  = 0,
                      !.BlockSize   = IF c.revision = 0 THEN BlockPages[1] ELSE @]
    BY <1>3 DEF SFC_init
  <2>2. r = [Initialized           |-> FALSE,
             LargeBlock            |-> 0,
             BlockSize             |-> IF c.revision = 0 THEN BlockPages[1] ELSE s.BlockSize,
             PageCountInBlock      |-> s.PageCountInBlock,
             NandSizeDataPartition |-> s.NandSizeDataPartition,
             NandSize              |-> s.NandSize,
             PagesCountInNand      |-> s.PagesCountInNand]
    BY <2>1 DEF SfcOK
  <2>3. QED
    BY <1>1, <2>2 DEF SfcOK
<1>4. QED
  BY <1>2, <1>3

(* A patched page is a raw page.                                           *)
LEMMA PatchedIsPage ==
  ASSUME NEW page \in [PageBits -> {0, 1}], NEW n \in Nat, NEW large
  PROVE  fixSpare_ECC(page, n, large) \in [PageBits -> {0, 1}]
<1> DEFINE marked == [i \in PageBits |-> IF i < Spare(CodeByte) THEN Marked(page, n, large)[i] ELSE 0]
<1>1. n % 2 \in {0, 1} /\ (n \div 2) % 2 \in {0, 1}
  OBVIOUS
<1>2. ASSUME NEW i \in PageBits PROVE Marked(page, n, large)[i] \in {0, 1}
  BY <1>1 DEF Marked
<1>3. \A i \in PageBits : marked[i] \in {0, 1}
  BY <1>2
<1> HIDE DEF marked
<1>4. fixECC(marked) \in [PageBits -> {0, 1}]
  BY <1>3 DEF fixECC
<1>5. QED
  BY <1>4 DEF fixSpare_ECC, marked

(* The values before the first call.                                       *)
LEMMA InitType == Init => TypeInv
<1> SUFFICES ASSUME Init PROVE TypeInv
  OBVIOUS
<1>1. SfcOK(Sfc)
  BY DEF Init, NoSfc, SfcOK
<1>2. CallOK /\ NextInv
  BY ImageAssumption DEF Init, CallOK, NextInv
<1>3. PagesOK
  BY DEF Init, PagesOK, PageValues
<1>4. QED
  BY <1>1, <1>2, <1>3 DEF TypeInv

(* Every step keeps them.                                                  *)
LEMMA StepType == IInv /\ TypeInv /\ [Next]_vars => TypeInv'
<1> SUFFICES ASSUME IInv, TypeInv, [Next]_vars PROVE TypeInv'
  OBVIOUS
<1>0. /\ NumPages \in Nat \ {0} /\ MaxUnsigned \in Nat \ {0} /\ Ends \subseteq 0 .. (MaxUnsigned - 1)
      /\ StartBlock \in Nat /\ block_flash_max \in Nat /\ file \in Nat
      /\ config \in Configs
  BY ImageAssumption DEF IInv, ArgsOK
<1> USE <1>0 DEF TypeInv
<1>1. ASSUME NEW c \in Devices, NEW m \in {0, 3, 4}, NEW s \in Starts \cup {0},
             NEW e \in Ends \cup {0}, NEW f \in FilePages \cup {0}, Begin(m, c, s, e, f)
      PROVE  TypeInv'
  <2>1. SfcOK(Sfc')
    <3>1. c \in Configs /\ Sfc' \in SFC_init(c, Sfc)
      BY <1>1, ImageAssumption DEF Begin
    <3>2. QED
      BY <3>1, SfcStays
  <2>2. s * Unit < MaxUnsigned
    BY ImageAssumption
  <2>3. /\ pc' \in {"idle", "load"} /\ mode' = m /\ config' = c /\ StartBlock' = s * Unit
        /\ block_flash_max' = e /\ End_Block' = 0 /\ block_flash' = 0 /\ loaded' = 0
        /\ gNextBlock' = gNextBlock /\ nand' = [p \in PageNumbers |-> Old]
        /\ s * Unit % BlockSize(c) # 0 => gNextBlock <= NumPages
    BY <1>1 DEF Begin, Return
  <2>4. ret' \in {0, -1, -2, -3, -4, -8, -9}
    BY <1>1 DEF Begin, Return, CallOK
  <2>5. CallOK'
    BY <2>2, <2>3, <2>4 DEF CallOK
  <2>6. NextInv' /\ PagesOK'
    BY <2>3 DEF NextInv, PagesOK, PageValues
  <2>7. QED
    BY <2>1, <2>5, <2>6
<1>2. CASE NotIdentified
  BY <1>2 DEF NotIdentified, Return, globals, args, CallOK, NextInv, PagesOK, PageValues
<1>3. CASE Load
  <2>1. UNCHANGED <<globals, args, nand>>
    BY <1>3 DEF Load
  <2>2. CASE pc' = "idle" /\ ret' \in {-8, -9} /\ UNCHANGED <<End_Block, block_flash, loaded>>
    BY <2>1, <2>2 DEF globals, args, CallOK, NextInv, PagesOK
  <2>3. ASSUME NEW size \in ftell(file * RawPage), NEW end, NEW read,
               end = EndOfRange(size \div RawPage),
               read = Minimum((end - StartBlock) % MaxUnsigned, file),
               pc' \in {"write", "overrun"}, End_Block' = end, loaded' = read,
               block_flash' = StartBlock, UNCHANGED ret
        PROVE  TypeInv'
    <3>1. end \in Nat /\ end <= block_flash_max
      BY <2>3, SizeIsNumber DEF EndOfRange, Minimum
    <3>2. (end - StartBlock) % MaxUnsigned \in 0 .. (MaxUnsigned - 1)
      BY <3>1
    <3>3. loaded' \in 0 .. (MaxUnsigned - 1)
      BY <2>3, <3>2 DEF Minimum
    <3>4. CallOK'
      BY <2>1, <2>3, <3>1, <3>3 DEF args, CallOK
    <3>5. NextInv'
      BY <1>3, <2>1, <2>3 DEF Load, globals, args, NextInv
    <3>6. QED
      BY <2>1, <3>4, <3>5 DEF globals, PagesOK
  <2>4. QED
    BY <1>3, <2>2, <2>3 DEF Load, Return
<1>4. CASE WritePage
  <2>1. /\ UNCHANGED <<Sfc, pc, args, End_Block, ret, loaded>> /\ block_flash' = block_flash + 1
        /\ pc = "write" /\ block_flash < End_Block
        /\ gNextBlock' = (IF block_flash % Sfc.PageCountInBlock = 0 THEN block_flash ELSE gNextBlock) + 1
    BY <1>4 DEF WritePage
  <2>2. /\ block_flash \in Nat /\ StartBlock <= block_flash /\ block_flash + 1 <= block_flash_max
        /\ block_flash_max \in Ends
    <3>1. block_flash \in Nat /\ StartBlock <= block_flash /\ block_flash_max \in Ends \cup {0}
      BY <2>1 DEF CallOK
    <3>2. End_Block \in Nat /\ End_Block <= block_flash_max
      BY <2>1 DEF IInv, LoadedInv
    <3>3. QED
      BY <2>1, <3>1, <3>2
  <2>3. CallOK'
    BY <2>1, <2>2 DEF args, CallOK
  <2>4. Sfc.PageCountInBlock = BlockSize(config)
    BY <2>1 DEF IInv, KnownNand, GeometryIsOwn, SFC_init
  <2>5. NextInv'
    <3>1. gNextBlock \in Nat
      BY DEF NextInv
    <3>2. gNextBlock' \in Nat /\ gNextBlock' <= NumPages + block_flash + 1
      <4>1. CASE block_flash % Sfc.PageCountInBlock = 0
        BY <2>1, <2>2, <4>1
      <4>2. CASE block_flash % Sfc.PageCountInBlock # 0
        <5>1. gNextBlock <= NumPages + block_flash
          BY <2>1, <2>4, <4>2 DEF NextInv
        <5>2. QED
          BY <2>1, <2>2, <3>1, <4>2, <5>1
      <4>3. QED
        BY <4>1, <4>2
    <3>3. gNextBlock' \in 0 .. (NumPages + block_flash_max)
      BY <2>2, <3>2
    <3>4. QED
      BY <2>1, <2>2, <3>2, <3>3 DEF args, NextInv
  <2>6. Patched \in PageValues
    <3>1. BufferPage(Slot) \in [PageBits -> {0, 1}] \cup {Garbled}
      <4>1. CASE Slot < loaded
        <5>1. Slot \in 0 .. (MaxUnsigned - 1)
          BY <2>2, <4>1 DEF Slot, CallOK
        <5>2. QED
          BY <4>1, <5>1, ImageAssumption DEF BufferPage
      <4>2. CASE ~(Slot < loaded)
        BY <4>2 DEF BufferPage
      <4>3. QED
        BY <4>1, <4>2
    <3>2. block_flash \div Sfc.PageCountInBlock \in Nat
      <4>1. BlockSize(config) \in Nat \ {0}
        BY GeometryAssumption DEF Configs, BlockSize, Large
      <4>2. QED
        BY <2>2, <2>4, <4>1
    <3>3. QED
      BY <3>1, <3>2, PatchedIsPage DEF Patched, PageValues
  <2>7. PagesOK'
    <3>1. ASSUME NEW p \in PageNumbers PROVE nand'[p] \in {nand[p], Erased, Patched, Garbled}
      BY <1>4 DEF WritePage
    <3>2. Erased \in PageValues /\ Garbled \in PageValues
      BY DEF PageValues
    <3>3. QED
      BY <2>6, <3>1, <3>2 DEF PagesOK
  <2>8. QED
    BY <2>1, <2>3, <2>5, <2>7
<1>5. CASE LoopEnds
  BY <1>5 DEF LoopEnds, Return, globals, args, CallOK, NextInv, PagesOK
<1>6. CASE UNCHANGED vars
  BY <1>6 DEF vars, globals, args, CallOK, NextInv, PagesOK
<1>7. CASE Restart
  <2>1. SfcOK(Sfc')
    BY <1>7 DEF Restart, NoSfc, SfcOK
  <2>2. CallOK' /\ NextInv' /\ PagesOK'
    BY <1>7 DEF Restart, Return, args, CallOK, NextInv, PagesOK, PageValues
  <2>3. QED
    BY <2>1, <2>2
<1>8. QED
  BY <1>1, <1>2, <1>3, <1>4, <1>5, <1>6, <1>7 DEF Next

(* The type invariant: a page of the NAND holds a raw page or none, no     *)
(* counter of pages leaves the unsigned numbers, and gNextBlock is pushed  *)
(* no further past the NAND than a range is long.                          *)
THEOREM TypeTheorem == Spec => []TypeOK
<1>1. TypeInv => TypeOK
  BY DEF TypeInv, SfcOK, CallOK, NextInv, PagesOK, TypeOK
<1>2. QED
  BY <1>1, InvariantHolds, InitType, StepType, PTL DEF Spec

===============================================================================
