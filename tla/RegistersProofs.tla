---------------------------- MODULE RegistersProofs ----------------------------
(***************************************************************************)
(* That the controller sees the accesses that were queued, whole and in    *)
(* their order, that nothing is left over between two functions of a       *)
(* driver, and that the lines hold, for pages and batches of any size that *)
(* fits in the buffer.                                                     *)
(***************************************************************************)
EXTENDS Registers, WellFoundedInduction, SequenceTheorems, TLAPS

(* Two machines work through a sequence from its front: the chip through   *)
(* bytes, the worker through the steps of a function.  Path says of either *)
(* that the sequence s leads from a to b: there is a set of situations,    *)
(* what is left and the state, that has <<s, a>> and with each situation   *)
(* but the end one that follows it.  R has the commands with the states    *)
(* before and after.                                                       *)
Path(I, V, R, s, a, b) ==
  \E S \in SUBSET (Seq(I) \X V) :
    /\ <<s, a>> \in S
    /\ \A t \in Seq(I), c \in V : <<t, c>> \in S =>
         \/ t = <<>> /\ c = b
         \/ \E cmd, rest \in Seq(I), d \in V :
              t = cmd \o rest /\ <<cmd, c, d>> \in R /\ <<rest, d>> \in S

(* A first command, and a path after it.                                   *)
Continues(I, V, R, s, a, b) ==
  \E cmd, rest \in Seq(I), d \in V :
    s = cmd \o rest /\ <<cmd, a, d>> \in R /\ Path(I, V, R, rest, d, b)

-------------------------------------------------------------------------------
(* Induction.  The principle is stated with a set: the library's theorem   *)
(* has a predicate for a parameter, which no prover instantiates.          *)

(* A set of natural numbers has a least one.                               *)
LEMMA LeastNatural ==
  ASSUME NEW T \in SUBSET Nat, T # {}
  PROVE  \E x \in T : \A y \in T : x <= y
<1> DEFINE R == OpToRel(<, Nat)
<1>1. IsWellFoundedOn(R, Nat)
  BY NatLessThanWellFounded
<1>2. R = {ss \in Nat \X Nat : ss[1] < ss[2]}
  BY DEF OpToRel
<1> HIDE DEF R
<1>3. PICK x \in T : \A y \in T : ~ (<<y, x>> \in R)
  BY <1>1, WFMin
<1>4. ASSUME NEW y \in T, y < x PROVE FALSE
  <2>1. <<y, x>> \in Nat \X Nat
    OBVIOUS
  <2>2. <<y, x>> \in R
    BY <1>2, <1>4, <2>1
  <2>3. QED
    BY <1>3, <2>2
<1>5. QED
  BY <1>4

(* A set that has 0 and with each number the next one has them all.        *)
LEMMA Induction ==
  ASSUME NEW S, 0 \in S, \A n \in Nat : n \in S => n + 1 \in S
  PROVE  Nat \subseteq S
<1>1. SUFFICES ASSUME Nat \ S # {} PROVE FALSE
  OBVIOUS
<1>2. PICK x \in Nat \ S : \A y \in Nat \ S : x <= y
  BY <1>1, LeastNatural
<1>3. x # 0 /\ x - 1 \in Nat /\ x - 1 \notin S
  BY <1>2
<1>4. QED
  BY <1>2, <1>3

-------------------------------------------------------------------------------
(* Quotients.                                                              *)

(* Division is monotonic.                                                  *)
LEMMA QuotientAtLeast ==
  ASSUME NEW a \in Nat, NEW b \in Nat, NEW k \in Nat \ {0}, k * b <= a
  PROVE  b <= a \div k
<1> DEFINE d == a \div k
<1>1. d \in Nat /\ a < k * d + k
  OBVIOUS
<1>2. ASSUME d + 1 <= b PROVE FALSE
  <2>1. PICK x \in Nat : b = d + 1 + x
    <3>1. b - (d + 1) \in Nat /\ b = d + 1 + (b - (d + 1))
      BY <1>1, <1>2
    <3>2. QED
      BY <3>1
  <2>2. k * b = k * d + k + k * x
    BY <1>1, <2>1
  <2>3. k * x \in Nat /\ k * d \in Nat /\ k * b \in Nat
    BY <1>1, <2>1
  <2>4. QED
    BY <1>1, <2>2, <2>3
<1>3. QED
  BY <1>1, <1>2

(* A quotient is the only number whose multiple is that near.              *)
LEMMA QuotientIs ==
  ASSUME NEW a \in Nat, NEW b \in Nat, NEW k \in Nat \ {0}, k * b <= a, a < k * b + k
  PROVE  a \div k = b
<1> DEFINE d == a \div k
<1>1. d \in Nat /\ k * d <= a
  OBVIOUS
<1>2. b <= d
  BY QuotientAtLeast
<1>3. k * (b + 1) = k * b + k /\ k * b \in Nat /\ k * (b + 1) \in Nat
  OBVIOUS
<1>4. ASSUME b + 1 <= d PROVE FALSE
  <2>1. PICK x \in Nat : d = b + 1 + x
    <3>1. d - (b + 1) \in Nat /\ d = b + 1 + (d - (b + 1))
      BY <1>1, <1>4
    <3>2. QED
      BY <3>1
  <2>2. k * d = k * b + k + k * x /\ k * x \in Nat
    BY <2>1
  <2>3. QED
    BY <1>1, <1>3, <2>2
<1>5. QED
  BY <1>1, <1>2, <1>4

(* A number is told apart by its quotient and its rest.                    *)
LEMMA QuotientAndRest ==
  ASSUME NEW q \in Nat, NEW k \in Nat \ {0}, NEW i \in 0 .. (k - 1)
  PROVE  (k * q + i) \div k = q /\ (k * q + i) % k = i
<1> DEFINE a == k * q + i
<1>1. k * q \in Nat /\ a \in Nat /\ k * q <= a /\ a < k * q + k
  OBVIOUS
<1>2. a \div k = q
  BY <1>1, QuotientIs
<1>3. a = k * (a \div k) + (a % k)
  BY <1>1
<1>4. a % k \in 0 .. (k - 1)
  BY <1>1
<1>5. QED
  BY <1>1, <1>2, <1>3, <1>4

-------------------------------------------------------------------------------
(* What the chip does with a command.                                      *)

Octets   == 0 .. 255
Regs     == 0 .. 63
Data     == [1 .. 4 -> Octets]
Lines    == {<<FALSE, FALSE>>, <<FALSE, TRUE>>, <<TRUE, TRUE>>}
Pinouts  == [high : BOOLEAN, lines : Lines]
Items    == Int \cup Pinouts
Accesses ==
  [reg : Regs, data : Data, in : {0}] \cup [reg : Regs, data : {<<>>}, in : {1, 2, 4}]

(* Its pins, what went out and in since it was selected, and what is still *)
(* to come: accesses, and bytes of replies.                                *)
Chips == [pins : Pinouts, out : Seq(Int), in : Nat, accs : Seq(Accesses), left : Nat]

State(p, o, i, q, l) == [pins |-> p, out |-> o, in |-> i, accs |-> q, left |-> l]

(* With more to come after it.                                             *)
Later(c, q, l) == State(c.pins, c.out, c.in, c.accs \o q, c.left + l)

(* Nothing clocked, nothing to come.                                       *)
AtRest(p) == State(p, <<>>, 0, <<>>, 0)

(* The pins the driver wants, with the chip select high or low.            *)
Pulled(high) == [dwLowPinsValue EXCEPT !.high = high]

DecodedFrom(o, i) ==
  IF o[1] % 4 = 2 THEN [reg |-> o[1] \div 4, data |-> Tail(o), in |-> i]
  ELSE [reg |-> o[1] \div 4, data |-> SubSeq(o, 3, Len(o)), in |-> i]

SetsPins(cmd, c, d) ==
  \E p \in Pinouts, dir \in {AccessPins, LinePins} :
    /\ cmd = <<SET_LOW_BYTE_DATA_BITS, p, dir>>
    /\ dir = AccessPins => p.lines = c.pins.lines
    /\ d.pins = p /\ d.out = <<>> /\ d.in = 0 /\ d.left = c.left
    /\ IF ~c.pins.high /\ p.high /\ c.out # <<>>
       THEN /\ c.accs # <<>> /\ DecodedFrom(c.out, c.in) = Head(c.accs)
            /\ d.accs = Tail(c.accs)
       ELSE d.accs = c.accs

BytesOut(cmd, c, d) ==
  \E n, m \in Octets, s \in Seq(Int) :
    /\ cmd = <<CLK_DATA_BYTES_OUT, n, m>> \o s
    /\ Len(s) = Length(n, m)
    /\ d.pins = c.pins /\ d.in = c.in /\ d.accs = c.accs /\ d.left = c.left
    /\ d.out = IF c.pins.high THEN c.out ELSE c.out \o s

BitsOut(cmd, c, d) ==
  \E b \in Int :
    /\ cmd = <<CLK_DATA_BITS_OUT, 7, b>>
    /\ d.pins = c.pins /\ d.in = c.in /\ d.accs = c.accs /\ d.left = c.left
    /\ d.out = IF c.pins.high THEN c.out ELSE c.out \o <<b>>

BytesIn(cmd, c, d) ==
  \E n, m \in Octets :
    /\ cmd = <<CLK_DATA_BYTES_IN, n, m>>
    /\ d.pins = c.pins /\ d.out = c.out /\ d.accs = c.accs
    /\ d.in = c.in + Length(n, m) /\ c.left = d.left + Length(n, m)

BitsIn(cmd, c, d) ==
  /\ cmd = <<CLK_DATA_BITS_IN, 7>>
  /\ d.pins = c.pins /\ d.out = c.out /\ d.accs = c.accs
  /\ d.in = c.in + 1 /\ c.left = d.left + 1

Immediate(cmd, c, d) ==
  /\ cmd = <<SEND_IMMEDIATE>>
  /\ d.pins = c.pins /\ d.out = c.out /\ d.in = c.in /\ d.accs = c.accs /\ d.left = c.left

Moves(cmd, c, d) ==
  \/ SetsPins(cmd, c, d) \/ BytesOut(cmd, c, d) \/ BitsOut(cmd, c, d)
  \/ BytesIn(cmd, c, d) \/ BitsIn(cmd, c, d) \/ Immediate(cmd, c, d)

Chip == {x \in Seq(Items) \X Chips \X Chips : Moves(x[1], x[2], x[3])}

(* The bytes s lead the chip from a to b, with every access of a decoded.  *)
Runs(s, a, b) == Path(Items, Chips, Chip, s, a, b)

(* The first of them, and the rest.                                        *)
Takes(s, a, b) ==
  \E cmd, rest \in Seq(Items), d \in Chips :
    s = cmd \o rest /\ Moves(cmd, a, d) /\ Runs(rest, d, b)

-------------------------------------------------------------------------------
(* What the worker does with a step.                                       *)

Ops ==
  [op : {"clear", "fast", "send"}] \cup [op : {"queue"}, access : Accesses]
  \cup [op : {"delay", "get"}, n : Nat]
  \cup [op : {"lines"}, lines : Lines] \cup [op : {"cs"}, high : BOOLEAN]

(* Bytes in the buffer, bytes of replies that will come for them, and      *)
(* bytes of replies that are on their way.                                 *)
Tallies == Nat \X Nat \X Nat

Nothing == <<0, 0, 0>>

Size(a) == IF a.in = 0 THEN 16 ELSE IF a.in = 1 THEN 15 ELSE 18

DelaySize(k) == IF k = 0 THEN 0 ELSE 3 + k

(* The most bytes one command clocks.                                      *)
MostClocked == 256 * 256

(* What a step needs, and what it makes of the tallies: room for what is   *)
(* staged, an empty buffer when it is cleared or used for something else   *)
(* and when a reply is taken, and no longer a reply than will come.        *)
Works(s, n, o, d, b) ==
  \/ s.op = "clear" /\ n = 0 /\ b = <<n, o, d>>
  \/ s.op = "queue" /\ n + Size(s.access) <= OUTPUT_BUFFER_SIZE
     /\ b = <<n + Size(s.access), o + s.access.in, d>>
  \/ s.op = "delay" /\ n > 0 /\ s.n <= MostClocked /\ n + DelaySize(s.n) <= OUTPUT_BUFFER_SIZE
     /\ b = <<n + DelaySize(s.n), o, d>>
  \/ s.op = "fast" /\ n > 0 /\ n + 1 <= OUTPUT_BUFFER_SIZE /\ b = <<n + 1, o, d>>
  \/ s.op = "send" /\ b = <<0, 0, d + o>>
  \/ s.op = "get" /\ n = 0 /\ s.n <= d /\ b = <<n, o, d - s.n>>
  \/ s.op \in {"lines", "cs"} /\ n = 0 /\ b = <<n, o, d>>

Work ==
  {x \in Seq(Ops) \X Tallies \X Tallies :
     \E s \in Ops : x[1] = <<s>> /\ Works(s, x[2][1], x[2][2], x[2][3], x[3])}

(* The steps s lead the worker from a to b.                                *)
Does(s, a, b) == Path(Ops, Tallies, Work, s, a, b)

(* The steps s stage k bytes for w bytes of replies, when e or more are    *)
(* staged.                                                                 *)
Adds(s, e, k, w) ==
  /\ s \in Seq(Ops) /\ s # <<>>
  /\ \A n, o, d \in Nat :
       n >= e /\ n + k <= OUTPUT_BUFFER_SIZE => Does(s, <<n, o, d>>, <<n + k, o + w, d>>)

-------------------------------------------------------------------------------
(* Paths.                                                                  *)

(* Nothing leads nowhere.                                                  *)
LEMMA PathNil ==
  ASSUME NEW I, NEW V, NEW R, NEW a \in V
  PROVE  Path(I, V, R, <<>>, a, a)
<1> DEFINE S == {<< <<>>, a>>}
<1>1. <<>> \in Seq(I)
  BY EmptySeq
<1>2. S \in SUBSET (Seq(I) \X V)
  <2>1. << <<>>, a>> \in Seq(I) \X V
    BY <1>1, Zenon
  <2>2. QED
    BY <2>1, Zenon
<1>3. \A t \in Seq(I), c \in V : <<t, c>> \in S => t = <<>> /\ c = a
  OBVIOUS
<1>4. << <<>>, a>> \in S
  OBVIOUS
<1> HIDE DEF S
<1>5. QED
  BY <1>2, <1>3, <1>4, Zenon DEF Path

(* What a path is a path of.                                               *)
LEMMA PathTyped ==
  ASSUME NEW I, NEW V, NEW R, NEW s, NEW a, NEW b, Path(I, V, R, s, a, b)
  PROVE  s \in Seq(I) /\ a \in V
<1>1. PICK S \in SUBSET (Seq(I) \X V) : <<s, a>> \in S
  BY Zenon DEF Path
<1>2. QED
  BY <1>1

(* A path goes on after its first command.                                 *)
LEMMA PathStep ==
  ASSUME NEW I, NEW V, NEW R, NEW s, NEW a, NEW b, Path(I, V, R, s, a, b)
  PROVE  (s = <<>> /\ a = b) \/ Continues(I, V, R, s, a, b)
<1>1. PICK S \in SUBSET (Seq(I) \X V) :
        /\ <<s, a>> \in S
        /\ \A t \in Seq(I), c \in V : <<t, c>> \in S =>
             \/ t = <<>> /\ c = b
             \/ \E cmd, rest \in Seq(I), d \in V :
                  t = cmd \o rest /\ <<cmd, c, d>> \in R /\ <<rest, d>> \in S
  BY Zenon DEF Path
<1>2. \A t, c : <<t, c>> \in S => Path(I, V, R, t, c, b)
  BY <1>1, Zenon DEF Path
<1>3. s \in Seq(I) /\ a \in V
  BY <1>1
<1>4. QED
  BY <1>1, <1>2, <1>3, Zenon DEF Continues

(* A command in front of a path.                                           *)
LEMMA PathFirst ==
  ASSUME NEW I, NEW V, NEW R, NEW cmd \in Seq(I), NEW rest, NEW a \in V, NEW d, NEW b,
         <<cmd, a, d>> \in R, Path(I, V, R, rest, d, b)
  PROVE  Path(I, V, R, cmd \o rest, a, b)
<1>1. PICK S \in SUBSET (Seq(I) \X V) :
        /\ <<rest, d>> \in S
        /\ \A t \in Seq(I), c \in V : <<t, c>> \in S =>
             \/ t = <<>> /\ c = b
             \/ \E x, y \in Seq(I), e \in V :
                  t = x \o y /\ <<x, c, e>> \in R /\ <<y, e>> \in S
  BY Zenon DEF Path
<1>2. rest \in Seq(I) /\ d \in V
  BY <1>1
<1> DEFINE T == S \cup {<<cmd \o rest, a>>}
<1>3. T \in SUBSET (Seq(I) \X V)
  <2>1. cmd \o rest \in Seq(I)
    BY <1>2, ConcatProperties
  <2>2. <<cmd \o rest, a>> \in Seq(I) \X V
    BY <2>1, Zenon
  <2>3. QED
    BY <2>2, Zenon
<1>4. <<cmd \o rest, a>> \in T
  OBVIOUS
<1>5. ASSUME NEW t \in Seq(I), NEW c \in V, <<t, c>> \in T
      PROVE  \/ t = <<>> /\ c = b
             \/ \E x, y \in Seq(I), e \in V :
                  t = x \o y /\ <<x, c, e>> \in R /\ <<y, e>> \in T
  <2>1. CASE <<t, c>> \in S
    BY <2>1, <1>1, Zenon
  <2>2. CASE t = cmd \o rest /\ c = a
    BY <2>2, <1>1, <1>2, Zenon
  <2>3. QED
    BY <1>5, <2>1, <2>2
<1> HIDE DEF T
<1>6. QED
  BY <1>3, <1>4, <1>5, Zenon DEF Path

(* One command is a path.                                                  *)
LEMMA PathOne ==
  ASSUME NEW I, NEW V, NEW R, NEW cmd \in Seq(I), NEW a \in V, NEW b \in V,
         <<cmd, a, b>> \in R
  PROVE  Path(I, V, R, cmd, a, b)
<1>1. Path(I, V, R, <<>>, b, b)
  BY PathNil
<1>2. Path(I, V, R, cmd \o <<>>, a, b)
  BY <1>1, PathFirst
<1>3. cmd \o <<>> = cmd
  BY ConcatEmptySeq
<1>4. QED
  BY <1>2, <1>3

(* Two paths one after the other.                                          *)
LEMMA PathConcat ==
  ASSUME NEW I, NEW V, NEW R, NEW s, NEW t, NEW a, NEW m, NEW b,
         Path(I, V, R, s, a, m), Path(I, V, R, t, m, b)
  PROVE  Path(I, V, R, s \o t, a, b)
<1>1. PICK S \in SUBSET (Seq(I) \X V) :
        /\ <<s, a>> \in S
        /\ \A u \in Seq(I), c \in V : <<u, c>> \in S =>
             \/ u = <<>> /\ c = m
             \/ \E x, y \in Seq(I), e \in V :
                  u = x \o y /\ <<x, c, e>> \in R /\ <<y, e>> \in S
  BY Zenon DEF Path
<1>2. PICK T \in SUBSET (Seq(I) \X V) :
        /\ <<t, m>> \in T
        /\ \A u \in Seq(I), c \in V : <<u, c>> \in T =>
             \/ u = <<>> /\ c = b
             \/ \E x, y \in Seq(I), e \in V :
                  u = x \o y /\ <<x, c, e>> \in R /\ <<y, e>> \in T
  BY Zenon DEF Path
<1>3. s \in Seq(I) /\ t \in Seq(I) /\ a \in V /\ m \in V
  BY <1>1, <1>2
<1> DEFINE U == {<<z[1] \o t, z[2]>> : z \in S}
           W == U \cup T
<1>4. W \in SUBSET (Seq(I) \X V)
  <2>1. ASSUME NEW z \in S PROVE <<z[1] \o t, z[2]>> \in Seq(I) \X V
    BY <1>3, ConcatProperties
  <2>2. QED
    BY <2>1
<1>5. ASSUME NEW u, NEW c, <<u, c>> \in S PROVE <<u \o t, c>> \in W
  <2>1. <<u, c>>[1] = u /\ <<u, c>>[2] = c
    OBVIOUS
  <2>2. <<u \o t, c>> \in U
    BY <1>5, <2>1, Zenon
  <2>3. QED
    BY <2>2
<1>6. ASSUME NEW w \in U
      PROVE  \E u \in Seq(I), c \in V : <<u, c>> \in S /\ w = <<u \o t, c>>
  <2>1. PICK z \in S : w = <<z[1] \o t, z[2]>>
    BY Zenon
  <2>2. z[1] \in Seq(I) /\ z[2] \in V /\ <<z[1], z[2]>> = z
    OBVIOUS
  <2>3. QED
    BY <2>1, <2>2, Zenon
<1>7. T \subseteq W
  OBVIOUS
<1>8. \A w \in W : w \in U \/ w \in T
  OBVIOUS
<1> DEFINE Assoc(f, g, h) == (f \o g) \o h = f \o (g \o h)
<1>0. \A f, g, h \in Seq(I) : Assoc(f, g, h)
  <2> SUFFICES ASSUME NEW f \in Seq(I), NEW g \in Seq(I), NEW h \in Seq(I) PROVE Assoc(f, g, h)
    OBVIOUS
  <2>1. QED
    BY ConcatAssociative
<1> HIDE DEF Assoc
<1> HIDE DEF U, W
<1>9. ASSUME NEW u \in Seq(I), NEW c \in V, <<u, c>> \in W
      PROVE  \/ u = <<>> /\ c = b
             \/ \E x, y \in Seq(I), e \in V :
                  u = x \o y /\ <<x, c, e>> \in R /\ <<y, e>> \in W
  <2>1. CASE <<u, c>> \in T
    BY <2>1, <1>2, <1>7, Zenon
  <2>2. CASE <<u, c>> \in U
    <3>1. PICK v \in Seq(I), k \in V : <<v, k>> \in S /\ <<u, c>> = <<v \o t, k>>
      BY <2>2, <1>6
    <3>2. u = v \o t /\ c = k
      BY <3>1
    <3>3. CASE v = <<>> /\ k = m
      <4>1. u = t
        BY <3>2, <3>3, <1>3, ConcatEmptySeq
      <4>2. <<u, c>> \in T
        BY <4>1, <3>2, <3>3, <1>2
      <4>3. QED
        BY <4>2, <2>1
    <3>4. CASE \E x, y \in Seq(I), e \in V :
                 v = x \o y /\ <<x, k, e>> \in R /\ <<y, e>> \in S
      <4>1. PICK x \in Seq(I), y \in Seq(I), e \in V :
              v = x \o y /\ <<x, k, e>> \in R /\ <<y, e>> \in S
        BY <3>4
      <4>2. u = x \o (y \o t)
        <5>1. x \in Seq(I) /\ y \in Seq(I) /\ t \in Seq(I)
          BY <1>3
        <5>2. Assoc(x, y, t)
          BY <5>1, <1>0, Zenon
        <5>3. (x \o y) \o t = x \o (y \o t)
          BY <5>2 DEF Assoc
        <5>4. QED
          BY <4>1, <3>2, <5>3, Zenon
      <4>3. y \o t \in Seq(I)
        BY <1>3, ConcatProperties
      <4>4. <<y \o t, e>> \in W
        BY <4>1, <1>5
      <4>5. QED
        BY <4>1, <4>2, <4>3, <4>4, <3>2, Zenon
    <3>5. QED
      BY <3>1, <3>3, <3>4, <1>1, Zenon
  <2>3. QED
    BY <1>9, <1>8, <2>1, <2>2, Zenon
<1>10. <<s \o t, a>> \in W
  BY <1>1, <1>5
<1>11. QED
  BY <1>4, <1>9, <1>10, Zenon DEF Path

-------------------------------------------------------------------------------
(* What is repeated.                                                       *)

(* Once more is once more at the end.                                      *)
LEMMA TimesNext ==
  ASSUME NEW I, NEW s \in Seq(I), s # <<>>, NEW n \in Nat
  PROVE  Times(0, s) = <<>> /\ Times(n, s) \in Seq(I) /\ Times(n + 1, s) = Times(n, s) \o s
<1> DEFINE L == Len(s)
<1>1. L \in Nat \ {0} /\ DOMAIN s = 1 .. L /\ \A j \in 1 .. L : s[j] \in I
  BY EmptySeq, LenProperties
<1>2. \A m \in Nat : m * L \in Nat
  BY <1>1
<1>3. \A k \in Nat \ {0} : ((k - 1) % L) + 1 \in 1 .. L
  BY <1>1
<1> HIDE DEF L
<1>4. ASSUME NEW m \in Nat
      PROVE  /\ Times(m, s) \in Seq(I) /\ Len(Times(m, s)) = m * L
             /\ \A k \in 1 .. m * L : Times(m, s)[k] = s[((k - 1) % L) + 1]
  <2> DEFINE N == m * L
  <2>1. N \in Nat /\ Times(m, s) = [k \in 1 .. N |-> s[((k - 1) % L) + 1]]
    BY <1>2 DEF Times, L
  <2> HIDE DEF N
  <2>2. \A k \in 1 .. N : s[((k - 1) % L) + 1] \in I
    BY <1>1, <1>3, <2>1
  <2>3. [k \in 1 .. N |-> s[((k - 1) % L) + 1]] \in Seq(I)
    BY <2>1, <2>2
  <2>4. Len([k \in 1 .. N |-> s[((k - 1) % L) + 1]]) = N
    BY <2>1
  <2>5. QED
    BY <2>1, <2>3, <2>4 DEF N
<1>5. Times(0, s) = <<>>
  <2>1. 0 * L = 0
    BY <1>1
  <2>2. Times(0, s) \in Seq(I) /\ Len(Times(0, s)) = 0
    BY <1>4, <2>1
  <2>3. QED
    BY <2>2, EmptySeq
<1> DEFINE N == n * L
           t == Times(n, s)
           u == Times(n + 1, s)
<1>6. N \in Nat /\ (n + 1) * L = N + L
  BY <1>1, <1>2
<1>7. t \in Seq(I) /\ Len(t) = N /\ \A k \in 1 .. N : t[k] = s[((k - 1) % L) + 1]
  BY <1>4
<1>8. u \in Seq(I) /\ Len(u) = N + L /\ \A k \in 1 .. (N + L) : u[k] = s[((k - 1) % L) + 1]
  BY <1>4, <1>6
<1> HIDE DEF t, u
<1>9. ASSUME NEW j \in 1 .. L PROVE u[N + j] = s[j]
  <2>1. (L * n + (j - 1)) % L = j - 1
    <3>1. j - 1 \in 0 .. (L - 1)
      BY <1>1
    <3>2. QED
      BY <1>1, <3>1, QuotientAndRest
  <2>2. (N + j) - 1 = L * n + (j - 1) /\ N + j \in 1 .. (N + L)
    BY <1>1, <1>6
  <2>3. u[N + j] = s[(((N + j) - 1) % L) + 1]
    BY <1>8, <2>2
  <2>4. QED
    BY <2>1, <2>2, <2>3, <1>1
<1> HIDE DEF N
<1>10. Len(t \o s) = N + L /\ t \o s \in Seq(I)
       /\ \A k \in 1 .. (N + L) : (t \o s)[k] = IF k <= N THEN t[k] ELSE s[k - N]
  BY <1>7, ConcatProperties DEF L
<1>11. ASSUME NEW k \in 1 .. (N + L) PROVE u[k] = (t \o s)[k]
  <2>0. k \in Nat /\ N \in Nat /\ L \in Nat /\ k >= 1 /\ k <= N + L
    <3>1. N \in Nat /\ L \in Nat
      BY <1>1, <1>6
    <3>2. QED
      BY <3>1
  <2>1. CASE k <= N
    <3>1. k \in 1 .. N
      BY <2>0, <2>1
    <3>2. u[k] = t[k]
      BY <3>1, <1>7, <1>8, Zenon
    <3>3. (t \o s)[k] = t[k]
      BY <2>1, <1>10, Zenon
    <3>4. QED
      BY <3>2, <3>3, Zenon
  <2>2. CASE k > N
    <3>1. k - N \in 1 .. L /\ N + (k - N) = k
      BY <2>2, <1>1, <1>6
    <3>2. u[N + (k - N)] = s[k - N]
      BY <3>1, <1>9
    <3>3. QED
      BY <2>2, <3>1, <3>2, <1>6, <1>10
  <2>3. k <= N \/ k > N
    BY <2>0
  <2>4. QED
    BY <2>1, <2>2, <2>3, Zenon
<1>12. u = t \o s
  BY <1>8, <1>10, <1>11, SeqEqual
<1>13. QED
  BY <1>5, <1>7, <1>12 DEF t, u

(* Paths end to end.                                                       *)
LEMMA PathTimes ==
  ASSUME NEW I, NEW V, NEW R, NEW s \in Seq(I), s # <<>>, NEW f, NEW n \in Nat, f[0] \in V,
         \A i \in 0 .. (n - 1) : Path(I, V, R, s, f[i], f[i + 1])
  PROVE  Path(I, V, R, Times(n, s), f[0], f[n])
<1> DEFINE S == {i \in Nat : i <= n => Path(I, V, R, Times(i, s), f[0], f[i])}
<1>1. 0 \in S
  <2>1. Times(0, s) = <<>>
    BY TimesNext
  <2>2. Path(I, V, R, <<>>, f[0], f[0])
    BY PathNil
  <2>3. QED
    BY <2>1, <2>2
<1>2. ASSUME NEW i \in Nat, i \in S PROVE i + 1 \in S
  <2>1. SUFFICES ASSUME i + 1 <= n PROVE Path(I, V, R, Times(i + 1, s), f[0], f[i + 1])
    OBVIOUS
  <2>2. Path(I, V, R, Times(i, s), f[0], f[i])
    BY <1>2, <2>1
  <2>3. i \in 0 .. (n - 1)
    BY <2>1
  <2>4. Path(I, V, R, s, f[i], f[i + 1])
    BY <2>3
  <2>5. Times(i + 1, s) = Times(i, s) \o s
    BY TimesNext
  <2>6. QED
    BY <2>2, <2>4, <2>5, PathConcat, Zenon
<1>3. Nat \subseteq S
  <2> HIDE DEF S
  <2>1. QED
    BY <1>1, <1>2, Induction
<1>4. QED
  BY <1>3

(* A sequence of one sequence.                                             *)
LEMMA FlattenOne == ASSUME NEW f, DOMAIN f = 1 .. 1, Len(f) = 1 PROVE FlattenSeq(f) = f[1]
<1> DEFINE Is(g) == g = [i \in 1 .. 1 |-> IF i = 1 THEN f[i] ELSE g[i - 1] \o f[i]]
           g == CHOOSE g : Is(g)
<1>1. FlattenSeq(f) = g[1]
  BY DEF FlattenSeq
<1>2. Is([i \in 1 .. 1 |-> f[1]])
  OBVIOUS
<1>3. Is(g)
  BY <1>2, Zenon
<1>4. QED
  BY <1>1, <1>3

(* A sequence of three sequences.                                          *)
LEMMA FlattenThree ==
  ASSUME NEW f, DOMAIN f = 1 .. 3, Len(f) = 3
  PROVE  FlattenSeq(f) = (f[1] \o f[2]) \o f[3]
<1> DEFINE Is(g) == g = [i \in 1 .. 3 |-> IF i = 1 THEN f[i] ELSE g[i - 1] \o f[i]]
           g == CHOOSE g : Is(g)
           h == [i \in 1 .. 3 |-> IF i = 1 THEN f[1] ELSE IF i = 2 THEN f[1] \o f[2]
                                  ELSE (f[1] \o f[2]) \o f[3]]
<1>1. FlattenSeq(f) = g[3]
  BY DEF FlattenSeq
<1>2. Is(h)
  OBVIOUS
<1>3. Is(g)
  <2> HIDE DEF h, Is
  <2>1. QED
    BY <1>2, Zenon
<1>4. g[1] = f[1] /\ g[2] = g[1] \o f[2] /\ g[3] = g[2] \o f[3]
  <2> HIDE DEF g
  <2>1. \A i \in 1 .. 3 : g[i] = IF i = 1 THEN f[i] ELSE g[i - 1] \o f[i]
    BY <1>3, Zenon
  <2>2. QED
    BY <2>1
<1>5. QED
  BY <1>1, <1>4

-------------------------------------------------------------------------------
(* The chip.                                                               *)

(* A change of state that every command agrees with takes paths to paths.  *)
LEMMA PathMap ==
  ASSUME NEW I, NEW V, NEW R, NEW s, NEW a, NEW b, Path(I, V, R, s, a, b), b \in V,
         NEW f \in [V -> V],
         \A cmd \in Seq(I), c, d \in V : <<cmd, c, d>> \in R => <<cmd, f[c], f[d]>> \in R
  PROVE  Path(I, V, R, s, f[a], f[b])
<1>1. PICK S \in SUBSET (Seq(I) \X V) :
        /\ <<s, a>> \in S
        /\ \A u \in Seq(I), c \in V : <<u, c>> \in S =>
             \/ u = <<>> /\ c = b
             \/ \E x, y \in Seq(I), e \in V :
                  u = x \o y /\ <<x, c, e>> \in R /\ <<y, e>> \in S
  BY Zenon DEF Path
<1> DEFINE U == {<<z[1], f[z[2]]>> : z \in S}
<1>2. ASSUME NEW u, NEW c, <<u, c>> \in S PROVE <<u, f[c]>> \in U
  <2>1. <<u, c>>[1] = u /\ <<u, c>>[2] = c
    OBVIOUS
  <2>2. QED
    BY <1>2, <2>1, Zenon
<1>3. ASSUME NEW w \in U
      PROVE  \E u \in Seq(I), c \in V : <<u, c>> \in S /\ w = <<u, f[c]>>
  <2>1. PICK z \in S : w = <<z[1], f[z[2]]>>
    BY Zenon
  <2>2. z[1] \in Seq(I) /\ z[2] \in V /\ <<z[1], z[2]>> = z
    OBVIOUS
  <2>3. QED
    BY <2>1, <2>2, Zenon
<1> HIDE DEF U
<1>4. U \in SUBSET (Seq(I) \X V)
  <2>1. ASSUME NEW w \in U PROVE w \in Seq(I) \X V
    <3>1. PICK u \in Seq(I), c \in V : w = <<u, f[c]>>
      BY <1>3, Zenon
    <3>2. f[c] \in V
      OBVIOUS
    <3>3. QED
      BY <3>1, <3>2, Zenon
  <2>2. QED
    BY <2>1
<1>5. ASSUME NEW t \in Seq(I), NEW k \in V, <<t, k>> \in U
      PROVE  \/ t = <<>> /\ k = f[b]
             \/ \E x, y \in Seq(I), e \in V :
                  t = x \o y /\ <<x, k, e>> \in R /\ <<y, e>> \in U
  <2>1. PICK u \in Seq(I), c \in V : <<u, c>> \in S /\ <<t, k>> = <<u, f[c]>>
    BY <1>3, <1>5
  <2>2. t = u /\ k = f[c]
    BY <2>1
  <2>3. CASE u = <<>> /\ c = b
    BY <2>2, <2>3
  <2>4. CASE \E x, y \in Seq(I), e \in V :
               u = x \o y /\ <<x, c, e>> \in R /\ <<y, e>> \in S
    <3>1. PICK x \in Seq(I), y \in Seq(I), e \in V :
            u = x \o y /\ <<x, c, e>> \in R /\ <<y, e>> \in S
      BY <2>4
    <3>2. <<x, f[c], f[e]>> \in R /\ <<y, f[e]>> \in U /\ f[e] \in V
      BY <3>1, <1>2
    <3>3. QED
      BY <2>2, <3>1, <3>2, Zenon
  <2>5. QED
    BY <2>1, <2>3, <2>4, <1>1, Zenon
<1>6. <<s, f[a]>> \in U
  BY <1>1, <1>2
<1>7. QED
  BY <1>4, <1>5, <1>6, Zenon DEF Path

(* The front of two sequences.                                             *)
LEMMA HeadTailOfConcat ==
  ASSUME NEW I, NEW s \in Seq(I), s # <<>>, NEW t \in Seq(I)
  PROVE  s \o t # <<>> /\ Head(s \o t) = Head(s) /\ Tail(s \o t) = Tail(s) \o t
<1>1. Len(s) \in Nat \ {0} /\ Len(t) \in Nat
  BY EmptySeq, LenProperties
<1>2. /\ s \o t \in Seq(I) /\ Len(s \o t) = Len(s) + Len(t)
      /\ \A i \in 1 .. Len(s) + Len(t) : (s \o t)[i] = IF i <= Len(s) THEN s[i] ELSE t[i - Len(s)]
  BY ConcatProperties
<1>3. s \o t # <<>>
  BY <1>1, <1>2, EmptySeq
<1>4. Head(s \o t) = Head(s)
  <2>1. (s \o t)[1] = s[1]
    BY <1>1, <1>2
  <2>2. QED
    BY <2>1, <1>2, <1>3
<1>5. /\ Tail(s) \in Seq(I) /\ Len(Tail(s)) = Len(s) - 1
      /\ \A i \in 1 .. Len(Tail(s)) : Tail(s)[i] = s[i + 1]
  BY HeadTailProperties
<1>6. /\ Tail(s \o t) \in Seq(I) /\ Len(Tail(s \o t)) = Len(s) + Len(t) - 1
      /\ \A i \in 1 .. Len(Tail(s \o t)) : Tail(s \o t)[i] = (s \o t)[i + 1]
  BY <1>2, <1>3, HeadTailProperties
<1>7. /\ Tail(s) \o t \in Seq(I) /\ Len(Tail(s) \o t) = Len(s) + Len(t) - 1
      /\ \A i \in 1 .. (Len(s) + Len(t) - 1) :
           (Tail(s) \o t)[i] = IF i <= Len(s) - 1 THEN Tail(s)[i] ELSE t[i - (Len(s) - 1)]
  BY <1>1, <1>5, ConcatProperties
<1>8. ASSUME NEW i \in 1 .. (Len(s) + Len(t) - 1)
      PROVE  Tail(s \o t)[i] = (Tail(s) \o t)[i]
  BY <1>1, <1>2, <1>5, <1>6, <1>7
<1>9. Tail(s \o t) = Tail(s) \o t
  BY <1>6, <1>7, <1>8, SeqEqual
<1>10. QED
  BY <1>3, <1>4, <1>9

(* What a state of the chip is made of.                                    *)
LEMMA StateParts ==
  ASSUME NEW p \in Pinouts, NEW o \in Seq(Int), NEW i \in Nat, NEW q \in Seq(Accesses), NEW l \in Nat
  PROVE  /\ State(p, o, i, q, l) \in Chips
         /\ State(p, o, i, q, l).pins = p /\ State(p, o, i, q, l).out = o
         /\ State(p, o, i, q, l).in = i /\ State(p, o, i, q, l).accs = q
         /\ State(p, o, i, q, l).left = l
  BY DEF State, Chips

(* And of one with more to come.                                           *)
LEMMA LaterParts ==
  ASSUME NEW c \in Chips, NEW q \in Seq(Accesses), NEW l \in Nat
  PROVE  /\ Later(c, q, l) \in Chips
         /\ Later(c, q, l).pins = c.pins /\ Later(c, q, l).out = c.out
         /\ Later(c, q, l).in = c.in /\ Later(c, q, l).accs = c.accs \o q
         /\ Later(c, q, l).left = c.left + l
<1>1. c.pins \in Pinouts /\ c.out \in Seq(Int) /\ c.in \in Nat /\ c.accs \in Seq(Accesses)
      /\ c.left \in Nat
  BY DEF Chips
<1>2. c.accs \o q \in Seq(Accesses) /\ c.left + l \in Nat
  BY <1>1, ConcatProperties
<1>3. QED
  BY <1>1, <1>2 DEF Later, State, Chips

(* Accesses and replies that come later do not matter to a command.        *)
LEMMA ChipShift ==
  ASSUME NEW cmd \in Seq(Items), NEW c \in Chips, NEW d \in Chips, <<cmd, c, d>> \in Chip,
         NEW q \in Seq(Accesses), NEW l \in Nat
  PROVE  <<cmd, Later(c, q, l), Later(d, q, l)>> \in Chip
<1> DEFINE C == Later(c, q, l)
           D == Later(d, q, l)
<1>1. /\ C \in Chips /\ D \in Chips
      /\ C.pins = c.pins /\ C.out = c.out /\ C.in = c.in /\ C.accs = c.accs \o q /\ C.left = c.left + l
      /\ D.pins = d.pins /\ D.out = d.out /\ D.in = d.in /\ D.accs = d.accs \o q /\ D.left = d.left + l
  BY LaterParts
<1>2. c.accs \in Seq(Accesses) /\ d.accs \in Seq(Accesses) /\ c.left \in Nat /\ d.left \in Nat
      /\ c.in \in Nat
  BY DEF Chips
<1> HIDE DEF C, D
<1>3. \/ SetsPins(cmd, c, d) \/ BytesOut(cmd, c, d) \/ BitsOut(cmd, c, d)
      \/ BytesIn(cmd, c, d) \/ BitsIn(cmd, c, d) \/ Immediate(cmd, c, d)
  BY DEF Chip, Moves
<1>4. CASE SetsPins(cmd, c, d)
  <2>1. PICK p \in Pinouts, dir \in {AccessPins, LinePins} :
          /\ cmd = <<SET_LOW_BYTE_DATA_BITS, p, dir>>
          /\ dir = AccessPins => p.lines = c.pins.lines
          /\ d.pins = p /\ d.out = <<>> /\ d.in = 0 /\ d.left = c.left
          /\ IF ~c.pins.high /\ p.high /\ c.out # <<>>
             THEN /\ c.accs # <<>> /\ DecodedFrom(c.out, c.in) = Head(c.accs)
                  /\ d.accs = Tail(c.accs)
             ELSE d.accs = c.accs
    BY <1>4, Zenon DEF SetsPins
  <2>2. CASE ~c.pins.high /\ p.high /\ c.out # <<>>
    <3>1. c.accs # <<>> /\ DecodedFrom(c.out, c.in) = Head(c.accs) /\ d.accs = Tail(c.accs)
      BY <2>1, <2>2, Zenon
    <3>2. c.accs \o q # <<>> /\ Head(c.accs \o q) = Head(c.accs)
          /\ Tail(c.accs \o q) = Tail(c.accs) \o q
      BY <3>1, <1>2, HeadTailOfConcat
    <3>3. C.accs # <<>> /\ DecodedFrom(C.out, C.in) = Head(C.accs) /\ D.accs = Tail(C.accs)
      BY <3>1, <3>2, <1>1
    <3>4. D.left = C.left
      BY <2>1, <1>1
    <3>5. SetsPins(cmd, C, D)
      BY <2>1, <2>2, <3>3, <3>4, <1>1, Zenon DEF SetsPins
    <3>6. QED
      BY <3>5, <1>1 DEF Chip, Moves, C, D
  <2>3. CASE ~(~c.pins.high /\ p.high /\ c.out # <<>>)
    <3>1. d.accs = c.accs
      BY <2>1, <2>3, Zenon
    <3>2. D.accs = C.accs /\ D.left = C.left
      BY <3>1, <2>1, <1>1
    <3>3. SetsPins(cmd, C, D)
      BY <2>1, <2>3, <3>2, <1>1, Zenon DEF SetsPins
    <3>4. QED
      BY <3>3, <1>1 DEF Chip, Moves, C, D
  <2>4. QED
    BY <2>2, <2>3
<1>5. CASE BytesOut(cmd, c, d)
  <2>1. BytesOut(cmd, C, D)
    BY <1>5, <1>1 DEF BytesOut
  <2>2. QED
    BY <2>1, <1>1 DEF Chip, Moves, C, D
<1>6. CASE BitsOut(cmd, c, d)
  <2>1. BitsOut(cmd, C, D)
    BY <1>6, <1>1 DEF BitsOut
  <2>2. QED
    BY <2>1, <1>1 DEF Chip, Moves, C, D
<1>7. CASE BytesIn(cmd, c, d)
  <2>1. PICK n \in Octets, m \in Octets :
          /\ cmd = <<CLK_DATA_BYTES_IN, n, m>>
          /\ d.pins = c.pins /\ d.out = c.out /\ d.accs = c.accs
          /\ d.in = c.in + Length(n, m) /\ c.left = d.left + Length(n, m)
    BY <1>7, Zenon DEF BytesIn
  <2>2. Length(n, m) \in Nat
    BY DEF Length, Octets
  <2>3. C.left = D.left + Length(n, m)
    BY <2>1, <2>2, <1>1, <1>2
  <2>4. BytesIn(cmd, C, D)
    BY <2>1, <2>3, <1>1, Zenon DEF BytesIn
  <2>5. QED
    BY <2>4, <1>1 DEF Chip, Moves, C, D
<1>8. CASE BitsIn(cmd, c, d)
  <2>1. BitsIn(cmd, C, D)
    BY <1>8, <1>1, <1>2 DEF BitsIn
  <2>2. QED
    BY <2>1, <1>1 DEF Chip, Moves, C, D
<1>9. CASE Immediate(cmd, c, d)
  <2>1. Immediate(cmd, C, D)
    BY <1>9, <1>1 DEF Immediate
  <2>2. QED
    BY <2>1, <1>1 DEF Chip, Moves, C, D
<1>10. QED
  BY <1>3, <1>4, <1>5, <1>6, <1>7, <1>8, <1>9

(* The same of all that the chip has to execute.                           *)
LEMMA RunsShift ==
  ASSUME NEW s, NEW a, NEW b \in Chips, Runs(s, a, b), NEW q \in Seq(Accesses), NEW l \in Nat
  PROVE  Runs(s, Later(a, q, l), Later(b, q, l))
<1> DEFINE f == [c \in Chips |-> Later(c, q, l)]
<1>1. ASSUME NEW c \in Chips PROVE Later(c, q, l) \in Chips
  BY LaterParts
<1>2. f \in [Chips -> Chips]
  BY <1>1
<1>3. \A c \in Chips : f[c] = Later(c, q, l)
  OBVIOUS
<1>4. a \in Chips
  BY PathTyped DEF Runs
<1> HIDE DEF f
<1>5. \A cmd \in Seq(Items), c, d \in Chips : <<cmd, c, d>> \in Chip => <<cmd, f[c], f[d]>> \in Chip
  BY <1>3, ChipShift, Zenon
<1>6. Path(Items, Chips, Chip, s, f[a], f[b])
  BY <1>2, <1>5, PathMap, Zenon DEF Runs
<1>7. QED
  BY <1>3, <1>4, <1>6, Zenon DEF Runs

-------------------------------------------------------------------------------
(* Commands one by one.                                                    *)

(* A command is known by what it does to the parts of the state.           *)
LEMMA RunsOne ==
  ASSUME NEW cmd \in Seq(Items), NEW c \in Chips, NEW d \in Chips, Moves(cmd, c, d)
  PROVE  Runs(cmd, c, d)
<1>1. <<cmd, c, d>> \in Chip
  BY DEF Chip
<1>2. QED
  BY <1>1, PathOne DEF Runs

(* The bytes of commands are bytes.                                        *)
LEMMA CommandBytes ==
  /\ \A p \in Pinouts, dir \in Int : <<SET_LOW_BYTE_DATA_BITS, p, dir>> \in Seq(Items)
  /\ \A n, m, k \in Int : <<k, n, m>> \in Seq(Items) /\ <<k, n>> \in Seq(Items) /\ <<k>> \in Seq(Items)
  /\ \A s \in Seq(Int) : s \in Seq(Items)
<1>1. Int \subseteq Items /\ Pinouts \subseteq Items
  BY DEF Items
<1>2. \A s \in Seq(Int) : s \in Seq(Items)
  BY <1>1, SeqMonotonic
<1>3. \A x, y, z \in Items : <<x, y, z>> \in Seq(Items) /\ <<x, y>> \in Seq(Items) /\ <<x>> \in Seq(Items)
  OBVIOUS
<1>4. SET_LOW_BYTE_DATA_BITS \in Int
  BY DEF SET_LOW_BYTE_DATA_BITS
<1> HIDE DEF Items, Pinouts
<1>5. QED
  BY <1>1, <1>2, <1>3, <1>4

(* The chip select goes down: a new access.                                *)
LEMMA SelectRuns ==
  ASSUME NEW p \in Pinouts, NEW r \in Pinouts, r.lines = p.lines, ~r.high,
         NEW q \in Seq(Accesses), NEW l \in Nat
  PROVE  Runs(<<SET_LOW_BYTE_DATA_BITS, r, AccessPins>>, State(p, <<>>, 0, q, l), State(r, <<>>, 0, q, l))
<1> DEFINE c == State(p, <<>>, 0, q, l)
           d == State(r, <<>>, 0, q, l)
<1>1. <<>> \in Seq(Int) /\ 0 \in Nat
  BY EmptySeq
<1>2. c \in Chips /\ c.pins = p /\ c.out = <<>> /\ c.in = 0 /\ c.accs = q /\ c.left = l
  BY <1>1 DEF State, Chips
<1>3. d \in Chips /\ d.pins = r /\ d.out = <<>> /\ d.in = 0 /\ d.accs = q /\ d.left = l
  BY <1>1 DEF State, Chips
<1> HIDE DEF c, d
<1>4. SetsPins(<<SET_LOW_BYTE_DATA_BITS, r, AccessPins>>, c, d)
  BY <1>2, <1>3, Zenon DEF SetsPins
<1>5. <<SET_LOW_BYTE_DATA_BITS, r, AccessPins>> \in Seq(Items)
  BY CommandBytes DEF AccessPins
<1>6. QED
  BY <1>2, <1>3, <1>4, <1>5, RunsOne DEF Moves, c, d

(* The chip select rises: the access is the first of those to come.        *)
LEMMA DeselectRuns ==
  ASSUME NEW p \in Pinouts, NEW r \in Pinouts, r.lines = p.lines, ~p.high, r.high,
         NEW o \in Seq(Int), o # <<>>, NEW i \in Nat, NEW a \in Accesses, DecodedFrom(o, i) = a
  PROVE  Runs(<<SET_LOW_BYTE_DATA_BITS, r, AccessPins>>, State(p, o, i, <<a>>, 0), AtRest(r))
<1> DEFINE c == State(p, o, i, <<a>>, 0)
           d == State(r, <<>>, 0, <<>>, 0)
<1>1. <<>> \in Seq(Int) /\ 0 \in Nat /\ <<a>> \in Seq(Accesses) /\ <<>> \in Seq(Accesses)
  BY EmptySeq
<1>2. c \in Chips /\ c.pins = p /\ c.out = o /\ c.in = i /\ c.accs = <<a>> /\ c.left = 0
  BY <1>1 DEF State, Chips
<1>3. d \in Chips /\ d.pins = r /\ d.out = <<>> /\ d.in = 0 /\ d.accs = <<>> /\ d.left = 0
  BY <1>1 DEF State, Chips
<1>4. <<a>> # <<>> /\ Head(<<a>>) = a /\ Tail(<<a>>) = <<>>
  OBVIOUS
<1> HIDE DEF c, d
<1>5. c.accs # <<>> /\ DecodedFrom(c.out, c.in) = Head(c.accs) /\ d.accs = Tail(c.accs)
  BY <1>2, <1>3, <1>4, Zenon
<1>6. SetsPins(<<SET_LOW_BYTE_DATA_BITS, r, AccessPins>>, c, d)
  BY <1>2, <1>3, <1>5, Zenon DEF SetsPins
<1>7. <<SET_LOW_BYTE_DATA_BITS, r, AccessPins>> \in Seq(Items)
  BY CommandBytes DEF AccessPins
<1>8. QED
  BY <1>2, <1>3, <1>6, <1>7, RunsOne DEF Moves, c, d, AtRest

(* Bytes and bits of an access go out.                                     *)
LEMMA OutRuns ==
  ASSUME NEW p \in Pinouts, ~p.high, NEW o \in Seq(Int), NEW q \in Seq(Accesses), NEW l \in Nat
  PROVE  /\ \A n, m \in Octets, s \in Seq(Int) :
              Len(s) = Length(n, m) =>
                Runs(<<CLK_DATA_BYTES_OUT, n, m>> \o s, State(p, o, 0, q, l), State(p, o \o s, 0, q, l))
         /\ \A b \in Int :
              Runs(<<CLK_DATA_BITS_OUT, 7, b>>, State(p, o, 0, q, l), State(p, o \o <<b>>, 0, q, l))
<1> DEFINE c == State(p, o, 0, q, l)
<1>1. c \in Chips /\ c.pins = p /\ c.out = o /\ c.in = 0 /\ c.accs = q /\ c.left = l
  BY StateParts
<1> HIDE DEF c
<1>2. ASSUME NEW n \in Octets, NEW m \in Octets, NEW s \in Seq(Int), Len(s) = Length(n, m)
      PROVE  Runs(<<CLK_DATA_BYTES_OUT, n, m>> \o s, c, State(p, o \o s, 0, q, l))
  <2> DEFINE d == State(p, o \o s, 0, q, l)
  <2>1. o \o s \in Seq(Int)
    BY ConcatProperties
  <2>2. d \in Chips /\ d.pins = p /\ d.out = o \o s /\ d.in = 0 /\ d.accs = q /\ d.left = l
    BY <2>1 DEF State, Chips
  <2> HIDE DEF d
  <2>3. BytesOut(<<CLK_DATA_BYTES_OUT, n, m>> \o s, c, d)
    BY <1>1, <1>2, <2>2, Zenon DEF BytesOut
  <2>4. <<CLK_DATA_BYTES_OUT, n, m>> \o s \in Seq(Items)
    BY CommandBytes, ConcatProperties DEF CLK_DATA_BYTES_OUT, Octets
  <2>5. QED
    BY <1>1, <2>2, <2>3, <2>4, RunsOne DEF Moves, d
<1>3. ASSUME NEW b \in Int
      PROVE  Runs(<<CLK_DATA_BITS_OUT, 7, b>>, c, State(p, o \o <<b>>, 0, q, l))
  <2> DEFINE d == State(p, o \o <<b>>, 0, q, l)
  <2>1. o \o <<b>> \in Seq(Int)
    BY ConcatProperties
  <2>2. d \in Chips /\ d.pins = p /\ d.out = o \o <<b>> /\ d.in = 0 /\ d.accs = q /\ d.left = l
    BY <2>1 DEF State, Chips
  <2> HIDE DEF d
  <2>3. BitsOut(<<CLK_DATA_BITS_OUT, 7, b>>, c, d)
    BY <1>1, <2>2, Zenon DEF BitsOut
  <2>4. <<CLK_DATA_BITS_OUT, 7, b>> \in Seq(Items)
    BY CommandBytes DEF CLK_DATA_BITS_OUT
  <2>5. QED
    BY <1>1, <2>2, <2>3, <2>4, RunsOne DEF Moves, d
<1>4. QED
  BY <1>2, <1>3 DEF c

(* The bytes of a reply come in; the last one comes bit by bit.            *)
LEMMA InRuns ==
  ASSUME NEW p \in Pinouts, NEW o \in Seq(Int), NEW q \in Seq(Accesses), NEW i \in Nat, NEW l \in Nat
  PROVE  /\ \A n \in Octets :
              Runs(<<CLK_DATA_BYTES_IN, n, 0>>, State(p, o, i, q, l + n + 1), State(p, o, i + n + 1, q, l))
         /\ Runs(<<CLK_DATA_BITS_IN, 7>>, State(p, o, i, q, l + 1), State(p, o, i + 1, q, l))
<1>1. ASSUME NEW n \in Octets
      PROVE  Runs(<<CLK_DATA_BYTES_IN, n, 0>>, State(p, o, i, q, l + n + 1), State(p, o, i + n + 1, q, l))
  <2> DEFINE c == State(p, o, i, q, l + n + 1)
             d == State(p, o, i + n + 1, q, l)
  <2>1. l + n + 1 \in Nat /\ i + n + 1 \in Nat
    BY DEF Octets
  <2>2. c \in Chips /\ c.pins = p /\ c.out = o /\ c.in = i /\ c.accs = q /\ c.left = l + n + 1
    BY <2>1 DEF State, Chips
  <2>3. d \in Chips /\ d.pins = p /\ d.out = o /\ d.in = i + n + 1 /\ d.accs = q /\ d.left = l
    BY <2>1 DEF State, Chips
  <2> HIDE DEF c, d
  <2>4. Length(n, 0) = n + 1 /\ 0 \in Octets
    BY DEF Length, Octets
  <2>5. d.in = c.in + Length(n, 0) /\ c.left = d.left + Length(n, 0)
    <3>1. i + n + 1 = i + (n + 1) /\ l + n + 1 = l + (n + 1)
      BY DEF Octets
    <3>2. QED
      BY <2>2, <2>3, <2>4, <3>1, Zenon
  <2>6. BytesIn(<<CLK_DATA_BYTES_IN, n, 0>>, c, d)
    BY <2>2, <2>3, <2>4, <2>5, Zenon DEF BytesIn
  <2>7. <<CLK_DATA_BYTES_IN, n, 0>> \in Seq(Items)
    BY CommandBytes DEF CLK_DATA_BYTES_IN, Octets
  <2>8. QED
    BY <2>2, <2>3, <2>6, <2>7, RunsOne DEF Moves, c, d
<1>2. Runs(<<CLK_DATA_BITS_IN, 7>>, State(p, o, i, q, l + 1), State(p, o, i + 1, q, l))
  <2> DEFINE c == State(p, o, i, q, l + 1)
             d == State(p, o, i + 1, q, l)
  <2>1. l + 1 \in Nat /\ i + 1 \in Nat
    OBVIOUS
  <2>2. c \in Chips /\ c.pins = p /\ c.out = o /\ c.in = i /\ c.accs = q /\ c.left = l + 1
    BY <2>1 DEF State, Chips
  <2>3. d \in Chips /\ d.pins = p /\ d.out = o /\ d.in = i + 1 /\ d.accs = q /\ d.left = l
    BY <2>1 DEF State, Chips
  <2> HIDE DEF c, d
  <2>4. BitsIn(<<CLK_DATA_BITS_IN, 7>>, c, d)
    BY <2>2, <2>3 DEF BitsIn
  <2>5. <<CLK_DATA_BITS_IN, 7>> \in Seq(Items)
    BY CommandBytes DEF CLK_DATA_BITS_IN
  <2>6. QED
    BY <2>2, <2>3, <2>4, <2>5, RunsOne DEF Moves, c, d
<1>3. QED
  BY <1>1, <1>2

(* A byte that makes the answer come at once changes nothing, and so do    *)
(* bytes that go out while nothing is selected.                            *)
LEMMA FastRuns ==
  ASSUME NEW p \in Pinouts
  PROVE  Runs(<<SEND_IMMEDIATE>>, AtRest(p), AtRest(p))
<1> DEFINE c == AtRest(p)
<1>1. <<>> \in Seq(Int) /\ 0 \in Nat /\ <<>> \in Seq(Accesses)
  BY EmptySeq
<1>2. c \in Chips
  BY <1>1 DEF AtRest, State, Chips
<1> HIDE DEF c
<1>3. Immediate(<<SEND_IMMEDIATE>>, c, c)
  BY DEF Immediate
<1>4. <<SEND_IMMEDIATE>> \in Seq(Items)
  BY CommandBytes DEF SEND_IMMEDIATE
<1>5. QED
  BY <1>2, <1>3, <1>4, RunsOne DEF Moves, c

(* A delay, whatever its length, leaves the pins as they are.              *)
LEMMA DelayRuns ==
  ASSUME NEW p \in Pinouts, p.high, NEW n \in Nat, n <= 256 * 256
  PROVE  /\ Runs(DelayFrame(n), AtRest(p), AtRest(p))
         /\ Len(DelayFrame(n)) = IF n = 0 THEN 0 ELSE 3 + n
<1> DEFINE c == AtRest(p)
<1>1. <<>> \in Seq(Int) /\ 0 \in Nat /\ <<>> \in Seq(Accesses)
  BY EmptySeq
<1>2. c \in Chips /\ c.pins = p
  BY <1>1 DEF AtRest, State, Chips
<1> HIDE DEF c
<1>3. CASE n = 0
  <2>1. DelayFrame(n) = <<>>
    BY <1>3 DEF DelayFrame
  <2>2. QED
    BY <1>2, <1>3, <2>1, PathNil, EmptySeq DEF Runs, c
<1>4. CASE n # 0
  <2> DEFINE x == (n - 1) % 256
             y == ((n - 1) \div 256) % 256
             s == [k \in 1 .. n |-> 0]
  <2>1. DelayFrame(n) = <<CLK_DATA_BYTES_OUT, x, y>> \o s
    BY <1>4, Zenon DEF DelayFrame
  <2>2. s \in Seq(Int) /\ Len(s) = n
    <3>1. n \in Nat
      OBVIOUS
    <3> HIDE DEF x, y
    <3>2. QED
      BY <3>1
  <2> HIDE DEF s
  <2>3. x \in Octets /\ y \in Octets /\ Length(x, y) = n
    <3> DEFINE k == n - 1
               g == k \div 256
    <3>1. k \in Nat /\ k < 256 * 256
      BY <1>4
    <3>2. x = k % 256 /\ y = g % 256
      OBVIOUS
    <3> HIDE DEF k, x, y
    <3>3. g \in 0 .. 255 /\ k % 256 \in 0 .. 255 /\ k = 256 * g + (k % 256)
      BY <3>1
    <3> HIDE DEF g
    <3>4. g % 256 = g
      BY <3>3
    <3>5. (x + 256 * y) + 1 = n
      BY <3>1, <3>2, <3>3, <3>4 DEF k
    <3>6. x \in Octets /\ y \in Octets
      BY <3>2, <3>3, <3>4 DEF Octets
    <3>7. Length(x, y) = n
      BY <3>5 DEF Length
    <3>8. QED
      BY <3>6, <3>7
  <2> HIDE DEF x, y
  <2>4. BytesOut(<<CLK_DATA_BYTES_OUT, x, y>> \o s, c, c)
    BY <1>2, <2>2, <2>3, Zenon DEF BytesOut
  <2>5. <<CLK_DATA_BYTES_OUT, x, y>> \in Seq(Items) /\ s \in Seq(Items)
    BY <2>2, <2>3, CommandBytes DEF CLK_DATA_BYTES_OUT, Octets
  <2>6. <<CLK_DATA_BYTES_OUT, x, y>> \o s \in Seq(Items)
        /\ Len(<<CLK_DATA_BYTES_OUT, x, y>> \o s) = 3 + n
    BY <2>2, <2>5, ConcatProperties
  <2>7. Runs(<<CLK_DATA_BYTES_OUT, x, y>> \o s, c, c)
    BY <1>2, <2>4, <2>6, RunsOne DEF Moves
  <2>8. QED
    BY <1>4, <2>1, <2>6, <2>7 DEF c
<1>5. QED
  BY <1>3, <1>4

-------------------------------------------------------------------------------
(* Accesses.                                                               *)

(* The length of bytes in a row.                                           *)
LEMMA RowOf ==
  /\ \A s, t \in Seq(Items) : s \o t \in Seq(Items) /\ Len(s \o t) = Len(s) + Len(t)
  /\ \A s, t \in Seq(Int) : s \o t \in Seq(Int) /\ Len(s \o t) = Len(s) + Len(t)
  /\ \A S : \A n \in Nat : \A s \in [1 .. n -> S] : s \in Seq(S) /\ Len(s) = n
<1>1. \A S : \A s, t \in Seq(S) : s \o t \in Seq(S) /\ Len(s \o t) = Len(s) + Len(t)
  BY ConcatProperties
<1>2. ASSUME NEW S, NEW n \in Nat, NEW s \in [1 .. n -> S]
      PROVE  s \in Seq(S) /\ Len(s) = n
  <2>1. s \in Seq(S)
    BY SeqDef
  <2>2. DOMAIN s = 1 .. n /\ DOMAIN s = 1 .. Len(s) /\ Len(s) \in Nat
    BY <2>1, LenProperties
  <2> DEFINE k == Len(s)
  <2> HIDE DEF k
  <2>3. 1 .. n = 1 .. k /\ k \in Nat
    BY <2>2 DEF k
  <2>4. k = n
    <3>1. n \in 1 .. k \/ n = 0
      BY <2>3
    <3>2. k \in 1 .. n \/ k = 0
      BY <2>3
    <3>3. QED
      BY <2>3, <3>1, <3>2
  <2>5. QED
    BY <2>1, <2>4 DEF k
<1>3. QED
  BY <1>1, <1>2, Zenon

(* A whole and four more bytes, cut as AddWriteOutBuffer cuts them.        *)
LEMMA WriteBits ==
  ASSUME NEW h \in 0 .. 255, NEW d \in [1 .. 4 -> 0 .. 255]
  PROVE  LET x == <<h>> \o d
             s == SubSeq(x, 1, 4) IN
         /\ x \in Seq(Int) /\ Len(x) = 5 /\ x[1] = h /\ Tail(x) = d /\ x # <<>>
         /\ s \in Seq(Int) /\ Len(s) = 4 /\ x[5] \in Int /\ s \o <<x[5]>> = x
         /\ AddWriteOutBuffer(40, x) =
              (<<CLK_DATA_BYTES_OUT, 3, 0>> \o s) \o <<CLK_DATA_BITS_OUT, 7, x[5]>>
<1> DEFINE g == <<h>>
           x == g \o d
           s == SubSeq(x, 1, 4)
           u == Tail(x)
<1>1. d \in Seq(Int) /\ Len(d) = 4 /\ g \in Seq(Int) /\ Len(g) = 1 /\ g[1] = h
  <2>1. d \in [1 .. 4 -> Int]
    OBVIOUS
  <2>2. d \in Seq(Int) /\ Len(d) = 4
    <3> DEFINE n == 4
    <3>1. n \in Nat /\ d \in [1 .. n -> Int]
      BY <2>1
    <3> HIDE DEF n
    <3>2. d \in Seq(Int) /\ Len(d) = n
      BY <3>1, RowOf
    <3>3. QED
      BY <3>2 DEF n
  <2>3. <<h>> \in Seq(Int) /\ Len(<<h>>) = 1 /\ <<h>>[1] = h
    OBVIOUS
  <2>4. QED
    BY <2>2, <2>3
<1> HIDE DEF g
<1>2. /\ x \in Seq(Int) /\ Len(x) = Len(g) + Len(d)
      /\ \A i \in 1 .. Len(g) + Len(d) : x[i] = IF i <= Len(g) THEN g[i] ELSE d[i - Len(g)]
  <2>1. g \in Seq(Int) /\ d \in Seq(Int)
    BY <1>1
  <2>2. QED
    BY <2>1, ConcatProperties
<1> HIDE DEF x
<1>3. Len(x) = 5 /\ x[1] = h /\ \A i \in 1 .. 4 : x[i + 1] = d[i]
  BY <1>1, <1>2
<1>4. x # <<>>
  <2>1. Len(<<>>) = 0
    BY EmptySeq
  <2>2. Len(x) # 0
    BY <1>3
  <2>3. QED
    BY <2>1, <2>2, Zenon
<1>5. u = d
  <2>1. u \in Seq(Int) /\ Len(u) = Len(x) - 1 /\ \A i \in 1 .. Len(u) : u[i] = x[i + 1]
    BY <1>2, <1>4, HeadTailProperties, Zenon
  <2> HIDE DEF u
  <2>2. Len(u) = Len(d) /\ \A i \in 1 .. Len(u) : u[i] = d[i]
    BY <1>1, <1>3, <2>1
  <2>3. QED
    BY <1>1, <2>1, <2>2, SeqEqual, Zenon
<1>6. s \in Seq(Int) /\ Len(s) = 4 /\ x[5] \in Int
  <2>1. \A i \in 1 .. 5 : x[i] \in Int
    BY <1>2, <1>3, ElementOfSeq
  <2>2. 1 \in Int /\ 4 \in Int /\ \A i \in 1 .. 4 : x[i] \in Int
    BY <2>1
  <2>3. s \in Seq(Int) /\ Len(s) = IF 1 <= 4 THEN 4 - 1 + 1 ELSE 0
    BY <2>2, SubSeqProperties
  <2> HIDE DEF s
  <2>4. QED
    BY <2>1, <2>3
<1>7. s \o <<x[5]>> = x
  <2>1. SubSeq(x, 1, 5) = x
    BY <1>2, <1>3, SubSeqFull
  <2>2. SubSeq(x, 1, 5) = SubSeq(x, 1, 5 - 1) \o <<x[5]>>
    <3>1. 1 \in 1 .. Len(x) /\ 5 \in 1 .. Len(x) /\ 5 \in 1 .. Len(x)
      BY <1>3
    <3>2. QED
      BY <1>2, <3>1, SubSeqRecursiveSecond, Zenon
  <2>3. QED
    BY <2>1, <2>2
<1>8. AddWriteOutBuffer(40, x) =
        (<<CLK_DATA_BYTES_OUT, 3, 0>> \o s) \o <<CLK_DATA_BITS_OUT, 7, x[5]>>
  <2>1. (40 - 1) \div 8 = 4 /\ (40 - 1) % 8 = 7 /\ (4 - 1) % 256 = 3 /\ ((4 - 1) \div 256) % 256 = 0
    OBVIOUS
  <2>2. 40 > 1 /\ 4 # 0 /\ 7 # 0 /\ 4 + 1 = 5
    OBVIOUS
  <2>3. QED
    BY <2>1, <2>2 DEF AddWriteOutBuffer
<1>9. QED
  BY <1>2, <1>3, <1>4, <1>5, <1>6, <1>7, <1>8, Zenon DEF x, g

(* The header of a read, which goes out before the reply is asked for.      *)
LEMMA ReadBits ==
  ASSUME NEW h \in 0 .. 255
  PROVE  AddWriteOutBuffer(16, <<h, 255>>) =
           (<<CLK_DATA_BYTES_OUT, 0, 0>> \o <<h>>) \o <<CLK_DATA_BITS_OUT, 7, 255>>
<1>1. (16 - 1) \div 8 = 1 /\ (16 - 1) % 8 = 7 /\ (1 - 1) % 256 = 0 /\ ((1 - 1) \div 256) % 256 = 0
  OBVIOUS
<1>2. 16 > 1 /\ 1 # 0 /\ 7 # 0 /\ 1 + 1 = 2
  OBVIOUS
<1>3. SubSeq(<<h, 255>>, 1, 1) = <<h>> /\ <<h, 255>>[2] = 255
  <2> DEFINE x == <<h, 255>>
             y == SubSeq(x, 1, 1)
             z == <<h>>
  <2>1. x[1] = h /\ x[2] = 255
    OBVIOUS
  <2>2. z \in Seq(Int) /\ Len(z) = 1 /\ z[1] = h
    OBVIOUS
  <2> HIDE DEF x, z
  <2>3. 1 \in Int /\ \A i \in 1 .. 1 : x[i] \in Int
    BY <2>1
  <2>4. /\ y \in Seq(Int) /\ Len(y) = IF 1 <= 1 THEN 1 - 1 + 1 ELSE 0
        /\ \A i \in 1 .. 1 - 1 + 1 : y[i] = x[1 + i - 1]
    BY <2>3, SubSeqProperties
  <2> HIDE DEF y
  <2>5. Len(y) = Len(z) /\ \A i \in 1 .. Len(y) : y[i] = z[i]
    BY <2>1, <2>2, <2>4
  <2>6. y = z
    BY <2>2, <2>4, <2>5, SeqEqual, Zenon
  <2>7. QED
    BY <2>1, <2>6 DEF x, y, z
<1>4. QED
  BY <1>1, <1>2, <1>3 DEF AddWriteOutBuffer

(* The commands that ask for the reply of a read, of each length.          *)
LEMMA ReplyBits ==
  /\ AddReadOutBuffer(8 * 1) = <<>> \o <<CLK_DATA_BITS_IN, 7>>
  /\ AddReadOutBuffer(8 * 2) = <<CLK_DATA_BYTES_IN, 0, 0>> \o <<CLK_DATA_BITS_IN, 7>>
  /\ AddReadOutBuffer(8 * 4) = <<CLK_DATA_BYTES_IN, 2, 0>> \o <<CLK_DATA_BITS_IN, 7>>
<1>1. AddReadOutBuffer(8 * 1) = <<>> \o <<CLK_DATA_BITS_IN, 7>>
  BY DEF AddReadOutBuffer
<1>2. AddReadOutBuffer(8 * 2) = <<CLK_DATA_BYTES_IN, 0, 0>> \o <<CLK_DATA_BITS_IN, 7>>
  <2>1. (8 * 2 - 1) \div 8 = 1 /\ (8 * 2 - 1) % 8 = 7 /\ (1 - 1) % 256 = 0
        /\ ((1 - 1) \div 256) % 256 = 0
    OBVIOUS
  <2>2. QED
    BY <2>1 DEF AddReadOutBuffer
<1>3. AddReadOutBuffer(8 * 4) = <<CLK_DATA_BYTES_IN, 2, 0>> \o <<CLK_DATA_BITS_IN, 7>>
  <2>1. (8 * 4 - 1) \div 8 = 3 /\ (8 * 4 - 1) % 8 = 7 /\ (3 - 1) % 256 = 2
        /\ ((3 - 1) \div 256) % 256 = 0
    OBVIOUS
  <2>2. QED
    BY <2>1 DEF AddReadOutBuffer
<1>4. QED
  BY <1>1, <1>2, <1>3

(* What is being selected.                                                 *)
LEMMA SelectIs ==
  ASSUME dwLowPinsValue \in Pinouts, NEW high \in BOOLEAN
  PROVE  /\ Pulled(high) \in Pinouts /\ Pulled(high).high = high
         /\ Pulled(high).lines = dwLowPinsValue.lines
         /\ Select(high) = <<SET_LOW_BYTE_DATA_BITS, Pulled(high), AccessPins>>
         /\ Select(high) \in Seq(Items) /\ Len(Select(high)) = 3
<1>1. Pulled(high) \in Pinouts /\ Pulled(high).high = high
      /\ Pulled(high).lines = dwLowPinsValue.lines
  BY DEF Pulled, Pinouts
<1>2. Select(high) = <<SET_LOW_BYTE_DATA_BITS, Pulled(high), AccessPins>>
  BY DEF Select, Pulled
<1>3. QED
  BY <1>1, <1>2, CommandBytes DEF AccessPins

(* Two bytes in a row.                                                     *)
LEMMA PairIs == ASSUME NEW k \in Int, NEW n \in Int PROVE <<k>> \o <<n>> = <<k, n>>
<1> DEFINE y == <<k>>
           z == <<n>>
           t == <<k, n>>
           c == y \o z
<1>1. y \in Seq(Int) /\ Len(y) = 1 /\ y[1] = k /\ z \in Seq(Int) /\ Len(z) = 1 /\ z[1] = n
  OBVIOUS
<1>2. t \in Seq(Int) /\ Len(t) = 2 /\ t[1] = k /\ t[2] = n
  OBVIOUS
<1> HIDE DEF y, z, t
<1>3. /\ c \in Seq(Int) /\ Len(c) = Len(y) + Len(z)
      /\ \A i \in 1 .. Len(y) + Len(z) : c[i] = IF i <= Len(y) THEN y[i] ELSE z[i - Len(y)]
  BY <1>1, ConcatProperties, Zenon
<1> HIDE DEF c
<1>4. Len(c) = Len(t) /\ \A i \in 1 .. Len(c) : c[i] = t[i]
  BY <1>1, <1>2, <1>3
<1>5. c = t
  BY <1>2, <1>3, <1>4, SeqEqual, Zenon
<1>6. QED
  BY <1>5 DEF c, y, z, t

(* What is in an access.                                                   *)
LEMMA AccessParts ==
  ASSUME NEW r \in Regs
  PROVE  /\ \A d \in Data :
              /\ Write(r, d) \in Accesses
              /\ Write(r, d).in = 0 /\ Write(r, d).reg = r /\ Write(r, d).data = d
         /\ \A n \in {1, 2, 4} :
              /\ Read(r, n) \in Accesses
              /\ Read(r, n).in = n /\ Read(r, n).reg = r /\ Read(r, n).data = <<>>
<1>1. \A d \in Data : Write(r, d) \in Accesses
  BY DEF Accesses, Write
<1>2. \A n \in {1, 2, 4} : Read(r, n) \in Accesses
  BY DEF Accesses, Read
<1>3. \A d : Write(r, d).in = 0 /\ Write(r, d).reg = r /\ Write(r, d).data = d
  BY DEF Write
<1>4. \A n : Read(r, n).in = n /\ Read(r, n).reg = r /\ Read(r, n).data = <<>>
  BY DEF Read
<1>5. QED
  BY <1>1, <1>2, <1>3, <1>4, Zenon

(* The frame of an access makes the controller see that access, with all   *)
(* its bytes, and leaves the chip at rest with its lines as they were.     *)
LEMMA WriteRuns ==
  ASSUME NEW p \in Pinouts, dwLowPinsValue \in Pinouts, p.lines = dwLowPinsValue.lines,
         NEW r \in Regs, NEW d \in Data
  PROVE  /\ Frame(Write(r, d)) \in Seq(Items) /\ Len(Frame(Write(r, d))) = 16
         /\ Runs(Frame(Write(r, d)), State(p, <<>>, 0, <<Write(r, d)>>, 0), AtRest(Pulled(TRUE)))
<1> DEFINE a == Write(r, d)
           h == ((4 * r) % 256) + 2
           x == <<h>> \o d
           s == SubSeq(x, 1, 4)
           lo == Pulled(FALSE)
           hi == Pulled(TRUE)
           b1 == <<CLK_DATA_BYTES_OUT, 3, 0>> \o s
           b2 == <<CLK_DATA_BITS_OUT, 7, x[5]>>
<1>1. a \in Accesses /\ a.in = 0 /\ a.reg = r /\ a.data = d
  BY AccessParts, Zenon
<1>2. h \in 0 .. 255 /\ h % 4 = 2 /\ h \div 4 = r /\ d \in [1 .. 4 -> 0 .. 255]
  BY DEF Regs, Data, Octets
<1>3. /\ x \in Seq(Int) /\ Len(x) = 5 /\ x[1] = h /\ Tail(x) = d /\ x # <<>>
      /\ s \in Seq(Int) /\ Len(s) = 4 /\ x[5] \in Int /\ s \o <<x[5]>> = x
      /\ AddWriteOutBuffer(40, x) = b1 \o b2
  <2> HIDE DEF h
  <2>1. QED
    BY <1>2, WriteBits
<1>4. Frame(a) = (Select(FALSE) \o (b1 \o b2)) \o Select(TRUE)
  <2>1. Frame(a) = (Select(FALSE) \o AddWriteOutBuffer(40, x)) \o Select(TRUE)
    <3> HIDE DEF a
    <3>1. QED
      BY <1>1 DEF Frame
  <2> HIDE DEF a, x, b1, b2
  <2>2. QED
    BY <2>1, <1>3
<1>5. /\ lo \in Pinouts /\ ~lo.high /\ lo.lines = dwLowPinsValue.lines
      /\ hi \in Pinouts /\ hi.high /\ hi.lines = dwLowPinsValue.lines
  BY SelectIs
<1>6. /\ Select(FALSE) = <<SET_LOW_BYTE_DATA_BITS, lo, AccessPins>>
      /\ Select(TRUE) = <<SET_LOW_BYTE_DATA_BITS, hi, AccessPins>>
      /\ Select(FALSE) \in Seq(Items) /\ Len(Select(FALSE)) = 3
      /\ Select(TRUE) \in Seq(Items) /\ Len(Select(TRUE)) = 3
  BY SelectIs
<1>7. DecodedFrom(x, 0) = a
  <2> HIDE DEF x, h
  <2>1. x[1] % 4 = 2 /\ x[1] \div 4 = r /\ Tail(x) = d
    BY <1>2, <1>3
  <2>2. QED
    BY <2>1 DEF DecodedFrom, Write
<1> HIDE DEF a, h, x, s, lo, hi
<1>8. <<a>> \in Seq(Accesses) /\ <<>> \in Seq(Int) /\ <<>> \o s = s /\ 0 \in Nat
  BY <1>1, <1>3, EmptySeq, ConcatEmptySeq
<1>9. Runs(Select(FALSE), State(p, <<>>, 0, <<a>>, 0), State(lo, <<>>, 0, <<a>>, 0))
  BY <1>5, <1>6, <1>8, SelectRuns
<1>10. Runs(b1, State(lo, <<>>, 0, <<a>>, 0), State(lo, s, 0, <<a>>, 0))
  <2>1. Length(3, 0) = 4 /\ 3 \in Octets /\ 0 \in Octets
    BY DEF Length, Octets
  <2>2. Runs(b1, State(lo, <<>>, 0, <<a>>, 0), State(lo, <<>> \o s, 0, <<a>>, 0))
    BY <1>3, <1>5, <1>8, <2>1, OutRuns, Zenon
  <2>3. QED
    BY <2>2, <1>8, Zenon
<1>11. Runs(b2, State(lo, s, 0, <<a>>, 0), State(lo, x, 0, <<a>>, 0))
  <2>1. Runs(b2, State(lo, s, 0, <<a>>, 0), State(lo, s \o <<x[5]>>, 0, <<a>>, 0))
    BY <1>3, <1>5, <1>8, OutRuns, Zenon
  <2>2. QED
    BY <2>1, <1>3, Zenon
<1>12. Runs(Select(TRUE), State(lo, x, 0, <<a>>, 0), AtRest(hi))
  BY <1>1, <1>3, <1>5, <1>6, <1>7, <1>8, DeselectRuns, Zenon
<1>13. Runs(b1 \o b2, State(lo, <<>>, 0, <<a>>, 0), State(lo, x, 0, <<a>>, 0))
  BY <1>10, <1>11, PathConcat, Zenon DEF Runs
<1>14. Runs(Select(FALSE) \o (b1 \o b2), State(p, <<>>, 0, <<a>>, 0), State(lo, x, 0, <<a>>, 0))
  BY <1>9, <1>13, PathConcat, Zenon DEF Runs
<1>15. Runs(Frame(a), State(p, <<>>, 0, <<a>>, 0), AtRest(hi))
  BY <1>4, <1>12, <1>14, PathConcat, Zenon DEF Runs
<1>16. Frame(a) \in Seq(Items)
  BY <1>15, PathTyped DEF Runs
<1>17. Len(Frame(a)) = 16
  <2> DEFINE k == <<CLK_DATA_BYTES_OUT, 3, 0>>
  <2>1. k \in Seq(Int) /\ Len(k) = 3 /\ b2 \in Seq(Int) /\ Len(b2) = 3
    BY <1>3 DEF CLK_DATA_BYTES_OUT, CLK_DATA_BITS_OUT
  <2>2. b1 = k \o s
    OBVIOUS
  <2> HIDE DEF k, b1, b2
  <2>3. b1 \in Seq(Int) /\ Len(b1) = Len(k) + Len(s)
    BY <1>3, <2>1, <2>2, RowOf, Zenon
  <2> DEFINE m == b1 \o b2
             f == Select(FALSE) \o m
  <2>4. m \in Seq(Int) /\ Len(m) = Len(b1) + Len(b2)
    BY <2>1, <2>3, RowOf, Zenon
  <2>5. m \in Seq(Items)
    BY <2>4, CommandBytes, Zenon
  <2> HIDE DEF m
  <2>6. f \in Seq(Items) /\ Len(f) = Len(Select(FALSE)) + Len(m)
    BY <1>6, <2>5, RowOf, Zenon
  <2> HIDE DEF f
  <2>7. Len(f \o Select(TRUE)) = Len(f) + Len(Select(TRUE))
    BY <1>6, <2>6, RowOf, Zenon
  <2>8. Frame(a) = f \o Select(TRUE)
    BY <1>4, Zenon DEF f, m
  <2>9. Len(f) + Len(Select(TRUE)) = 16
    <3>1. Len(s) = 4 /\ Len(Select(FALSE)) = 3 /\ Len(Select(TRUE)) = 3
      BY <1>3, <1>6, Zenon
    <3>2. Len(b1) = 7
      BY <2>1, <2>3, <3>1
    <3>3. Len(m) = 10
      BY <2>1, <2>4, <3>2
    <3>4. Len(f) + Len(Select(TRUE)) = (3 + 10) + 3
      BY <2>6, <3>1, <3>3, Zenon
    <3>5. (3 + 10) + 3 = 16
      OBVIOUS
    <3>6. QED
      BY <3>4, <3>5, Zenon
  <2>10. QED
    BY <2>7, <2>8, <2>9, Zenon
<1>18. QED
  BY <1>15, <1>16, <1>17 DEF a, hi

(* A read: its frame is the one access, and asks for all of the reply.     *)
LEMMA ReadRuns ==
  ASSUME NEW p \in Pinouts, dwLowPinsValue \in Pinouts, p.lines = dwLowPinsValue.lines,
         NEW r \in Regs, NEW n \in {1, 2, 4}
  PROVE  /\ Frame(Read(r, n)) \in Seq(Items)
         /\ Len(Frame(Read(r, n))) = IF n = 1 THEN 15 ELSE 18
         /\ Runs(Frame(Read(r, n)), State(p, <<>>, 0, <<Read(r, n)>>, n), AtRest(Pulled(TRUE)))
<1> DEFINE a == Read(r, n)
           h == ((4 * r) % 256) + 1
           ff == 255
           x == <<h, ff>>
           lo == Pulled(FALSE)
           hi == Pulled(TRUE)
           b1 == <<CLK_DATA_BYTES_OUT, 0, 0>> \o <<h>>
           b2 == <<CLK_DATA_BITS_OUT, 7, ff>>
           b3 == IF n = 1 THEN <<>> ELSE <<CLK_DATA_BYTES_IN, n - 2, 0>>
           b4 == <<CLK_DATA_BITS_IN, 7>>
<1>1. a \in Accesses /\ a.in = n /\ a.reg = r /\ a.data = <<>> /\ n # 0
  <2>1. n # 0
    OBVIOUS
  <2>2. QED
    BY <2>1, AccessParts, Zenon
<1>2. h \in 0 .. 255 /\ h % 4 = 1 /\ h \div 4 = r
  BY DEF Regs
<1>3. AddWriteOutBuffer(16, x) = b1 \o b2
  <2> HIDE DEF h
  <2>1. QED
    BY <1>2, ReadBits
<1>4. AddReadOutBuffer(8 * n) = b3 \o b4
  <2>1. CASE n = 1
    BY <2>1, ReplyBits
  <2>2. CASE n = 2
    BY <2>2, ReplyBits
  <2>3. CASE n = 4
    BY <2>3, ReplyBits
  <2>4. QED
    BY <2>1, <2>2, <2>3
<1>5. Frame(a) = (Select(FALSE) \o ((b1 \o b2) \o (b3 \o b4))) \o Select(TRUE)
  <2>1. Frame(a) = (Select(FALSE) \o (AddWriteOutBuffer(16, x) \o AddReadOutBuffer(8 * n)))
                   \o Select(TRUE)
    <3> HIDE DEF a
    <3>1. QED
      BY <1>1 DEF Frame
  <2> HIDE DEF a, x, b1, b2, b3, b4
  <2>2. QED
    BY <2>1, <1>3, <1>4
<1>6. /\ lo \in Pinouts /\ ~lo.high /\ lo.lines = dwLowPinsValue.lines
      /\ hi \in Pinouts /\ hi.high /\ hi.lines = dwLowPinsValue.lines
  BY SelectIs
<1>7. /\ Select(FALSE) = <<SET_LOW_BYTE_DATA_BITS, lo, AccessPins>>
      /\ Select(TRUE) = <<SET_LOW_BYTE_DATA_BITS, hi, AccessPins>>
      /\ Select(FALSE) \in Seq(Items) /\ Len(Select(FALSE)) = 3
      /\ Select(TRUE) \in Seq(Items) /\ Len(Select(TRUE)) = 3
  BY SelectIs
<1>8. /\ x \in Seq(Int) /\ x # <<>> /\ x[1] = h /\ Len(x) = 2
      /\ <<h>> \in Seq(Int) /\ Len(<<h>>) = 1 /\ <<h>> \o <<ff>> = x /\ SubSeq(x, 3, 2) = <<>>
  <2>1. x \in Seq(Int) /\ x # <<>> /\ x[1] = h /\ Len(x) = 2 /\ <<h>> \in Seq(Int) /\ Len(<<h>>) = 1
    <3> HIDE DEF h
    <3>1. QED
      BY <1>2
  <2>2. <<h>> \o <<ff>> = x
    <3>1. h \in Int /\ ff \in Int
      BY <1>2
    <3> HIDE DEF h, ff
    <3>2. QED
      BY <3>1, PairIs
  <2>3. SubSeq(x, 3, 2) = <<>>
    BY SubSeqEmpty
  <2>4. QED
    BY <2>1, <2>2, <2>3
<1>9. DecodedFrom(x, n) = a
  <2> HIDE DEF h, x
  <2>1. x[1] % 4 # 2
    BY <1>2, <1>8
  <2>2. QED
    BY <2>1, <1>2, <1>8 DEF DecodedFrom, Read
<1> DEFINE y == <<h>>
<1> HIDE DEF a, h, x, lo, hi, y, ff
<1>10. <<a>> \in Seq(Accesses) /\ <<>> \in Seq(Int) /\ <<>> \o y = y /\ y \in Seq(Int) /\ Len(y) = 1
       /\ n \in Nat /\ 0 \in Nat /\ 1 \in Nat /\ ff \in Int
  BY <1>1, <1>8, EmptySeq, ConcatEmptySeq DEF y, ff
<1>11. Runs(Select(FALSE), State(p, <<>>, 0, <<a>>, n), State(lo, <<>>, 0, <<a>>, n))
  BY <1>6, <1>7, <1>10, SelectRuns
<1>12. Runs(b1, State(lo, <<>>, 0, <<a>>, n), State(lo, y, 0, <<a>>, n))
  <2>1. Length(0, 0) = 1 /\ 0 \in Octets
    BY DEF Length, Octets
  <2>2. \A m, k \in Octets, s \in Seq(Int) :
          Len(s) = Length(m, k) =>
            Runs(<<CLK_DATA_BYTES_OUT, m, k>> \o s, State(lo, <<>>, 0, <<a>>, n),
                 State(lo, <<>> \o s, 0, <<a>>, n))
    BY <1>6, <1>10, OutRuns, Zenon
  <2>3. Runs(<<CLK_DATA_BYTES_OUT, 0, 0>> \o y, State(lo, <<>>, 0, <<a>>, n),
             State(lo, <<>> \o y, 0, <<a>>, n))
    BY <1>10, <2>1, <2>2, Zenon
  <2>4. QED
    BY <2>3, <1>10, Zenon DEF y
<1>13. Runs(b2, State(lo, y, 0, <<a>>, n), State(lo, x, 0, <<a>>, n))
  <2>1. Runs(b2, State(lo, y, 0, <<a>>, n), State(lo, y \o <<ff>>, 0, <<a>>, n))
    BY <1>6, <1>10, OutRuns, Zenon
  <2>2. QED
    BY <2>1, <1>8, Zenon DEF y
<1>14. Runs(b3, State(lo, x, 0, <<a>>, n), State(lo, x, n - 1, <<a>>, 1))
  <2>1. CASE n = 1
    <3>1. State(lo, x, 0, <<a>>, 1) \in Chips
      BY <1>6, <1>8, <1>10, StateParts, Zenon
    <3>2. Runs(<<>>, State(lo, x, 0, <<a>>, 1), State(lo, x, 0, <<a>>, 1))
      BY <3>1, PathNil DEF Runs
    <3>3. b3 = <<>> /\ n - 1 = 0 /\ n = 1
      BY <2>1
    <3>4. QED
      BY <3>2, <3>3, Zenon
  <2>2. CASE n # 1
    <3>1. n - 2 \in Octets /\ n = 1 + (n - 2) + 1 /\ 0 + (n - 2) + 1 = n - 1
      BY <2>2 DEF Octets
    <3>2. Runs(<<CLK_DATA_BYTES_IN, n - 2, 0>>, State(lo, x, 0, <<a>>, 1 + (n - 2) + 1),
               State(lo, x, 0 + (n - 2) + 1, <<a>>, 1))
      BY <1>6, <1>8, <1>10, <3>1, InRuns, Zenon
    <3>3. b3 = <<CLK_DATA_BYTES_IN, n - 2, 0>>
      BY <2>2
    <3>4. QED
      BY <3>1, <3>2, <3>3, Zenon
  <2>3. QED
    BY <2>1, <2>2
<1>15. Runs(b4, State(lo, x, n - 1, <<a>>, 1), State(lo, x, n, <<a>>, 0))
  <2>1. n - 1 \in Nat /\ 0 \in Nat /\ 0 + 1 = 1 /\ n - 1 + 1 = n
    OBVIOUS
  <2>2. Runs(b4, State(lo, x, n - 1, <<a>>, 0 + 1), State(lo, x, n - 1 + 1, <<a>>, 0))
    BY <1>6, <1>8, <1>10, <2>1, InRuns, Zenon
  <2>3. QED
    BY <2>1, <2>2, Zenon
<1>16. Runs(Select(TRUE), State(lo, x, n, <<a>>, 0), AtRest(hi))
  BY <1>1, <1>6, <1>7, <1>8, <1>9, <1>10, DeselectRuns, Zenon
<1>17. Runs(b1 \o b2, State(lo, <<>>, 0, <<a>>, n), State(lo, x, 0, <<a>>, n))
  BY <1>12, <1>13, PathConcat, Zenon DEF Runs
<1>18. Runs(b3 \o b4, State(lo, x, 0, <<a>>, n), State(lo, x, n, <<a>>, 0))
  BY <1>14, <1>15, PathConcat, Zenon DEF Runs
<1> DEFINE m1 == b1 \o b2
           m2 == b3 \o b4
           m  == m1 \o m2
           f  == Select(FALSE) \o m
<1> HIDE DEF b1, b2, b3, b4, m1, m2, m
<1>19. Runs(m1 \o m2, State(lo, <<>>, 0, <<a>>, n), State(lo, x, n, <<a>>, 0))
  BY <1>17, <1>18, PathConcat, Zenon DEF Runs, m1, m2
<1>20. Runs(Select(FALSE) \o m, State(p, <<>>, 0, <<a>>, n), State(lo, x, n, <<a>>, 0))
  BY <1>11, <1>19, PathConcat, Zenon DEF Runs, m
<1>21. Runs(Frame(a), State(p, <<>>, 0, <<a>>, n), AtRest(hi))
  BY <1>5, <1>16, <1>20, PathConcat, Zenon DEF Runs, m, m1, m2
<1>22. Frame(a) \in Seq(Items)
  BY <1>21, PathTyped DEF Runs
<1>23. Len(Frame(a)) = IF n = 1 THEN 15 ELSE 18
  <2>1. b1 \in Seq(Items) /\ b2 \in Seq(Items) /\ b3 \in Seq(Items) /\ b4 \in Seq(Items)
    BY <1>12, <1>13, <1>14, <1>15, PathTyped, Zenon DEF Runs
  <2>2. Len(b1) = 4
    <3> DEFINE k == <<CLK_DATA_BYTES_OUT, 0, 0>>
    <3>1. k \in Seq(Int) /\ Len(k) = 3
      BY DEF CLK_DATA_BYTES_OUT
    <3> HIDE DEF k
    <3>2. Len(k \o y) = Len(k) + Len(y)
      BY <1>10, <3>1, RowOf, Zenon
    <3>3. b1 = k \o y
      BY Zenon DEF b1, k, y
    <3>4. Len(k) + Len(y) = 4
      BY <1>10, <3>1
    <3>5. QED
      BY <3>2, <3>3, <3>4, Zenon
  <2>3. Len(b2) = 3 /\ Len(b3) = (IF n = 1 THEN 0 ELSE 3) /\ Len(b4) = 2
    BY DEF b2, b3, b4
  <2>4. m1 \in Seq(Items) /\ Len(m1) = Len(b1) + Len(b2)
    BY <2>1, RowOf, Zenon DEF m1
  <2>5. m2 \in Seq(Items) /\ Len(m2) = Len(b3) + Len(b4)
    BY <2>1, RowOf, Zenon DEF m2
  <2>6. m \in Seq(Items) /\ Len(m) = Len(m1) + Len(m2)
    BY <2>4, <2>5, RowOf, Zenon DEF m
  <2>7. f \in Seq(Items) /\ Len(f) = Len(Select(FALSE)) + Len(m)
    BY <1>7, <2>6, RowOf, Zenon
  <2> HIDE DEF f
  <2>8. Len(f \o Select(TRUE)) = Len(f) + Len(Select(TRUE))
    BY <1>7, <2>7, RowOf, Zenon
  <2>9. Frame(a) = f \o Select(TRUE)
    BY <1>5, Zenon DEF m, m1, m2, f
  <2>10. Len(f) + Len(Select(TRUE)) = IF n = 1 THEN 15 ELSE 18
    <3>1. Len(Select(FALSE)) = 3 /\ Len(Select(TRUE)) = 3
      BY <1>7, Zenon
    <3>2. Len(m1) = 7
      BY <2>2, <2>3, <2>4
    <3>3. Len(m2) = IF n = 1 THEN 2 ELSE 5
      BY <2>3, <2>5
    <3>4. Len(m) = IF n = 1 THEN 9 ELSE 12
      BY <2>6, <3>2, <3>3
    <3>5. Len(f) + Len(Select(TRUE)) = (3 + IF n = 1 THEN 9 ELSE 12) + 3
      BY <2>7, <3>1, <3>4, Zenon
    <3>6. (3 + IF n = 1 THEN 9 ELSE 12) + 3 = IF n = 1 THEN 15 ELSE 18
      OBVIOUS
    <3>7. QED
      BY <3>5, <3>6, Zenon
  <2>11. QED
    BY <2>8, <2>9, <2>10, Zenon
<1>24. QED
  BY <1>21, <1>22, <1>23 DEF a, hi

-------------------------------------------------------------------------------
(* Steps.                                                                  *)

(* The frame of any access.                                                *)
LEMMA FrameRuns ==
  ASSUME NEW p \in Pinouts, dwLowPinsValue \in Pinouts, p.lines = dwLowPinsValue.lines,
         NEW a \in Accesses
  PROVE  /\ Frame(a) \in Seq(Items) /\ Len(Frame(a)) = Size(a)
         /\ Runs(Frame(a), State(p, <<>>, 0, <<a>>, a.in), AtRest(Pulled(TRUE)))
<1>1. CASE a \in [reg : Regs, data : Data, in : {0}]
  <2>1. a.reg \in Regs /\ a.data \in Data /\ a.in = 0 /\ a = Write(a.reg, a.data)
    BY <1>1 DEF Write
  <2>2. /\ Frame(Write(a.reg, a.data)) \in Seq(Items) /\ Len(Frame(Write(a.reg, a.data))) = 16
        /\ Runs(Frame(Write(a.reg, a.data)), State(p, <<>>, 0, <<Write(a.reg, a.data)>>, 0),
                AtRest(Pulled(TRUE)))
    BY <2>1, WriteRuns, Zenon
  <2>3. Size(a) = 16
    BY <2>1 DEF Size
  <2>4. QED
    BY <2>1, <2>2, <2>3, Zenon
<1>2. CASE a \in [reg : Regs, data : {<<>>}, in : {1, 2, 4}]
  <2>1. a.reg \in Regs /\ a.in \in {1, 2, 4} /\ a = Read(a.reg, a.in)
    BY <1>2 DEF Read
  <2>2. /\ Frame(Read(a.reg, a.in)) \in Seq(Items)
        /\ Len(Frame(Read(a.reg, a.in))) = IF a.in = 1 THEN 15 ELSE 18
        /\ Runs(Frame(Read(a.reg, a.in)), State(p, <<>>, 0, <<Read(a.reg, a.in)>>, a.in),
                AtRest(Pulled(TRUE)))
    BY <2>1, ReadRuns, Zenon
  <2>3. Size(a) = IF a.in = 1 THEN 15 ELSE 18
    BY <2>1 DEF Size
  <2>4. QED
    BY <2>1, <2>2, <2>3, Zenon
<1>3. QED
  BY <1>1, <1>2 DEF Accesses

(* A step that may be taken.                                               *)
LEMMA DoesOne ==
  ASSUME NEW s \in Ops, NEW n \in Nat, NEW o \in Nat, NEW d \in Nat, NEW b \in Tallies,
         Works(s, n, o, d, b)
  PROVE  Does(<<s>>, <<n, o, d>>, b)
<1> DEFINE a == <<n, o, d>>
<1>1. a \in Tallies /\ a[1] = n /\ a[2] = o /\ a[3] = d
  BY DEF Tallies
<1>2. <<s>> \in Seq(Ops)
  OBVIOUS
<1> DEFINE x == <<<<s>>, a, b>>
<1>3. x \in Seq(Ops) \X Tallies \X Tallies /\ x[1] = <<s>> /\ x[2] = a /\ x[3] = b
  BY <1>1, <1>2
<1> HIDE DEF x, a
<1>4. Works(s, x[2][1], x[2][2], x[2][3], x[3])
  BY <1>1, <1>3, Zenon
<1>5. x \in Work
  BY <1>3, <1>4, Zenon DEF Work
<1>6. QED
  BY <1>1, <1>2, <1>5, PathOne, Zenon DEF Does, x, a

(* The steps that do not stage anything.                                   *)
LEMMA ClearDoes ==
  /\ Does(Clear, Nothing, Nothing)
  /\ \A l \in Lines : Does(Line(l), Nothing, Nothing)
  /\ \A high \in BOOLEAN : Does(CS(high), Nothing, Nothing)
<1>1. Nothing \in Tallies /\ 0 \in Nat
  BY DEF Nothing, Tallies
<1>2. Does(Clear, Nothing, Nothing)
  <2> DEFINE s == [op |-> "clear"]
  <2>1. s \in Ops /\ s.op = "clear"
    BY DEF Ops
  <2> HIDE DEF s
  <2>2. Works(s, 0, 0, 0, Nothing)
    BY <2>1, Zenon DEF Works, Nothing
  <2>3. QED
    BY <1>1, <2>1, <2>2, DoesOne, Zenon DEF Nothing, Clear, s
<1>3. ASSUME NEW l \in Lines PROVE Does(Line(l), Nothing, Nothing)
  <2> DEFINE s == [op |-> "lines", lines |-> l]
  <2>1. s \in Ops /\ s.op = "lines"
    BY DEF Ops
  <2> HIDE DEF s
  <2>2. Works(s, 0, 0, 0, Nothing)
    BY <2>1, Zenon DEF Works, Nothing
  <2>3. QED
    BY <1>1, <2>1, <2>2, DoesOne, Zenon DEF Nothing, Line, s
<1>4. ASSUME NEW high \in BOOLEAN PROVE Does(CS(high), Nothing, Nothing)
  <2> DEFINE s == [op |-> "cs", high |-> high]
  <2>1. s \in Ops /\ s.op = "cs"
    BY DEF Ops
  <2> HIDE DEF s
  <2>2. Works(s, 0, 0, 0, Nothing)
    BY <2>1, Zenon DEF Works, Nothing
  <2>3. QED
    BY <1>1, <2>1, <2>2, DoesOne, Zenon DEF Nothing, CS, s
<1>5. QED
  BY <1>2, <1>3, <1>4

(* Sending leaves nothing staged, and what is due is asked for.            *)
LEMMA SendDoes ==
  ASSUME NEW n \in Nat, NEW o \in Nat, NEW d \in Nat
  PROVE  Does(Send, <<n, o, d>>, <<0, 0, d + o>>)
<1> DEFINE s == [op |-> "send"]
<1>1. s \in Ops /\ s.op = "send"
  BY DEF Ops
<1> HIDE DEF s
<1>2. <<0, 0, d + o>> \in Tallies
  BY DEF Tallies
<1>3. Works(s, n, o, d, <<0, 0, d + o>>)
  BY <1>1, Zenon DEF Works
<1>4. QED
  BY <1>1, <1>2, <1>3, DoesOne, Zenon DEF Send, s

(* A reply takes what is due.                                              *)
LEMMA GetDoes ==
  ASSUME NEW d \in Nat
  PROVE  Does(Get(d), <<0, 0, d>>, Nothing)
<1> DEFINE s == [op |-> "get", n |-> d]
<1>1. s \in Ops /\ s.op = "get" /\ s.n = d
  BY DEF Ops
<1> HIDE DEF s
<1>2. Nothing \in Tallies /\ 0 \in Nat /\ Nothing = <<0, 0, d - d>> /\ d <= d
  BY DEF Tallies, Nothing
<1>3. Works(s, 0, 0, d, Nothing)
  BY <1>1, <1>2, Zenon DEF Works
<1>4. QED
  BY <1>1, <1>2, <1>3, DoesOne, Zenon DEF Get, s

(* A byte more is staged for an answer at once.                            *)
LEMMA FastDoes ==
  ASSUME NEW n \in Nat, NEW o \in Nat, NEW d \in Nat, n > 0, n + 1 <= OUTPUT_BUFFER_SIZE
  PROVE  Does(Fast, <<n, o, d>>, <<n + 1, o, d>>)
<1> DEFINE s == [op |-> "fast"]
<1>1. s \in Ops /\ s.op = "fast"
  BY DEF Ops
<1> HIDE DEF s
<1>2. <<n + 1, o, d>> \in Tallies
  BY DEF Tallies
<1>3. Works(s, n, o, d, <<n + 1, o, d>>)
  BY <1>1, Zenon DEF Works
<1>4. QED
  BY <1>1, <1>2, <1>3, DoesOne, Zenon DEF Fast, s

(* Those that stage an access.                                             *)
LEMMA QueueAdds ==
  ASSUME NEW a \in Accesses
  PROVE  Adds(Queue(a), 0, Size(a), a.in)
<1> DEFINE s == [op |-> "queue", access |-> a]
<1>1. s \in Ops /\ s.op = "queue" /\ s.access = a /\ <<s>> \in Seq(Ops) /\ <<s>> # <<>>
  BY DEF Ops
<1>2. a.in \in Nat /\ Size(a) \in Nat
  BY DEF Accesses, Size
<1> HIDE DEF s
<1>3. ASSUME NEW n \in Nat, NEW o \in Nat, NEW d \in Nat, n + Size(a) <= OUTPUT_BUFFER_SIZE
      PROVE  Does(<<s>>, <<n, o, d>>, <<n + Size(a), o + a.in, d>>)
  <2>1. <<n + Size(a), o + a.in, d>> \in Tallies
    BY <1>2 DEF Tallies
  <2>2. Works(s, n, o, d, <<n + Size(a), o + a.in, d>>)
    BY <1>1, <1>3, Zenon DEF Works
  <2>3. QED
    BY <1>1, <2>1, <2>2, DoesOne, Zenon
<1>4. QED
  BY <1>1, <1>3, Zenon DEF Adds, Queue, s

(* And those that stage a delay.                                           *)
LEMMA DelayAdds ==
  ASSUME NEW k \in Nat, k <= MostClocked
  PROVE  Adds(Delay(k), 1, DelaySize(k), 0)
<1> DEFINE s == [op |-> "delay", n |-> k]
<1>1. s \in Ops /\ s.op = "delay" /\ s.n = k /\ <<s>> \in Seq(Ops) /\ <<s>> # <<>>
  BY DEF Ops
<1>2. DelaySize(k) \in Nat
  BY DEF DelaySize
<1> HIDE DEF s
<1>3. ASSUME NEW n \in Nat, NEW o \in Nat, NEW d \in Nat, n >= 1,
             n + DelaySize(k) <= OUTPUT_BUFFER_SIZE
      PROVE  Does(<<s>>, <<n, o, d>>, <<n + DelaySize(k), o + 0, d>>)
  <2>1. <<n + DelaySize(k), o, d>> \in Tallies /\ n > 0 /\ o + 0 = o
    BY <1>2, <1>3 DEF Tallies
  <2>2. Works(s, n, o, d, <<n + DelaySize(k), o, d>>)
    BY <1>1, <1>3, <2>1, Zenon DEF Works
  <2>3. QED
    BY <1>1, <2>1, <2>2, DoesOne, Zenon
<1>4. QED
  BY <1>1, <1>3, Zenon DEF Adds, Delay, s

(* What is staged one after the other.                                     *)
LEMMA AddsConcat ==
  ASSUME NEW s, NEW e \in Nat, NEW k \in Nat, NEW w \in Nat, Adds(s, e, k, w),
         NEW t, NEW f \in Nat, NEW l \in Nat, NEW v \in Nat, Adds(t, f, l, v), f <= e + k
  PROVE  Adds(s \o t, e, k + l, w + v)
<1>1. s \in Seq(Ops) /\ s # <<>> /\ t \in Seq(Ops) /\ t # <<>>
  BY Zenon DEF Adds
<1>2. s \o t \in Seq(Ops) /\ s \o t # <<>>
  BY <1>1, ConcatProperties, HeadTailOfConcat
<1>3. ASSUME NEW n \in Nat, NEW o \in Nat, NEW d \in Nat, n >= e,
             n + (k + l) <= OUTPUT_BUFFER_SIZE
      PROVE  Does(s \o t, <<n, o, d>>, <<n + (k + l), o + (w + v), d>>)
  <2>1. n + k \in Nat /\ o + w \in Nat /\ n + k <= OUTPUT_BUFFER_SIZE /\ n + k >= f
        /\ (n + k) + l <= OUTPUT_BUFFER_SIZE
        /\ (n + k) + l = n + (k + l) /\ (o + w) + v = o + (w + v)
    BY <1>3, RegistersAssumption
  <2>2. Does(s, <<n, o, d>>, <<n + k, o + w, d>>)
    BY <1>3, <2>1, Zenon DEF Adds
  <2>3. Does(t, <<n + k, o + w, d>>, <<(n + k) + l, (o + w) + v, d>>)
    BY <2>1, Zenon DEF Adds
  <2>4. Does(s \o t, <<n, o, d>>, <<(n + k) + l, (o + w) + v, d>>)
    BY <2>2, <2>3, PathConcat, Zenon DEF Does
  <2>5. QED
    BY <2>1, <2>4, Zenon
<1>4. QED
  BY <1>2, <1>3, Zenon DEF Adds

(* What is staged again and again.                                         *)
LEMMA AddsTimes ==
  ASSUME NEW s, NEW k \in Nat, NEW w \in Nat, Adds(s, 0, k, w), NEW n \in Nat \ {0}
  PROVE  Adds(Times(n, s), 0, n * k, n * w)
<1>1. s \in Seq(Ops) /\ s # <<>> /\ n \in Nat
  BY Zenon DEF Adds
<1>2. Times(n, s) \in Seq(Ops) /\ Times(n, s) # <<>>
  <2>1. n - 1 \in Nat /\ (n - 1) + 1 = n
    OBVIOUS
  <2>2. Times((n - 1) + 1, s) = Times(n - 1, s) \o s /\ Times(n - 1, s) \in Seq(Ops)
    BY <1>1, <2>1, TimesNext, Zenon
  <2> DEFINE T == Times(n - 1, s)
  <2>3. T \in Seq(Ops) /\ Times(n, s) = T \o s
    BY <2>1, <2>2, Zenon
  <2> HIDE DEF T
  <2>4. T \o s \in Seq(Ops) /\ Len(T \o s) = Len(T) + Len(s) /\ Len(T) \in Nat
        /\ Len(s) \in Nat \ {0}
    BY <1>1, <2>3, ConcatProperties, LenProperties, EmptySeq
  <2>5. QED
    BY <2>3, <2>4, EmptySeq
<1>3. ASSUME NEW m \in Nat, NEW o \in Nat, NEW d \in Nat, m >= 0,
             m + n * k <= OUTPUT_BUFFER_SIZE
      PROVE  Does(Times(n, s), <<m, o, d>>, <<m + n * k, o + n * w, d>>)
  <2> DEFINE f == [i \in Nat |-> <<m + i * k, o + i * w, d>>]
  <2>1. f[0] = <<m, o, d>> /\ f[n] = <<m + n * k, o + n * w, d>> /\ f[0] \in Tallies
    BY DEF Tallies
  <2>2. ASSUME NEW i \in 0 .. (n - 1) PROVE Does(s, f[i], f[i + 1])
    <3>1. i \in Nat /\ i + 1 \in Nat /\ i + 1 <= n
      OBVIOUS
    <3>2. /\ (i + 1) * k = i * k + k /\ (i + 1) * w = i * w + w
          /\ i * k \in Nat /\ i * w \in Nat /\ (i + 1) * k <= n * k
      BY <3>1
    <3> DEFINE x == i * k
               y == i * w
               N == n * k
    <3>3. x \in Nat /\ y \in Nat /\ N \in Nat /\ x + k <= N
      BY <1>1, <3>2
    <3>4. f[i] = <<m + x, o + y, d>> /\ f[i + 1] = <<m + (i + 1) * k, o + (i + 1) * w, d>>
      BY <3>1
    <3>5. f[i + 1] = <<m + (x + k), o + (y + w), d>>
      BY <3>2, <3>4, Zenon
    <3> HIDE DEF f, x, y
    <3>6. m + N <= OUTPUT_BUFFER_SIZE
      BY <1>3
    <3> HIDE DEF N
    <3>7. /\ m + x \in Nat /\ o + y \in Nat /\ m + x >= 0
          /\ (m + x) + k <= OUTPUT_BUFFER_SIZE
          /\ (m + x) + k = m + (x + k) /\ (o + y) + w = o + (y + w)
      BY <3>3, <3>6, RegistersAssumption
    <3>8. Does(s, <<m + x, o + y, d>>, <<(m + x) + k, (o + y) + w, d>>)
      BY <3>7, Zenon DEF Adds
    <3>9. QED
      BY <3>4, <3>5, <3>7, <3>8, Zenon
  <2> HIDE DEF f
  <2>3. Does(Times(n, s), f[0], f[n])
    BY <1>1, <2>1, <2>2, PathTimes, Zenon DEF Does
  <2>4. QED
    BY <2>1, <2>3, Zenon
<1>4. QED
  BY <1>2, <1>3, Zenon DEF Adds

(* A request that wants no answer, or has it come at once and waits for it. *)
LEMMA RequestDoes ==
  ASSUME NEW s, NEW k \in Nat, NEW w \in Nat, Adds(s, 0, k, w), k <= OUTPUT_BUFFER_SIZE
  PROVE  /\ Does(Clear \o s, Nothing, <<k, w, 0>>)
         /\ w = 0 => Does(Clear \o s \o Send, Nothing, Nothing)
         /\ k > 0 /\ k + 1 <= OUTPUT_BUFFER_SIZE =>
              /\ Does(Clear \o s \o Fast \o Send \o Get(w), Nothing, Nothing)
              /\ w = 0 => Does(Clear \o s \o Fast \o Send, Nothing, Nothing)
<1>1. Does(Clear \o s, Nothing, <<k, w, 0>>)
  <2>1. 0 \in Nat /\ 0 >= 0 /\ 0 + k = k /\ 0 + w = w
    OBVIOUS
  <2>2. Does(s, <<0, 0, 0>>, <<0 + k, 0 + w, 0>>)
    BY <2>1, Zenon DEF Adds
  <2>3. Does(s, Nothing, <<k, w, 0>>)
    BY <2>1, <2>2, Zenon DEF Nothing
  <2>4. QED
    BY <2>3, ClearDoes, PathConcat, Zenon DEF Does
<1>2. ASSUME w = 0 PROVE Does(Clear \o s \o Send, Nothing, Nothing)
  <2>1. Does(Send, <<k, w, 0>>, <<0, 0, 0 + w>>) /\ 0 + w = 0
    BY <1>2, SendDoes
  <2>2. Does(Send, <<k, w, 0>>, Nothing)
    BY <2>1, Zenon DEF Nothing
  <2>3. QED
    BY <1>1, <2>2, PathConcat, Zenon DEF Does
<1>3. ASSUME k > 0, k + 1 <= OUTPUT_BUFFER_SIZE
      PROVE  /\ Does(Clear \o s \o Fast \o Send \o Get(w), Nothing, Nothing)
             /\ w = 0 => Does(Clear \o s \o Fast \o Send, Nothing, Nothing)
  <2>1. 0 \in Nat /\ k + 1 \in Nat /\ 0 + w = w
    OBVIOUS
  <2>2. Does(Fast, <<k, w, 0>>, <<k + 1, w, 0>>)
    BY <1>3, <2>1, FastDoes, Zenon
  <2>3. Does(Send, <<k + 1, w, 0>>, <<0, 0, w>>)
    BY <2>1, SendDoes
  <2>4. Does(Clear \o s \o Fast \o Send, Nothing, <<0, 0, w>>)
    BY <1>1, <2>2, <2>3, PathConcat, Zenon DEF Does
  <2>5. Does(Get(w), <<0, 0, w>>, Nothing)
    BY GetDoes
  <2>6. Does(Clear \o s \o Fast \o Send \o Get(w), Nothing, Nothing)
    BY <2>4, <2>5, PathConcat, Zenon DEF Does
  <2>7. QED
    BY <2>4, <2>6, Zenon DEF Nothing
<1>4. QED
  BY <1>1, <1>2, <1>3

(* What fits: one access or a few, and as many as a page has words.        *)
LEMMA RoomFor ==
  /\ \A n \in 0 .. 80 : n + 1 <= OUTPUT_BUFFER_SIZE /\ n <= OUTPUT_BUFFER_SIZE
  /\ \A n \in 0 .. 34 : PageWords * n + 1 <= OUTPUT_BUFFER_SIZE /\ PageWords * n \in Nat
  /\ Pages * (48 + DelaySize(DelayBytes) + PageWords * 34) + 1 <= OUTPUT_BUFFER_SIZE
<1> DEFINE D == DelaySize(DelayBytes)
           P == PageWords * 34
           B == 48 + D + P
<1>1. D \in Nat /\ P \in Nat /\ P >= 34 /\ P = 34 * PageWords
  BY RegistersAssumption DEF DelaySize
<1>2. Pages * (48 + D + 34 * PageWords) + 1 <= OUTPUT_BUFFER_SIZE
  BY BatchFits, Zenon DEF DelaySize
<1>3. Pages * B + 1 <= OUTPUT_BUFFER_SIZE
  BY <1>1, <1>2, Zenon
<1>4. ASSUME NEW n \in 0 .. 34 PROVE PageWords * n <= P /\ PageWords * n \in Nat
  BY RegistersAssumption
<1> HIDE DEF D, P
<1>5. B \in Nat /\ B >= 82 /\ B >= P
  BY <1>1
<1> HIDE DEF B
<1>6. Pages * B >= B
  BY <1>5, RegistersAssumption
<1> DEFINE T == Pages * B
<1>7. T \in Int /\ T >= B /\ T + 1 <= OUTPUT_BUFFER_SIZE
  BY <1>3, <1>5, <1>6, RegistersAssumption
<1> HIDE DEF T
<1>8. ASSUME NEW n \in 0 .. 80 PROVE n + 1 <= OUTPUT_BUFFER_SIZE /\ n <= OUTPUT_BUFFER_SIZE
  BY <1>5, <1>7, RegistersAssumption
<1>9. ASSUME NEW n \in 0 .. 34 PROVE PageWords * n + 1 <= OUTPUT_BUFFER_SIZE
  <2> DEFINE x == PageWords * n
  <2>1. x \in Nat /\ x <= P
    BY <1>4
  <2> HIDE DEF x
  <2>2. x + 1 <= OUTPUT_BUFFER_SIZE
    BY <2>1, <1>1, <1>5, <1>7, RegistersAssumption
  <2>3. QED
    BY <2>2 DEF x
<1>10. QED
  BY <1>3, <1>4, <1>8, <1>9 DEF B, P, D

-------------------------------------------------------------------------------
(* The functions of the drivers.                                           *)

(* What one access stages.                                                 *)
LEMMA AccessAdds ==
  /\ \A r \in Regs, d \in Data : Adds(Queue(Write(r, d)), 0, 16, 0)
  /\ \A r \in Regs, n \in {1, 2, 4} :
       Adds(Queue(Read(r, n)), 0, IF n = 1 THEN 15 ELSE 18, n)
<1>1. ASSUME NEW r \in Regs, NEW d \in Data PROVE Adds(Queue(Write(r, d)), 0, 16, 0)
  <2> DEFINE a == Write(r, d)
  <2>1. a \in Accesses /\ a.in = 0 /\ Size(a) = 16
    BY DEF Write, Accesses, Size
  <2> HIDE DEF a
  <2>2. QED
    BY <2>1, QueueAdds, Zenon DEF a
<1>2. ASSUME NEW r \in Regs, NEW n \in {1, 2, 4}
      PROVE  Adds(Queue(Read(r, n)), 0, IF n = 1 THEN 15 ELSE 18, n)
  <2> DEFINE a == Read(r, n)
  <2>1. a \in Accesses /\ a.in = n /\ Size(a) = IF n = 1 THEN 15 ELSE 18
    BY DEF Read, Accesses, Size
  <2> HIDE DEF a
  <2>2. QED
    BY <2>1, QueueAdds, Zenon DEF a
<1>3. QED
  BY <1>1, <1>2

(* The registers and the data of the drivers.                              *)
LEMMA Used ==
  /\ {4, 8, 12, 16, 32, 44, 48} \subseteq Regs
  /\ Words \subseteq Data /\ Zero \in Data
  /\ \A c \in Octets : Byte(c) \in Data
  /\ 1 \in Octets /\ 3 \in Octets /\ 4 \in Octets /\ 5 \in Octets /\ 170 \in Octets /\ 85 \in Octets
<1>1. Words \subseteq Data
  BY RegistersAssumption DEF Data, Octets
<1>2. ASSUME NEW c \in Octets PROVE Byte(c) \in Data
  BY DEF Byte, Data, Octets
<1>3. Zero \in Data
  BY DEF Zero, Data, Octets
<1>4. QED
  BY <1>1, <1>2, <1>3 DEF Regs, Octets

(* One access, sent at once.                                               *)
LEMMA OneDoes ==
  /\ \A r \in Regs, d \in Data :
       Does(XSPIWriteWORD_(r, d), Nothing, Nothing) /\ Does(XSPIWrite_sync(r, d), Nothing, Nothing)
  /\ \A r \in Regs, n \in {1, 2, 4} : Does(ReadNow(r, n), Nothing, Nothing)
<1>1. ASSUME NEW r \in Regs, NEW d \in Data
      PROVE  Does(Clear \o Queue(Write(r, d)) \o Send, Nothing, Nothing)
  <2> DEFINE k == 16
  <2>1. k \in Nat /\ 0 \in Nat /\ k \in 0 .. 80
    OBVIOUS
  <2>2. Adds(Queue(Write(r, d)), 0, k, 0)
    BY AccessAdds
  <2> HIDE DEF k
  <2>3. QED
    BY <2>1, <2>2, RoomFor, RequestDoes, Zenon
<1>2. ASSUME NEW r \in Regs, NEW n \in {1, 2, 4} PROVE Does(ReadNow(r, n), Nothing, Nothing)
  <2> DEFINE k == IF n = 1 THEN 15 ELSE 18
  <2>1. k \in Nat /\ n \in Nat /\ k \in 0 .. 80 /\ k > 0
    OBVIOUS
  <2>2. Adds(Queue(Read(r, n)), 0, k, n)
    BY AccessAdds
  <2> HIDE DEF k
  <2>3. QED
    BY <2>1, <2>2, RoomFor, RequestDoes, Zenon DEF ReadNow
<1>3. QED
  BY <1>1, <1>2, Zenon DEF XSPIWriteWORD_, XSPIWrite_sync

(* The codes of a command, one or three.                                   *)
LEMMA CodesAdd ==
  /\ \A c \in Octets :
       Adds(FlattenSeq([k \in DOMAIN <<c>> |-> Queue(Write(8, Byte(<<c>>[k])))]), 0, 16, 0)
  /\ \A a, b, c \in Octets :
       Adds(FlattenSeq([k \in DOMAIN <<a, b, c>> |-> Queue(Write(8, Byte(<<a, b, c>>[k])))]), 0, 48, 0)
<1> DEFINE Q(c) == Queue(Write(8, Byte(c)))
<1>1. ASSUME NEW c \in Octets PROVE Adds(Q(c), 0, 16, 0)
  BY AccessAdds, Used
<1> HIDE DEF Q
<1>2. ASSUME NEW c \in Octets
      PROVE  Adds(FlattenSeq([k \in DOMAIN <<c>> |-> Q(<<c>>[k])]), 0, 16, 0)
  <2> DEFINE f == [k \in DOMAIN <<c>> |-> Q(<<c>>[k])]
  <2>1. DOMAIN f = 1 .. 1 /\ Len(f) = 1 /\ f[1] = Q(c)
    OBVIOUS
  <2> HIDE DEF f
  <2>2. FlattenSeq(f) = Q(c)
    BY <2>1, FlattenOne, Zenon
  <2>3. QED
    BY <1>1, <2>2 DEF f
<1>3. ASSUME NEW a \in Octets, NEW b \in Octets, NEW c \in Octets
      PROVE  Adds(FlattenSeq([k \in DOMAIN <<a, b, c>> |-> Q(<<a, b, c>>[k])]), 0, 48, 0)
  <2> DEFINE f == [k \in DOMAIN <<a, b, c>> |-> Q(<<a, b, c>>[k])]
  <2>1. DOMAIN f = 1 .. 3 /\ Len(f) = 3 /\ f[1] = Q(a) /\ f[2] = Q(b) /\ f[3] = Q(c)
    OBVIOUS
  <2> HIDE DEF f
  <2>2. FlattenSeq(f) = (Q(a) \o Q(b)) \o Q(c)
    BY <2>1, FlattenThree, Zenon
  <2>3. Adds(Q(a) \o Q(b), 0, 32, 0)
    <3>1. 16 \in Nat /\ 0 \in Nat /\ 16 + 16 = 32 /\ 0 + 0 = 0 /\ 0 <= 0 + 16
      OBVIOUS
    <3>2. Adds(Q(a) \o Q(b), 0, 16 + 16, 0 + 0)
      BY <1>1, <3>1, AddsConcat, Zenon
    <3>3. QED
      BY <3>1, <3>2, Zenon
  <2>4. Adds((Q(a) \o Q(b)) \o Q(c), 0, 48, 0)
    <3>1. 16 \in Nat /\ 32 \in Nat /\ 0 \in Nat /\ 32 + 16 = 48 /\ 0 + 0 = 0 /\ 0 <= 0 + 32
      OBVIOUS
    <3>2. Adds((Q(a) \o Q(b)) \o Q(c), 0, 32 + 16, 0 + 0)
      <4> DEFINE i == 16
                 j == 32
      <4>1. i \in Nat /\ j \in Nat /\ Adds(Q(a) \o Q(b), 0, j, 0) /\ Adds(Q(c), 0, i, 0)
        BY <1>1, <2>3
      <4> HIDE DEF i, j
      <4>2. Adds((Q(a) \o Q(b)) \o Q(c), 0, j + i, 0 + 0)
        BY <3>1, <4>1, AddsConcat
      <4>3. QED
        BY <4>2 DEF i, j
    <3>3. QED
      BY <3>1, <3>2
  <2>5. QED
    BY <2>2, <2>4 DEF f
<1>4. QED
  BY <1>2, <1>3 DEF Q

(* An address and the codes of a command.                                  *)
LEMMA CommandsDo ==
  ASSUME NEW d \in Data
  PROVE  /\ \A c \in Octets : Does(Commands(d, <<c>>), Nothing, Nothing)
         /\ \A a, b, c \in Octets : Does(Commands(d, <<a, b, c>>), Nothing, Nothing)
<1>1. ASSUME NEW s, NEW k \in 0 .. 80, Adds(s, 0, k, 0)
      PROVE  Does(Clear \o XSPIWriteWORD_(12, d) \o s \o Send, Nothing, Nothing)
  <2>1. k \in Nat /\ 0 \in Nat /\ k <= OUTPUT_BUFFER_SIZE /\ 0 >= 0 /\ 0 + k = k /\ 0 + 0 = 0
    BY RoomFor
  <2>2. Does(XSPIWriteWORD_(12, d), Nothing, Nothing)
    BY OneDoes, Used
  <2>3. Does(s, <<0, 0, 0>>, <<0 + k, 0 + 0, 0>>)
    BY <1>1, <2>1, Zenon DEF Adds
  <2>4. Does(s, Nothing, <<k, 0, 0>>)
    BY <2>1, <2>3, Zenon DEF Nothing
  <2>5. Does(Send, <<k, 0, 0>>, Nothing)
    <3>1. Does(Send, <<k, 0, 0>>, <<0, 0, 0 + 0>>)
      BY <2>1, SendDoes, Zenon
    <3>2. QED
      BY <2>1, <3>1, Zenon DEF Nothing
  <2>6. Does(Clear \o XSPIWriteWORD_(12, d), Nothing, Nothing)
    BY <2>2, ClearDoes, PathConcat, Zenon DEF Does
  <2>7. QED
    BY <2>4, <2>5, <2>6, PathConcat, Zenon DEF Does
<1>2. 16 \in 0 .. 80 /\ 48 \in 0 .. 80
  OBVIOUS
<1>3. QED
  BY <1>1, <1>2, CodesAdd, Zenon DEF Commands

(* The pins that put the console in its flash mode.                        *)
LEMMA EnterDoes ==
  /\ Does(XSPIEnterFlashMode, Nothing, Nothing)
  /\ XSPIEnterFlashMode # <<>> /\ Head(XSPIEnterFlashMode).op = "lines"
<1> DEFINE a == Line(<<FALSE, TRUE>>)
           b == CS(TRUE)
           c == Line(<<FALSE, FALSE>>)
           d == CS(FALSE)
           e == Line(<<TRUE, TRUE>>)
<1>1. /\ Does(a, Nothing, Nothing) /\ Does(b, Nothing, Nothing) /\ Does(c, Nothing, Nothing)
      /\ Does(d, Nothing, Nothing) /\ Does(e, Nothing, Nothing)
  BY ClearDoes DEF Lines
<1>2. a \in Seq(Ops) /\ b \in Seq(Ops) /\ c \in Seq(Ops) /\ d \in Seq(Ops) /\ e \in Seq(Ops)
  BY <1>1, PathTyped, Zenon DEF Does
<1>3. a # <<>> /\ Head(a).op = "lines"
  BY DEF Line
<1>4. XSPIEnterFlashMode = (((a \o b) \o c) \o d) \o e
  BY DEF XSPIEnterFlashMode
<1> HIDE DEF a, b, c, d, e
<1>5. Does((((a \o b) \o c) \o d) \o e, Nothing, Nothing)
  <2>1. Does(a \o b, Nothing, Nothing)
    BY <1>1, PathConcat, Zenon DEF Does
  <2>2. Does((a \o b) \o c, Nothing, Nothing)
    BY <1>1, <2>1, PathConcat, Zenon DEF Does
  <2>3. Does(((a \o b) \o c) \o d, Nothing, Nothing)
    BY <1>1, <2>2, PathConcat, Zenon DEF Does
  <2>4. QED
    BY <1>1, <2>3, PathConcat, Zenon DEF Does
<1>6. ASSUME NEW s \in Seq(Ops), NEW t \in Seq(Ops), s # <<>>, Head(s) = Head(a)
      PROVE  s \o t \in Seq(Ops) /\ s \o t # <<>> /\ Head(s \o t) = Head(a)
  BY <1>6, HeadTailOfConcat, ConcatProperties, Zenon
<1>7. (((a \o b) \o c) \o d) \o e # <<>> /\ Head((((a \o b) \o c) \o d) \o e) = Head(a)
  <2>1. a \o b \in Seq(Ops) /\ a \o b # <<>> /\ Head(a \o b) = Head(a)
    BY <1>2, <1>3, <1>6, Zenon
  <2>2. /\ (a \o b) \o c \in Seq(Ops) /\ (a \o b) \o c # <<>>
        /\ Head((a \o b) \o c) = Head(a)
    BY <1>2, <1>6, <2>1, Zenon
  <2>3. /\ ((a \o b) \o c) \o d \in Seq(Ops) /\ ((a \o b) \o c) \o d # <<>>
        /\ Head(((a \o b) \o c) \o d) = Head(a)
    BY <1>2, <1>6, <2>2, Zenon
  <2>4. QED
    BY <1>2, <1>6, <2>3, Zenon
<1>8. QED
  BY <1>3, <1>4, <1>5, <1>7, Zenon

(* What is done once for each word of a page.                              *)
LEMMA WordsAdd ==
  ASSUME NEW s, NEW k \in 0 .. 34, NEW w \in Nat, Adds(s, 0, k, w)
  PROVE  /\ Adds(Times(PageWords, s), 0, PageWords * k, PageWords * w)
         /\ PageWords * k \in Nat /\ PageWords * w \in Nat
         /\ PageWords * k <= OUTPUT_BUFFER_SIZE /\ PageWords * k + 1 <= OUTPUT_BUFFER_SIZE
         /\ k > 0 => PageWords * k > 0
<1>1. PageWords \in Nat \ {0} /\ k \in Nat
  BY RegistersAssumption
<1>2. Adds(Times(PageWords, s), 0, PageWords * k, PageWords * w)
  BY <1>1, AddsTimes, Zenon
<1> DEFINE x == PageWords * k
<1>3. x \in Nat /\ x + 1 <= OUTPUT_BUFFER_SIZE
  BY RoomFor
<1>4. k > 0 => x > 0
  BY <1>1
<1>5. PageWords * w \in Nat
  BY <1>1
<1> HIDE DEF x
<1>6. x <= OUTPUT_BUFFER_SIZE
  BY <1>3, RegistersAssumption
<1>7. QED
  BY <1>2, <1>3, <1>4, <1>5, <1>6, Zenon DEF x

(* The functions that go through the words of a page or block.             *)
LEMMA PagesDo ==
  /\ Does(XNANDReadProcess(PageWords), Nothing, Nothing)
  /\ Does(XSPIReadBlock_(PageWords), Nothing, Nothing)
  /\ \A d \in Data : /\ Does(XNANDWriteProcess(PageWords, d), Nothing, Nothing)
                     /\ Does(WriteBlock(PageWords, d), Nothing, Nothing)
<1>1. /\ 0 \in Nat /\ 4 \in Nat /\ 16 \in Nat /\ 18 \in Nat /\ 0 <= 0 + 16
      /\ 16 + 18 = 34 /\ 16 + 16 = 32 /\ 0 + 4 = 4 /\ 0 + 0 = 0
      /\ 34 \in 0 .. 34 /\ 32 \in 0 .. 34 /\ 18 \in 0 .. 34 /\ 16 \in 0 .. 34
      /\ 34 > 0 /\ 32 > 0 /\ 18 > 0 /\ 16 > 0
  OBVIOUS
<1>2. PageWords * 4 = 4 * PageWords /\ PageWords * 0 = 0
  BY RegistersAssumption
<1>00. ASSUME NEW g, NEW k \in 1 .. 34, Adds(g, 0, k, 4)
      PROVE  Does(Clear \o Times(PageWords, g) \o Fast \o Send \o Get(PageWords * 4), Nothing, Nothing)
  <2> DEFINE s == Times(PageWords, g)
             m == PageWords * k
             w == PageWords * 4
  <2>1. k \in 0 .. 34 /\ k > 0 /\ 4 \in Nat
    OBVIOUS
  <2>2. /\ Adds(s, 0, m, w) /\ m \in Nat /\ m > 0 /\ w \in Nat
        /\ m <= OUTPUT_BUFFER_SIZE /\ m + 1 <= OUTPUT_BUFFER_SIZE
    BY <1>00, <2>1, WordsAdd, Zenon
  <2> HIDE DEF s, m, w
  <2>3. Does(Clear \o s \o Fast \o Send \o Get(w), Nothing, Nothing)
    BY <2>2, RequestDoes, Zenon
  <2>4. QED
    BY <2>3 DEF s, w
<1>0. ASSUME NEW g, NEW k \in 1 .. 34, Adds(g, 0, k, 0)
      PROVE  /\ Does(Clear \o Times(PageWords, g) \o Send, Nothing, Nothing)
             /\ Does(Clear \o Times(PageWords, g) \o Fast \o Send, Nothing, Nothing)
  <2> DEFINE s == Times(PageWords, g)
             m == PageWords * k
  <2>1. k \in 0 .. 34 /\ k > 0 /\ 0 \in Nat
    OBVIOUS
  <2>2. /\ Adds(s, 0, m, PageWords * 0) /\ m \in Nat /\ m > 0
        /\ m <= OUTPUT_BUFFER_SIZE /\ m + 1 <= OUTPUT_BUFFER_SIZE
    BY <1>0, <2>1, WordsAdd, Zenon
  <2> HIDE DEF s, m
  <2>3. QED
    BY <1>2, <2>1, <2>2, RequestDoes, Zenon DEF s
<1>3. Adds(Queue(Write(8, Zero)), 0, 16, 0)
  BY AccessAdds, Used
<1>4. Adds(Queue(Read(16, 4)), 0, 18, 4) /\ Adds(Queue(Read(32, 4)), 0, 18, 4)
  BY AccessAdds, Used
<1>5. ASSUME NEW d \in Data
      PROVE  /\ Adds(Queue(Write(16, d)), 0, 16, 0) /\ Adds(Queue(Write(32, d)), 0, 16, 0)
             /\ Adds(Queue(Write(8, Byte(1))), 0, 16, 0)
  BY AccessAdds, Used
<1>6. Does(XNANDReadProcess(PageWords), Nothing, Nothing)
  <2>1. Adds(Queue(Write(8, Zero)) \o Queue(Read(16, 4)), 0, 34, 4)
    <3>1. Adds(Queue(Write(8, Zero)) \o Queue(Read(16, 4)), 0, 16 + 18, 0 + 4)
      BY <1>1, <1>3, <1>4, AddsConcat, Zenon
    <3>2. QED
      BY <1>1, <3>1, Zenon
  <2> DEFINE t == Times(PageWords, Queue(Write(8, Zero)) \o Queue(Read(16, 4)))
  <2>2. Does(Clear \o t \o Fast \o Send \o Get(PageWords * 4), Nothing, Nothing)
    BY <1>00, <2>1
  <2>3. QED
    BY <1>2, <2>2, Zenon DEF XNANDReadProcess
<1>7. Does(XSPIReadBlock_(PageWords), Nothing, Nothing)
  <2> DEFINE t == Times(PageWords, Queue(Read(32, 4)))
  <2>1. Does(Clear \o t \o Fast \o Send \o Get(PageWords * 4), Nothing, Nothing)
    BY <1>00, <1>4
  <2>2. QED
    BY <1>2, <2>1, Zenon DEF XSPIReadBlock_
<1>8. ASSUME NEW d \in Data PROVE Does(XNANDWriteProcess(PageWords, d), Nothing, Nothing)
  <2>1. Adds(Queue(Write(16, d)) \o Queue(Write(8, Byte(1))), 0, 32, 0)
    <3>1. Adds(Queue(Write(16, d)) \o Queue(Write(8, Byte(1))), 0, 16 + 16, 0 + 0)
      BY <1>1, <1>5, AddsConcat, Zenon
    <3>2. QED
      BY <1>1, <3>1, Zenon
  <2> DEFINE g == Queue(Write(16, d)) \o Queue(Write(8, Byte(1)))
  <2> HIDE DEF g
  <2>2. Does(Clear \o Times(PageWords, g) \o Send, Nothing, Nothing)
    BY <1>0, <2>1 DEF g
  <2>3. QED
    BY <2>2, Zenon DEF XNANDWriteProcess, g
<1>9. ASSUME NEW d \in Data PROVE Does(WriteBlock(PageWords, d), Nothing, Nothing)
  <2>1. Adds(Queue(Write(32, d)), 0, 16, 0)
    BY <1>5
  <2>2. Does(Clear \o Times(PageWords, Queue(Write(32, d))) \o Fast \o Send, Nothing, Nothing)
    BY <1>0, <2>1
  <2>3. QED
    BY <2>2, Zenon DEF WriteBlock
<1>10. QED
  BY <1>6, <1>7, <1>8, <1>9

(* A batch of pages, with the delay after each page is asked for.          *)
LEMMA BatchDoes ==
  ASSUME NEW d \in Data
  PROVE  Does(XNANDReadBatch(Pages, PageWords, d), Nothing, Nothing)
<1> DEFINE A == Queue(Write(12, d))
           B == Queue(Write(8, Byte(3)))
           C == Delay(DelayBytes)
           E == Queue(Write(12, Zero))
           F == Times(PageWords, Queue(Write(8, Zero)) \o Queue(Read(16, 4)))
           G == A \o B \o C \o E \o F
           D == DelaySize(DelayBytes)
           P == PageWords * 34
           Q == PageWords * 4
           k == 48 + D + P
<1>1. D \in Nat /\ P \in Nat /\ Q \in Nat /\ DelayBytes \in Nat /\ DelayBytes <= MostClocked
  BY RegistersAssumption, BatchFits DEF DelaySize, MostClocked
<1>2. Adds(A, 0, 16, 0) /\ Adds(B, 0, 16, 0) /\ Adds(E, 0, 16, 0)
  BY AccessAdds, Used
<1>3. Adds(C, 1, D, 0)
  BY <1>1, DelayAdds
<1>4. Adds(F, 0, P, Q)
  <2>1. /\ 0 \in Nat /\ 4 \in Nat /\ 16 \in Nat /\ 18 \in Nat /\ 0 <= 0 + 16
        /\ 16 + 18 = 34 /\ 0 + 4 = 4 /\ 34 \in 0 .. 34
    OBVIOUS
  <2>2. Adds(Queue(Write(8, Zero)), 0, 16, 0) /\ Adds(Queue(Read(16, 4)), 0, 18, 4)
    BY AccessAdds, Used
  <2>3. Adds(Queue(Write(8, Zero)) \o Queue(Read(16, 4)), 0, 16 + 18, 0 + 4)
    BY <2>1, <2>2, AddsConcat, Zenon
  <2>4. Adds(Queue(Write(8, Zero)) \o Queue(Read(16, 4)), 0, 34, 4)
    BY <2>1, <2>3, Zenon
  <2>5. QED
    BY <2>1, <2>4, WordsAdd, Zenon
<1>5. Pages * k + 1 <= OUTPUT_BUFFER_SIZE
  BY RoomFor
<1>6. XNANDReadBatch(Pages, PageWords, d)
        = Clear \o Times(Pages, G) \o Fast \o Send \o Get(4 * Pages * PageWords)
  BY Zenon DEF XNANDReadBatch
<1>7. 4 * Pages * PageWords = Pages * Q
  BY RegistersAssumption
<1> HIDE DEF A, B, C, E, F, D, P, Q
<1>8. Adds(G, 0, k, Q)
  <2>1. /\ 0 \in Nat /\ 1 \in Nat /\ 16 \in Nat /\ 32 \in Nat /\ 32 + D \in Nat
        /\ 32 + D + 16 \in Nat
        /\ 0 <= 0 + 16 /\ 1 <= 0 + 32 /\ 0 <= 0 + (32 + D) /\ 0 <= 0 + (32 + D + 16)
        /\ 16 + 16 = 32 /\ 0 + 0 = 0 /\ 0 + Q = Q /\ (32 + D + 16) + P = k
    BY <1>1
  <2>2. Adds(A \o B, 0, 16 + 16, 0 + 0)
    BY <1>2, <2>1, AddsConcat, Zenon
  <2>3. Adds(A \o B, 0, 32, 0)
    BY <2>1, <2>2, Zenon
  <2>4. Adds((A \o B) \o C, 0, 32 + D, 0 + 0)
    BY <1>1, <1>3, <2>1, <2>3, AddsConcat, Zenon
  <2>5. Adds((A \o B) \o C, 0, 32 + D, 0)
    BY <2>1, <2>4, Zenon
  <2>6. Adds(((A \o B) \o C) \o E, 0, (32 + D) + 16, 0 + 0)
    BY <1>2, <2>1, <2>5, AddsConcat, Zenon
  <2>7. Adds(((A \o B) \o C) \o E, 0, 32 + D + 16, 0)
    BY <2>1, <2>6, Zenon
  <2>8. Adds((((A \o B) \o C) \o E) \o F, 0, (32 + D + 16) + P, 0 + Q)
    BY <1>1, <1>4, <2>1, <2>7, AddsConcat, Zenon
  <2>9. QED
    BY <2>1, <2>8, Zenon
<1> HIDE DEF G
<1>9. k \in Nat /\ k > 0 /\ Pages \in Nat \ {0}
  BY <1>1, RegistersAssumption
<1> HIDE DEF k
<1>10. Adds(Times(Pages, G), 0, Pages * k, Pages * Q)
  BY <1>1, <1>8, <1>9, AddsTimes, Zenon
<1> DEFINE x == Pages * k
           y == Pages * Q
<1>11. x \in Nat /\ x > 0 /\ y \in Nat
  BY <1>1, <1>9
<1> HIDE DEF x
<1>12. x + 1 <= OUTPUT_BUFFER_SIZE /\ x <= OUTPUT_BUFFER_SIZE
  BY <1>5, <1>11, RegistersAssumption DEF x
<1>13. Does(Clear \o Times(Pages, G) \o Fast \o Send \o Get(y), Nothing, Nothing)
  BY <1>10, <1>11, <1>12, RequestDoes, Zenon DEF x
<1>14. QED
  BY <1>6, <1>7, <1>13, Zenon

(* No function of a driver stages more than there is room for, leaves      *)
(* anything in the buffer or waits for more than it asked for.             *)
LEMMA FunctionsDo ==
  ASSUME NEW d \in Words, NEW s \in Functions(d)
  PROVE  Does(s, Nothing, Nothing)
<1>1. d \in Data /\ 4 \in Regs /\ 8 \in Regs /\ 12 \in Regs /\ 44 \in Regs /\ 48 \in Regs
  BY Used
<1>2. /\ Does(XSPIReadBYTE_(4), Nothing, Nothing) /\ Does(XSPIReadWORD_(48), Nothing, Nothing)
      /\ Does(XSPIReadDWORD_(44), Nothing, Nothing) /\ Does(XSPIRead_sync(4), Nothing, Nothing)
  <2>1. 1 \in {1, 2, 4} /\ 2 \in {1, 2, 4} /\ 4 \in {1, 2, 4}
    OBVIOUS
  <2>2. QED
    BY <1>1, <2>1, OneDoes, Zenon DEF XSPIReadBYTE_, XSPIReadWORD_, XSPIReadDWORD_, XSPIRead_sync
<1>3. \A r \in {4, 8, 12, 44, 48} : Does(XSPIWriteWORD_(r, d), Nothing, Nothing)
  BY <1>1, OneDoes, Zenon
<1>4. Does(XNANDClearStatus(d), Nothing, Nothing)
  <2>1. Does(XSPIWrite_sync(4, d), Nothing, Nothing)
    BY <1>1, OneDoes, Zenon
  <2>2. QED
    BY <1>2, <2>1, PathConcat, Zenon DEF Does, XNANDClearStatus
<1>5. Does(XNANDWriteStart, Nothing, Nothing)
  BY <1>1, OneDoes, Used, Zenon DEF XNANDWriteStart, XSPIWriteWORD_
<1>6. /\ Does(Commands(d, <<3>>), Nothing, Nothing)
      /\ Does(Commands(d, <<170, 85, 5>>), Nothing, Nothing)
      /\ Does(Commands(d, <<85, 170, 4>>), Nothing, Nothing)
  BY <1>1, CommandsDo, Used
<1>7. Does(xbox_emmc_execute(d), Nothing, Nothing)
  <2>1. Does(XSPIWriteWORD_(48, d) \o XSPIWriteWORD_(4, d), Nothing, Nothing)
    BY <1>3, PathConcat, Zenon DEF Does
  <2>2. Does((XSPIWriteWORD_(48, d) \o XSPIWriteWORD_(4, d)) \o XSPIWriteWORD_(8, d), Nothing, Nothing)
    BY <1>3, <2>1, PathConcat, Zenon DEF Does
  <2>3. QED
    BY <1>3, <2>2, PathConcat, Zenon DEF Does, xbox_emmc_execute
<1>8. /\ Does(XNANDReadProcess(PageWords), Nothing, Nothing)
      /\ Does(XSPIReadBlock_(PageWords), Nothing, Nothing)
      /\ Does(XNANDWriteProcess(PageWords, d), Nothing, Nothing)
      /\ Does(WriteBlock(PageWords, d), Nothing, Nothing)
  BY <1>1, PagesDo, Zenon
<1>9. Does(XNANDReadBatch(Pages, PageWords, d), Nothing, Nothing)
  BY <1>1, BatchDoes
<1>10. Does(XSPIWriteWORD_(44, d), Nothing, Nothing)
  BY <1>3
<1>11. QED
  BY <1>2, <1>4, <1>5, <1>6, <1>7, <1>8, <1>9, <1>10 DEF Functions

-------------------------------------------------------------------------------
(* The next command, and the next step.                                    *)

(* No command is empty.                                                    *)
LEMMA CommandNotEmpty ==
  ASSUME NEW cmd \in Seq(Items), NEW c, NEW d, Moves(cmd, c, d)
  PROVE  cmd # <<>>
<1>1. CASE BytesOut(cmd, c, d)
  <2>1. PICK n \in Octets, m \in Octets, s \in Seq(Int) : cmd = <<CLK_DATA_BYTES_OUT, n, m>> \o s
    BY <1>1, Zenon DEF BytesOut
  <2> DEFINE h == <<CLK_DATA_BYTES_OUT, n, m>>
  <2>2. h \in Seq(Items) /\ s \in Seq(Items) /\ h # <<>>
    BY CommandBytes DEF CLK_DATA_BYTES_OUT, Octets
  <2> HIDE DEF h
  <2>3. h \o s # <<>>
    BY <2>2, HeadTailOfConcat
  <2>4. QED
    BY <2>1, <2>3 DEF h
<1>2. CASE SetsPins(cmd, c, d)
  BY <1>2 DEF SetsPins
<1>3. CASE BitsOut(cmd, c, d)
  BY <1>3 DEF BitsOut
<1>4. CASE BytesIn(cmd, c, d)
  BY <1>4 DEF BytesIn
<1>5. CASE BitsIn(cmd, c, d)
  BY <1>5 DEF BitsIn
<1>6. CASE Immediate(cmd, c, d)
  BY <1>6 DEF Immediate
<1>7. QED
  BY <1>1, <1>2, <1>3, <1>4, <1>5, <1>6, Zenon DEF Moves

(* The chip has nothing left to do, or a command.                          *)
LEMMA ChipNext ==
  ASSUME NEW u, NEW c, NEW b, Runs(u, c, b)
  PROVE  /\ u = <<>> => c = b
         /\ u # <<>> => Takes(u, c, b)
<1>1. \/ u = <<>> /\ c = b
      \/ \E cmd, rest \in Seq(Items), d \in Chips :
           u = cmd \o rest /\ <<cmd, c, d>> \in Chip /\ Runs(rest, d, b)
  <2>1. Path(Items, Chips, Chip, u, c, b)
    BY Zenon DEF Runs
  <2>2. (u = <<>> /\ c = b) \/ Continues(Items, Chips, Chip, u, c, b)
    BY <2>1, PathStep, Zenon
  <2>3. QED
    BY <2>2, Zenon DEF Runs, Continues
<1>2. ASSUME NEW cmd, NEW d, <<cmd, c, d>> \in Chip PROVE Moves(cmd, c, d)
  BY <1>2 DEF Chip
<1>3. ASSUME NEW cmd \in Seq(Items), NEW rest \in Seq(Items), NEW d, Moves(cmd, c, d)
      PROVE  cmd \o rest # <<>>
  BY <1>3, CommandNotEmpty, HeadTailOfConcat, Zenon
<1>4. QED
  BY <1>1, <1>2, <1>3, Zenon DEF Takes

(* The worker is through, or takes a step.                                 *)
LEMMA WorkerNext ==
  ASSUME NEW s, NEW n \in Nat, NEW o \in Nat, NEW d \in Nat, Does(s, <<n, o, d>>, Nothing)
  PROVE  /\ s \in Seq(Ops)
         /\ s = <<>> => n = 0 /\ o = 0 /\ d = 0
         /\ s # <<>> => /\ Head(s) \in Ops
                        /\ \E b \in Tallies : Works(Head(s), n, o, d, b) /\ Does(Tail(s), b, Nothing)
<1> DEFINE a == <<n, o, d>>
<1>1. s \in Seq(Ops) /\ a[1] = n /\ a[2] = o /\ a[3] = d /\ Does(s, a, Nothing)
  BY PathTyped DEF Does
<1>2. a = Nothing => n = 0 /\ o = 0 /\ d = 0
  BY DEF Nothing
<1> DEFINE Parts(f, g) ==
             f \o g # <<>> /\ Head(f \o g) = Head(f) /\ Tail(f \o g) = Tail(f) \o g
<1>0. \A f, g \in Seq(Ops) : f # <<>> => Parts(f, g)
  BY HeadTailOfConcat
<1> HIDE DEF Parts
<1> HIDE DEF a
<1>3. \/ s = <<>> /\ a = Nothing
      \/ \E cmd, rest \in Seq(Ops), b \in Tallies :
           s = cmd \o rest /\ <<cmd, a, b>> \in Work /\ Does(rest, b, Nothing)
  <2>1. Path(Ops, Tallies, Work, s, a, Nothing)
    BY <1>1, Zenon DEF Does
  <2>2. (s = <<>> /\ a = Nothing) \/ Continues(Ops, Tallies, Work, s, a, Nothing)
    BY <2>1, PathStep, Zenon
  <2>3. QED
    BY <2>2, Zenon DEF Does, Continues
<1>4. ASSUME NEW cmd \in Seq(Ops), NEW rest \in Seq(Ops), NEW b \in Tallies,
             s = cmd \o rest, <<cmd, a, b>> \in Work, Does(rest, b, Nothing)
      PROVE  /\ s # <<>> /\ Head(s) \in Ops /\ Works(Head(s), n, o, d, b)
             /\ Does(Tail(s), b, Nothing)
  <2> DEFINE x == <<cmd, a, b>>
  <2>1. x \in Work /\ x[1] = cmd /\ x[2] = a /\ x[3] = b
    BY <1>4
  <2> HIDE DEF x
  <2>2. PICK h \in Ops : x[1] = <<h>> /\ Works(h, x[2][1], x[2][2], x[2][3], x[3])
    BY <2>1, Zenon DEF Work
  <2>3. cmd = <<h>> /\ Works(h, n, o, d, b)
    BY <1>1, <2>1, <2>2, Zenon
  <2>4. <<h>> \in Seq(Ops) /\ <<h>> # <<>> /\ Head(<<h>>) = h /\ Tail(<<h>>) = <<>>
    OBVIOUS
  <2>5. s # <<>> /\ Head(s) = h /\ Tail(s) = <<>> \o rest
    <3> DEFINE g == <<h>>
    <3>1. g \in Seq(Ops) /\ g # <<>> /\ Head(g) = h /\ Tail(g) = <<>> /\ s = g \o rest
      BY <1>4, <2>3, <2>4
    <3> HIDE DEF g
    <3>2. Parts(g, rest)
      BY <1>0, <1>4, <3>1, Zenon
    <3>3. g \o rest # <<>> /\ Head(g \o rest) = Head(g) /\ Tail(g \o rest) = Tail(g) \o rest
      BY <3>2 DEF Parts
    <3>4. QED
      BY <3>1, <3>3, Zenon
  <2>6. <<>> \o rest = rest
    BY ConcatEmptySeq
  <2>7. QED
    BY <1>4, <2>3, <2>5, <2>6, Zenon
<1>5. QED
  BY <1>1, <1>2, <1>3, <1>4, Zenon

(* States are equal in every part.                                         *)
LEMMA EqualStates ==
  ASSUME NEW p, NEW o, NEW i, NEW q, NEW l, NEW p2, NEW o2, NEW i2, NEW q2, NEW l2,
         State(p, o, i, q, l) = State(p2, o2, i2, q2, l2)
  PROVE  p = p2 /\ o = o2 /\ i = i2 /\ q = q2 /\ l = l2
<1> DEFINE A == State(p, o, i, q, l)
           B == State(p2, o2, i2, q2, l2)
<1>1. A.pins = p /\ A.out = o /\ A.in = i /\ A.accs = q /\ A.left = l
  BY DEF State
<1>2. B.pins = p2 /\ B.out = o2 /\ B.in = i2 /\ B.accs = q2 /\ B.left = l2
  BY DEF State
<1>3. A = B
  OBVIOUS
<1> HIDE DEF A, B
<1>4. QED
  BY <1>1, <1>2, <1>3

-------------------------------------------------------------------------------
(* The invariant.                                                          *)

(* What the proofs need of the types.                                      *)
TypedInv ==
  /\ steps \in Seq(Ops) /\ byOutputBuffer \in Seq(Items) /\ usb \in Seq(Items)
  /\ dwLowPinsValue \in Pinouts /\ pins \in Pinouts
  /\ out \in Seq(Int) /\ in \in Nat /\ rx \in Nat
  /\ queued \in Seq(Accesses) /\ sent \in Seq(Accesses)
  /\ entered \in BOOLEAN

(* A session that has not set the pins yet: they need not be as the last   *)
(* session left them.                                                      *)
Unset(o) ==
  /\ byOutputBuffer = <<>> /\ queued = <<>> /\ o = 0
  /\ \/ steps = XSPIEnterFlashMode
     \/ steps = <<>> /\ ~entered

(* What the chip has to execute leads it, through the accesses it was sent, *)
(* to the pins m with due bytes of replies; what is in the buffer from      *)
(* there, through the accesses in it, to the pins the driver wants with o   *)
(* bytes; and what is left of the function ends with nothing in the buffer  *)
(* and all of d bytes taken, those that came and those that are due.        *)
Leads(m, due, o, d) ==
  /\ Runs(usb, State(pins, out, in, sent, due), AtRest(m))
  /\ Runs(byOutputBuffer, State(m, <<>>, 0, queued, o), AtRest(dwLowPinsValue)) \/ Unset(o)
  /\ Does(steps, <<Len(byOutputBuffer), o, d>>, Nothing)
  /\ entered => d = rx + due

(* Nothing has gone wrong, and what is in the three queues leads to rest.  *)
RegistersInv ==
  /\ TypedInv
  /\ ~strange /\ ~dropped
  /\ byOutputBuffer # <<>> => dwLowPinsValue.high
  /\ \E m \in Pinouts, due, o, d \in Nat : Leads(m, due, o, d)

(* An empty buffer has nothing queued.                                     *)
LEMMA EmptyBuffer ==
  ASSUME NEW m, NEW due \in Nat, NEW o \in Nat, NEW d \in Nat, Leads(m, due, o, d),
         byOutputBuffer = <<>>
  PROVE  queued = <<>> /\ o = 0 /\ (m = dwLowPinsValue \/ Unset(o))
<1>1. CASE Unset(o)
  BY <1>1, Zenon DEF Unset
<1>2. CASE Runs(byOutputBuffer, State(m, <<>>, 0, queued, o), AtRest(dwLowPinsValue))
  <2>1. State(m, <<>>, 0, queued, o) = State(dwLowPinsValue, <<>>, 0, <<>>, 0)
    BY <1>2, ChipNext, Zenon DEF AtRest
  <2>2. queued = <<>> /\ o = 0 /\ m = dwLowPinsValue
    BY <2>1, EqualStates
  <2>3. QED
    BY <2>2, Zenon
<1>3. QED
  BY <1>1, <1>2, Zenon DEF Leads

(* The start of a session waits for the pins to be set.                    *)
LEMMA StepOf ==
  ASSUME TypedInv, NEW m, NEW due \in Nat, NEW o \in Nat, NEW d \in Nat, Leads(m, due, o, d),
         steps # <<>>
  PROVE  /\ Len(byOutputBuffer) \in Nat /\ Head(steps) \in Ops
         /\ \E b \in Tallies : /\ Works(Head(steps), Len(byOutputBuffer), o, d, b)
                               /\ Does(Tail(steps), b, Nothing)
         /\ Head(steps).op # "lines" =>
              Runs(byOutputBuffer, State(m, <<>>, 0, queued, o), AtRest(dwLowPinsValue))
         /\ Len(byOutputBuffer) = 0 => byOutputBuffer = <<>>
<1>1. Len(byOutputBuffer) \in Nat /\ (Len(byOutputBuffer) = 0 => byOutputBuffer = <<>>)
  BY LenProperties, EmptySeq DEF TypedInv
<1>2. Does(steps, <<Len(byOutputBuffer), o, d>>, Nothing)
  BY Zenon DEF Leads
<1>3. Unset(o) => Head(steps).op = "lines"
  BY EnterDoes, Zenon DEF Unset
<1>4. QED
  BY <1>1, <1>2, <1>3, WorkerNext, Zenon DEF Leads

(* More bytes after those that lead to rest: with their accesses and       *)
(* replies, or with none.                                                  *)
LEMMA RunsOn ==
  ASSUME NEW u, NEW p \in Pinouts, NEW out0 \in Seq(Int), NEW i \in Nat, NEW q \in Seq(Accesses),
         NEW l \in Nat, NEW m \in Pinouts, NEW w,
         Runs(u, State(p, out0, i, q, l), AtRest(m)), NEW t
  PROVE  /\ \A r \in Seq(Accesses), k \in Nat :
              Runs(t, State(m, <<>>, 0, r, k), AtRest(w)) =>
                Runs(u \o t, State(p, out0, i, q \o r, l + k), AtRest(w))
         /\ Runs(t, AtRest(m), AtRest(w)) => Runs(u \o t, State(p, out0, i, q, l), AtRest(w))
<1>1. <<>> \in Seq(Int) /\ 0 \in Nat /\ <<>> \in Seq(Accesses)
  BY EmptySeq
<1>2. AtRest(m) \in Chips
  BY <1>1, StateParts, Zenon DEF AtRest
<1>3. ASSUME NEW r \in Seq(Accesses), NEW k \in Nat, Runs(t, State(m, <<>>, 0, r, k), AtRest(w))
      PROVE  Runs(u \o t, State(p, out0, i, q \o r, l + k), AtRest(w))
  <2> DEFINE c == State(p, out0, i, q, l)
             e == AtRest(m)
  <2>1. c.pins = p /\ c.out = out0 /\ c.in = i /\ c.accs = q /\ c.left = l
    BY StateParts
  <2>2. e.pins = m /\ e.out = <<>> /\ e.in = 0 /\ e.accs = <<>> /\ e.left = 0
    BY DEF AtRest, State
  <2> HIDE DEF c, e
  <2>3. Later(c, r, k) = State(p, out0, i, q \o r, l + k)
    BY <2>1, Zenon DEF Later
  <2>4. <<>> \o r = r /\ 0 + k = k
    BY ConcatEmptySeq
  <2>5. Later(e, r, k) = State(m, <<>>, 0, r, k)
    BY <2>2, <2>4, Zenon DEF Later
  <2>6. Runs(u, Later(c, r, k), Later(e, r, k))
    BY <1>2, RunsShift, Zenon DEF c, e
  <2>7. QED
    BY <1>3, <2>3, <2>5, <2>6, PathConcat, Zenon DEF Runs
<1>4. ASSUME Runs(t, AtRest(m), AtRest(w))
      PROVE  Runs(u \o t, State(p, out0, i, q, l), AtRest(w))
  BY <1>4, PathConcat, Zenon DEF Runs
<1>5. QED
  BY <1>3, <1>4

(* What there is room for is staged as it is.                              *)
LEMMA StageAll ==
  ASSUME TypedInv, ~dropped, NEW s \in Seq(Items),
         Len(byOutputBuffer) + Len(s) <= OUTPUT_BUFFER_SIZE, Stage(s)
  PROVE  /\ byOutputBuffer' = byOutputBuffer \o s /\ ~dropped'
         /\ byOutputBuffer' \in Seq(Items)
         /\ Len(byOutputBuffer') = Len(byOutputBuffer) + Len(s)
<1>1. byOutputBuffer \in Seq(Items) /\ Len(byOutputBuffer) \in Nat /\ Len(s) \in Nat
      /\ OUTPUT_BUFFER_SIZE \in Nat
  BY LenProperties, RegistersAssumption DEF TypedInv
<1> DEFINE room == OUTPUT_BUFFER_SIZE - Len(byOutputBuffer)
<1>2. room \in Nat /\ Len(s) <= room /\ ~(Len(s) > room)
  BY <1>1
<1>3. Minimum(room, Len(s)) = Len(s)
  BY <1>1, <1>2 DEF Minimum
<1>4. SubSeq(s, 1, Len(s)) = s
  OBVIOUS
<1>5. byOutputBuffer' = byOutputBuffer \o SubSeq(s, 1, Minimum(room, Len(s)))
      /\ dropped' = (dropped \/ Len(s) > room)
  BY DEF Stage
<1>6. byOutputBuffer' = byOutputBuffer \o s
  BY <1>3, <1>4, <1>5, Zenon
<1>7. ~dropped'
  BY <1>2, <1>5, Zenon
<1>8. QED
  BY <1>1, <1>6, <1>7, ConcatProperties

(* The function starts, or the buffer is cleared: there is nothing in it.  *)
LEMMA ClearKeeps ==
  ASSUME RegistersInv, ClearOutputBuffer
  PROVE  RegistersInv'
<1>1. PICK m \in Pinouts, due \in Nat, o \in Nat, d \in Nat : Leads(m, due, o, d)
  BY Zenon DEF RegistersInv
<1>2. TypedInv /\ steps # <<>> /\ Head(steps).op = "clear" /\ steps' = Tail(steps)
  BY Zenon DEF RegistersInv, ClearOutputBuffer, Step
<1>3. PICK b \in Tallies : Works(Head(steps), Len(byOutputBuffer), o, d, b)
                           /\ Does(Tail(steps), b, Nothing)
  BY <1>1, <1>2, StepOf, Zenon
<1>4. Len(byOutputBuffer) = 0 /\ b = <<0, o, d>>
  BY <1>2, <1>3 DEF Works
<1>5. byOutputBuffer = <<>> /\ queued = <<>>
  BY <1>1, <1>2, <1>4, StepOf, EmptyBuffer, Zenon
<1>6. byOutputBuffer' = byOutputBuffer /\ queued' = queued
  BY <1>5, Zenon DEF ClearOutputBuffer
<1>7. steps' \in Seq(Ops)
  BY <1>2, <1>3, PathTyped, Zenon DEF Does
<1>8. UNCHANGED <<byOutputBuffer, queued, dwLowPinsValue, usb, pins, out, in, rx, entered, sent, strange, dropped>>
  BY <1>6 DEF ClearOutputBuffer, chip
<1>9. TypedInv'
  BY <1>2, <1>7, <1>8 DEF TypedInv
<1>10. Leads(m, due, o, d)'
  <2>1. Does(steps', <<Len(byOutputBuffer'), o, d>>, Nothing)
    BY <1>2, <1>3, <1>4, <1>8
  <2>2. Runs(byOutputBuffer, State(m, <<>>, 0, queued, o), AtRest(dwLowPinsValue))
    BY <1>1, <1>2, StepOf
  <2>3. QED
    BY <1>1, <1>8, <2>1, <2>2 DEF Leads
<1>11. QED
  BY <1>1, <1>8, <1>9, <1>10 DEF RegistersInv

(* An access is staged, whole.                                             *)
LEMMA QueueKeeps ==
  ASSUME RegistersInv, QueueAccess
  PROVE  RegistersInv'
<1>1. PICK m \in Pinouts, due \in Nat, o \in Nat, d \in Nat : Leads(m, due, o, d)
  BY Zenon DEF RegistersInv
<1>2. TypedInv /\ ~dropped /\ steps # <<>> /\ Head(steps).op = "queue" /\ steps' = Tail(steps)
  BY Zenon DEF RegistersInv, QueueAccess, Step
<1> DEFINE a == Head(steps).access
           n == Len(byOutputBuffer)
           f == Frame(a)
<1>3. n \in Nat /\ Head(steps) \in Ops
      /\ Runs(byOutputBuffer, State(m, <<>>, 0, queued, o), AtRest(dwLowPinsValue))
  BY <1>1, <1>2, StepOf, Zenon
<1>4. PICK b \in Tallies : Works(Head(steps), n, o, d, b) /\ Does(Tail(steps), b, Nothing)
  BY <1>1, <1>2, StepOf, Zenon
<1>5. a \in Accesses
  BY <1>2, <1>3 DEF Ops
<1>6. n + Size(a) <= OUTPUT_BUFFER_SIZE /\ b = <<n + Size(a), o + a.in, d>>
  BY <1>2, <1>4 DEF Works
<1>7. a.in \in Nat /\ Size(a) \in Nat
  BY <1>5 DEF Accesses, Size
<1>8. dwLowPinsValue \in Pinouts /\ queued \in Seq(Accesses)
  BY <1>2 DEF TypedInv
<1>9. PICK w \in Pinouts : w = Pulled(TRUE)
  BY <1>8 DEF Pulled, Pinouts
<1>10. f \in Seq(Items) /\ Len(f) = Size(a)
       /\ Runs(f, State(dwLowPinsValue, <<>>, 0, <<a>>, a.in), AtRest(w))
  BY <1>5, <1>8, <1>9, FrameRuns, Zenon
<1>11. Stage(f) /\ dwLowPinsValue' = w /\ queued' = Append(queued, a)
       /\ UNCHANGED <<usb, pins, out, in, rx, entered, sent, strange>>
  BY <1>9 DEF QueueAccess, chip, Pulled
<1> HIDE DEF a, f
<1>12. n + Len(f) <= OUTPUT_BUFFER_SIZE
  BY <1>6, <1>10
<1>13. byOutputBuffer' = byOutputBuffer \o f /\ ~dropped' /\ byOutputBuffer' \in Seq(Items)
       /\ Len(byOutputBuffer') = n + Size(a)
  BY <1>2, <1>10, <1>11, <1>12, StageAll
<1>14. queued' = queued \o <<a>> /\ queued' \in Seq(Accesses) /\ <<a>> \in Seq(Accesses)
  BY <1>5, <1>8, <1>11
<1>15. Runs(byOutputBuffer \o f, State(m, <<>>, 0, queued \o <<a>>, o + a.in), AtRest(w))
  <2>1. <<>> \in Seq(Int) /\ 0 \in Nat
    BY EmptySeq
  <2>2. QED
    BY <1>3, <1>7, <1>8, <1>10, <1>14, <2>1, RunsOn, Zenon
<1>16. steps' \in Seq(Ops) /\ Does(steps', <<n + Size(a), o + a.in, d>>, Nothing)
  BY <1>2, <1>4, <1>6, PathTyped, Zenon DEF Does
<1>17. TypedInv'
  BY <1>2, <1>11, <1>13, <1>14, <1>16 DEF TypedInv
<1>18. w.high
  BY <1>9, <1>8 DEF Pulled, Pinouts
<1>19. PICK p \in Nat : p = o + a.in
  BY <1>7
<1>20. Leads(m, due, p, d)'
  <2>1. Does(steps', <<Len(byOutputBuffer'), p, d>>, Nothing)
    BY <1>13, <1>16, <1>19, Zenon
  <2>2. Runs(byOutputBuffer', State(m, <<>>, 0, queued', p), AtRest(dwLowPinsValue'))
    BY <1>11, <1>13, <1>14, <1>15, <1>19, Zenon
  <2>3. Runs(usb', State(pins', out', in', sent', due), AtRest(m)) /\ (entered' => d = rx' + due)
    BY <1>1, <1>11 DEF Leads
  <2>4. QED
    BY <2>1, <2>2, <2>3 DEF Leads
<1>21. ~strange' /\ dwLowPinsValue'.high
  BY <1>11, <1>18 DEF RegistersInv
<1>22. QED
  BY <1>13, <1>17, <1>20, <1>21 DEF RegistersInv

(* Bytes that select nothing are staged: a delay, or the one that makes    *)
(* the answer come at once.                                                *)
LEMMA StillKeeps ==
  ASSUME RegistersInv, steps # <<>>, steps' = Tail(steps),
         NEW f \in Seq(Items), Stage(f), byOutputBuffer # <<>>,
         Len(byOutputBuffer) + Len(f) <= OUTPUT_BUFFER_SIZE,
         Head(steps).op # "lines",
         dwLowPinsValue.high => Runs(f, AtRest(dwLowPinsValue), AtRest(dwLowPinsValue)),
         \A o, d \in Nat, b \in Tallies :
           Works(Head(steps), Len(byOutputBuffer), o, d, b) =>
             b = <<Len(byOutputBuffer) + Len(f), o, d>>,
         UNCHANGED <<dwLowPinsValue, chip, entered, queued, sent, strange>>
  PROVE  RegistersInv'
<1>1. PICK m \in Pinouts, due \in Nat, o \in Nat, d \in Nat : Leads(m, due, o, d)
  BY Zenon DEF RegistersInv
<1>2. TypedInv /\ ~dropped /\ ~strange /\ dwLowPinsValue.high
  BY Zenon DEF RegistersInv
<1> DEFINE n == Len(byOutputBuffer)
<1>3. n \in Nat
      /\ Runs(byOutputBuffer, State(m, <<>>, 0, queued, o), AtRest(dwLowPinsValue))
  BY <1>1, <1>2, StepOf, Zenon
<1>4. PICK b \in Tallies : Works(Head(steps), n, o, d, b) /\ Does(Tail(steps), b, Nothing)
  BY <1>1, <1>2, StepOf, Zenon
<1>5. b = <<n + Len(f), o, d>>
  BY <1>4
<1>6. byOutputBuffer' = byOutputBuffer \o f /\ ~dropped' /\ byOutputBuffer' \in Seq(Items)
      /\ Len(byOutputBuffer') = n + Len(f)
  BY <1>2, StageAll
<1>7. UNCHANGED <<dwLowPinsValue, usb, pins, out, in, rx, entered, queued, sent, strange>>
  BY DEF chip
<1>8. steps' \in Seq(Ops) /\ Does(steps', <<n + Len(f), o, d>>, Nothing)
  BY <1>4, <1>5, PathTyped, Zenon DEF Does
<1>9. Runs(byOutputBuffer \o f, State(m, <<>>, 0, queued, o), AtRest(dwLowPinsValue))
  BY <1>2, <1>3, PathConcat, Zenon DEF Runs
<1>10. TypedInv'
  BY <1>2, <1>6, <1>7, <1>8 DEF TypedInv
<1>11. Leads(m, due, o, d)'
  <2>1. Does(steps', <<Len(byOutputBuffer'), o, d>>, Nothing)
    BY <1>6, <1>8, Zenon
  <2>2. Runs(byOutputBuffer', State(m, <<>>, 0, queued', o), AtRest(dwLowPinsValue'))
    BY <1>6, <1>7, <1>9, Zenon
  <2>3. Runs(usb', State(pins', out', in', sent', due), AtRest(m)) /\ (entered' => d = rx' + due)
    BY <1>1, <1>7 DEF Leads
  <2>4. QED
    BY <2>1, <2>2, <2>3 DEF Leads
<1>12. QED
  BY <1>2, <1>6, <1>7, <1>10, <1>11 DEF RegistersInv

(* The delay after a page is asked for.                                    *)
LEMMA DelayKeeps ==
  ASSUME RegistersInv, XNANDQueueReadDelay
  PROVE  RegistersInv'
<1>1. PICK m \in Pinouts, due \in Nat, o \in Nat, d \in Nat : Leads(m, due, o, d)
  BY Zenon DEF RegistersInv
<1>2. TypedInv /\ steps # <<>> /\ Head(steps).op = "delay" /\ steps' = Tail(steps)
      /\ dwLowPinsValue \in Pinouts
  BY Zenon DEF RegistersInv, XNANDQueueReadDelay, Step, TypedInv
<1> DEFINE k == Head(steps).n
           n == Len(byOutputBuffer)
           f == DelayFrame(k)
<1>3. n \in Nat /\ Head(steps) \in Ops
  BY <1>1, <1>2, StepOf, Zenon
<1>4. PICK b \in Tallies : Works(Head(steps), n, o, d, b)
  BY <1>1, <1>2, StepOf, Zenon
<1>5. k \in Nat
  BY <1>2, <1>3 DEF Ops
<1>6. k <= MostClocked /\ n > 0 /\ n + DelaySize(k) <= OUTPUT_BUFFER_SIZE
  BY <1>2, <1>4 DEF Works
<1>7. \A x, y \in Nat, c \in Tallies :
        Works(Head(steps), n, x, y, c) => c = <<n + DelaySize(k), x, y>>
  BY <1>2 DEF Works
<1>8. Stage(f) /\ UNCHANGED <<dwLowPinsValue, chip, entered, queued, sent, strange>>
  BY DEF XNANDQueueReadDelay
<1>9. byOutputBuffer # <<>>
  BY <1>2, <1>3, <1>6, EmptySeq
<1>10. dwLowPinsValue.high
  BY <1>9 DEF RegistersInv
<1> HIDE DEF k, f
<1>11. Runs(f, AtRest(dwLowPinsValue), AtRest(dwLowPinsValue)) /\ Len(f) = DelaySize(k)
  BY <1>2, <1>5, <1>6, <1>10, DelayRuns, Zenon DEF MostClocked, DelaySize, f
<1>12. f \in Seq(Items)
  BY <1>11, PathTyped, Zenon DEF Runs
<1>13. QED
  BY <1>2, <1>6, <1>7, <1>8, <1>9, <1>11, <1>12, StillKeeps DEF n

(* The byte that makes the answer come at once.                            *)
LEMMA FastKeeps ==
  ASSUME RegistersInv, SetAnswerFast
  PROVE  RegistersInv'
<1>1. PICK m \in Pinouts, due \in Nat, o \in Nat, d \in Nat : Leads(m, due, o, d)
  BY Zenon DEF RegistersInv
<1>2. TypedInv /\ steps # <<>> /\ Head(steps).op = "fast" /\ steps' = Tail(steps)
      /\ dwLowPinsValue \in Pinouts
  BY Zenon DEF RegistersInv, SetAnswerFast, Step, TypedInv
<1> DEFINE n == Len(byOutputBuffer)
           f == <<SEND_IMMEDIATE>>
<1>3. n \in Nat
  BY <1>1, <1>2, StepOf, Zenon
<1>4. PICK b \in Tallies : Works(Head(steps), n, o, d, b)
  BY <1>1, <1>2, StepOf, Zenon
<1>5. n > 0 /\ n + 1 <= OUTPUT_BUFFER_SIZE
  BY <1>2, <1>4 DEF Works
<1>6. \A x, y \in Nat, c \in Tallies :
        Works(Head(steps), n, x, y, c) => c = <<n + 1, x, y>>
  BY <1>2 DEF Works
<1>7. Stage(f) /\ UNCHANGED <<dwLowPinsValue, chip, entered, queued, sent, strange>>
  BY DEF SetAnswerFast
<1>8. byOutputBuffer # <<>>
  BY <1>2, <1>3, <1>5, EmptySeq
<1>9. Runs(f, AtRest(dwLowPinsValue), AtRest(dwLowPinsValue))
  BY <1>2, FastRuns, Zenon
<1>10. Len(f) = 1
  OBVIOUS
<1>11. f \in Seq(Items)
  BY <1>9, PathTyped, Zenon DEF Runs
<1> HIDE DEF f
<1>12. QED
  BY <1>2, <1>5, <1>6, <1>7, <1>8, <1>9, <1>10, <1>11, StillKeeps DEF n

(* The buffer is sent.                                                     *)
LEMMA SendKeeps ==
  ASSUME RegistersInv, SendBytesToDevice
  PROVE  RegistersInv'
<1>1. PICK m \in Pinouts, due \in Nat, o \in Nat, d \in Nat : Leads(m, due, o, d)
  BY Zenon DEF RegistersInv
<1>2. TypedInv /\ steps # <<>> /\ Head(steps).op = "send" /\ steps' = Tail(steps)
      /\ ~strange /\ ~dropped
  BY Zenon DEF RegistersInv, SendBytesToDevice, Step
<1>3. /\ dwLowPinsValue \in Pinouts /\ pins \in Pinouts /\ out \in Seq(Int) /\ in \in Nat
      /\ sent \in Seq(Accesses) /\ queued \in Seq(Accesses) /\ usb \in Seq(Items)
      /\ byOutputBuffer \in Seq(Items) /\ rx \in Nat
  BY <1>2 DEF TypedInv
<1> DEFINE n == Len(byOutputBuffer)
<1>4. n \in Nat
      /\ Runs(byOutputBuffer, State(m, <<>>, 0, queued, o), AtRest(dwLowPinsValue))
  BY <1>1, <1>2, StepOf, Zenon
<1>5. PICK b \in Tallies : Works(Head(steps), n, o, d, b) /\ Does(Tail(steps), b, Nothing)
  BY <1>1, <1>2, StepOf, Zenon
<1>6. b = <<0, 0, d + o>>
  BY <1>2, <1>5 DEF Works
<1>7. /\ usb' = usb \o byOutputBuffer /\ byOutputBuffer' = <<>>
      /\ sent' = sent \o queued /\ queued' = <<>>
      /\ UNCHANGED <<dwLowPinsValue, pins, out, in, rx, entered, strange, dropped>>
  BY DEF SendBytesToDevice, FT_Write
<1>8. /\ usb \o byOutputBuffer \in Seq(Items) /\ sent \o queued \in Seq(Accesses)
      /\ <<>> \in Seq(Items) /\ <<>> \in Seq(Accesses)
  BY <1>3, ConcatProperties, EmptySeq
<1>9. steps' \in Seq(Ops) /\ Does(steps', <<0, 0, d + o>>, Nothing)
  BY <1>2, <1>5, <1>6, PathTyped, Zenon DEF Does
<1>10. PICK w \in Pinouts : w = dwLowPinsValue
  BY <1>3
<1>11. Runs(usb, State(pins, out, in, sent, due), AtRest(m))
  BY <1>1, Zenon DEF Leads
<1>12. Runs(usb \o byOutputBuffer, State(pins, out, in, sent \o queued, due + o), AtRest(w))
  BY <1>3, <1>4, <1>10, <1>11, RunsOn, Zenon
<1>13. PICK x \in Nat, y \in Nat : x = due + o /\ y = d + o
  OBVIOUS
<1>14. AtRest(w) \in Chips
  BY <1>8, EmptySeq, StateParts DEF AtRest
<1>15. Runs(<<>>, AtRest(w), AtRest(w))
  BY <1>14, PathNil, Zenon DEF Runs
<1>16. TypedInv'
  BY <1>2, <1>7, <1>8, <1>9 DEF TypedInv
<1>17. Leads(w, x, 0, y)'
  <2>1. Does(steps', <<Len(byOutputBuffer'), 0, y>>, Nothing)
    <3>1. Len(byOutputBuffer') = 0
      BY <1>7
    <3>2. QED
      BY <1>9, <1>13, <3>1, Zenon
  <2>2. Runs(byOutputBuffer', State(w, <<>>, 0, queued', 0), AtRest(dwLowPinsValue'))
    BY <1>7, <1>10, <1>15, Zenon DEF AtRest
  <2>3. Runs(usb', State(pins', out', in', sent', x), AtRest(w))
    BY <1>7, <1>12, <1>13, Zenon
  <2>4. entered' => y = rx' + x
    BY <1>1, <1>3, <1>7, <1>13 DEF Leads
  <2>5. QED
    BY <2>1, <2>2, <2>3, <2>4 DEF Leads
<1>18. 0 \in Nat
  OBVIOUS
<1>19. ~strange' /\ ~dropped' /\ byOutputBuffer' = <<>>
  BY <1>2, <1>7
<1>20. QED
  BY <1>16, <1>17, <1>18, <1>19 DEF RegistersInv

(* A reply is taken, or does not come and ends the session.                *)
LEMMA GetKeeps ==
  ASSUME RegistersInv, GetDataFromDevice \/ Throw
  PROVE  RegistersInv'
<1>1. PICK m \in Pinouts, due \in Nat, o \in Nat, d \in Nat : Leads(m, due, o, d)
  BY Zenon DEF RegistersInv
<1>2. TypedInv /\ steps # <<>> /\ Head(steps).op = "get" /\ ~strange /\ ~dropped
  BY Zenon DEF RegistersInv, GetDataFromDevice, Throw, Step
<1> DEFINE n == Len(byOutputBuffer)
           k == Head(steps).n
<1>3. n \in Nat /\ Head(steps) \in Ops /\ (n = 0 => byOutputBuffer = <<>>)
      /\ Runs(byOutputBuffer, State(m, <<>>, 0, queued, o), AtRest(dwLowPinsValue))
  BY <1>1, <1>2, StepOf, Zenon
<1>4. PICK b \in Tallies : Works(Head(steps), n, o, d, b) /\ Does(Tail(steps), b, Nothing)
  BY <1>1, <1>2, StepOf, Zenon
<1>5. n = 0 /\ k <= d /\ b = <<n, o, d - k>> /\ k \in Nat
  BY <1>2, <1>3, <1>4 DEF Works, Ops
<1>6. byOutputBuffer = <<>>
  BY <1>3, <1>5
<1>7. rx \in Nat
  BY <1>2 DEF TypedInv
<1>8. CASE GetDataFromDevice
  <2>1. /\ rx >= k /\ rx' = rx - k /\ steps' = Tail(steps)
        /\ UNCHANGED <<byOutputBuffer, dwLowPinsValue, usb, pins, out, in, entered,
                       queued, sent, strange, dropped>>
    BY <1>8 DEF GetDataFromDevice, Step, history
  <2>2. rx' \in Nat
    BY <1>5, <1>7, <2>1
  <2>3. PICK y \in Nat : y = d - k
    BY <1>5
  <2>4. steps' \in Seq(Ops) /\ Does(steps', <<n, o, y>>, Nothing)
    BY <1>4, <1>5, <2>1, <2>3, PathTyped, Zenon DEF Does
  <2>5. TypedInv'
    BY <1>2, <2>1, <2>2, <2>4 DEF TypedInv
  <2>6. entered' => y = rx' + due
    BY <1>1, <1>5, <1>7, <2>1, <2>3 DEF Leads
  <2>7. Leads(m, due, o, y)'
    BY <1>1, <1>3, <2>1, <2>4, <2>6 DEF Leads
  <2>8. QED
    BY <1>2, <1>6, <2>1, <2>5, <2>7 DEF RegistersInv
<1>9. CASE Throw
  <2>1. /\ steps' = <<>> /\ ~entered' /\ entered' \in BOOLEAN
        /\ UNCHANGED <<byOutputBuffer, dwLowPinsValue, usb, pins, out, in, rx,
                       queued, sent, strange, dropped>>
    BY <1>9 DEF Throw, history, chip
  <2>2. o = 0
    BY <1>1, <1>6, EmptyBuffer
  <2>3. Nothing \in Tallies /\ Len(byOutputBuffer') = 0 /\ <<>> \in Seq(Ops)
    BY <1>5, <2>1, EmptySeq DEF Nothing, Tallies
  <2>4. Does(<<>>, Nothing, Nothing)
    BY <2>3, PathNil, Zenon DEF Does
  <2>5. Does(steps', <<Len(byOutputBuffer'), o, 0>>, Nothing)
    BY <2>1, <2>2, <2>3, <2>4, Zenon DEF Nothing
  <2>6. TypedInv'
    BY <1>2, <2>1, <2>3 DEF TypedInv
  <2>7. Leads(m, due, o, 0)'
    BY <1>1, <1>3, <2>1, <2>5 DEF Leads
  <2>8. 0 \in Nat
    OBVIOUS
  <2>9. QED
    BY <1>2, <1>6, <2>1, <2>6, <2>7, <2>8 DEF RegistersInv
<1>10. QED
  BY <1>8, <1>9

(* The lines and the chip select are set: what is sent leads there.        *)
LEMMA PinsKeep ==
  ASSUME RegistersInv, steps # <<>>, Head(steps).op \in {"lines", "cs"}, steps' = Tail(steps),
         NEW p \in Pinouts, SetPins(p)
  PROVE  RegistersInv'
<1>1. PICK m \in Pinouts, due \in Nat, o \in Nat, d \in Nat : Leads(m, due, o, d)
  BY Zenon DEF RegistersInv
<1>2. TypedInv /\ ~strange /\ ~dropped
  BY Zenon DEF RegistersInv
<1>3. /\ dwLowPinsValue \in Pinouts /\ pins \in Pinouts /\ out \in Seq(Int) /\ in \in Nat
      /\ sent \in Seq(Accesses) /\ usb \in Seq(Items) /\ rx \in Nat
  BY <1>2 DEF TypedInv
<1> DEFINE n == Len(byOutputBuffer)
           f == <<SET_LOW_BYTE_DATA_BITS, p, LinePins>>
<1>4. n \in Nat /\ (n = 0 => byOutputBuffer = <<>>)
  BY <1>1, <1>2, StepOf, Zenon
<1>5. PICK b \in Tallies : Works(Head(steps), n, o, d, b) /\ Does(Tail(steps), b, Nothing)
  BY <1>1, <1>2, StepOf, Zenon
<1>6. n = 0 /\ b = <<n, o, d>>
  BY <1>5 DEF Works
<1>7. o = 0
  BY <1>1, <1>4, <1>6, EmptyBuffer, Zenon
<1>8. /\ usb' = usb \o f /\ byOutputBuffer' = <<>> /\ queued' = <<>> /\ dwLowPinsValue' = p
      /\ UNCHANGED <<pins, out, in, rx, entered, sent, strange, dropped>>
  BY DEF SetPins, FT_Write
<1>9. <<>> \in Seq(Int) /\ <<>> \in Seq(Items) /\ <<>> \in Seq(Accesses) /\ 0 \in Nat
  BY EmptySeq
<1> DEFINE c == AtRest(m)
           e == AtRest(p)
<1>10. /\ c \in Chips /\ c.pins = m /\ c.out = <<>> /\ c.in = 0 /\ c.accs = <<>> /\ c.left = 0
  BY <1>9 DEF AtRest, State, Chips
<1>11. /\ e \in Chips /\ e.pins = p /\ e.out = <<>> /\ e.in = 0 /\ e.accs = <<>> /\ e.left = 0
  BY <1>9 DEF AtRest, State, Chips
<1>12. AccessPins # LinePins
  BY DEF AccessPins, LinePins
<1> HIDE DEF c, e
<1>13. SetsPins(f, c, e)
  BY <1>10, <1>11, <1>12, Zenon DEF SetsPins
<1>14. f \in Seq(Items)
  BY CommandBytes DEF LinePins
<1> HIDE DEF f
<1>15. Runs(f, AtRest(m), AtRest(p))
  BY <1>10, <1>11, <1>13, <1>14, RunsOne DEF Moves, c, e
<1>16. Runs(usb \o f, State(pins, out, in, sent, due), AtRest(p))
  BY <1>1, <1>3, <1>15, RunsOn, Zenon DEF Leads
<1>17. Runs(<<>>, AtRest(p), AtRest(p))
  BY <1>11, PathNil, Zenon DEF Runs, e
<1>18. usb \o f \in Seq(Items)
  BY <1>3, <1>14, ConcatProperties
<1>19. steps' \in Seq(Ops) /\ Does(steps', <<0, 0, d>>, Nothing)
  BY <1>5, <1>6, <1>7, PathTyped, Zenon DEF Does
<1>20. TypedInv'
  BY <1>2, <1>8, <1>9, <1>18, <1>19 DEF TypedInv
<1>21. Leads(p, due, 0, d)'
  <2>1. Does(steps', <<Len(byOutputBuffer'), 0, d>>, Nothing)
    <3>1. Len(byOutputBuffer') = 0
      BY <1>8
    <3>2. QED
      BY <1>19, <3>1, Zenon
  <2>2. Runs(byOutputBuffer', State(p, <<>>, 0, queued', 0), AtRest(dwLowPinsValue'))
    BY <1>8, <1>17, Zenon DEF AtRest
  <2>3. Runs(usb', State(pins', out', in', sent', due), AtRest(p))
    BY <1>8, <1>16, Zenon
  <2>4. entered' => d = rx' + due
    BY <1>1, <1>8 DEF Leads
  <2>5. QED
    BY <2>1, <2>2, <2>3, <2>4 DEF Leads
<1>22. ~strange' /\ ~dropped' /\ byOutputBuffer' = <<>>
  BY <1>2, <1>8
<1>23. QED
  BY <1>9, <1>20, <1>21, <1>22 DEF RegistersInv

(* spi_setGPIO and spi_SetCS.                                              *)
LEMMA LinesKeep ==
  ASSUME RegistersInv, spi_setGPIO \/ spi_SetCS
  PROVE  RegistersInv'
<1>1. PICK m \in Pinouts, due \in Nat, o \in Nat, d \in Nat : Leads(m, due, o, d)
  BY Zenon DEF RegistersInv
<1>2. TypedInv /\ steps # <<>> /\ Head(steps).op \in {"lines", "cs"} /\ steps' = Tail(steps)
  BY Zenon DEF RegistersInv, spi_setGPIO, spi_SetCS, Step
<1>3. dwLowPinsValue \in Pinouts /\ Head(steps) \in Ops
  BY <1>1, <1>2, StepOf, Zenon DEF TypedInv
<1>4. CASE spi_setGPIO
  <2>1. PICK p \in Pinouts : p = [dwLowPinsValue EXCEPT !.lines = Head(steps).lines]
    <3>1. Head(steps).lines \in Lines
      BY <1>3, <1>4 DEF Ops, spi_setGPIO, Step
    <3>2. QED
      BY <1>3, <3>1 DEF Pinouts
  <2>2. SetPins(p)
    BY <1>4, <2>1, Zenon DEF spi_setGPIO
  <2>3. QED
    BY <1>2, <2>2, PinsKeep
<1>5. CASE spi_SetCS
  <2>1. PICK p \in Pinouts : p = [dwLowPinsValue EXCEPT !.high = Head(steps).high]
    <3>1. Head(steps).high \in BOOLEAN
      BY <1>3, <1>5 DEF Ops, spi_SetCS, Step
    <3>2. QED
      BY <1>3, <3>1 DEF Pinouts
  <2>2. SetPins(p)
    BY <1>5, <2>1, Zenon DEF spi_SetCS
  <2>3. QED
    BY <1>2, <2>2, PinsKeep
<1>6. QED
  BY <1>4, <1>5

(* A session is opened, or a function of a driver called.                  *)
LEMMA OpenKeeps ==
  ASSUME RegistersInv, Open \/ Run
  PROVE  RegistersInv'
<1>1. PICK m \in Pinouts, due \in Nat, o \in Nat, d \in Nat : Leads(m, due, o, d)
  BY Zenon DEF RegistersInv
<1>2. TypedInv /\ steps = <<>> /\ ~strange /\ ~dropped
  BY Zenon DEF RegistersInv, Open, Run, Idle
<1>3. Len(byOutputBuffer) \in Nat /\ (Len(byOutputBuffer) = 0 => byOutputBuffer = <<>>)
      /\ rx \in Nat /\ dwLowPinsValue \in Pinouts
  BY <1>2, LenProperties, EmptySeq DEF TypedInv
<1>4. Does(<<>>, <<Len(byOutputBuffer), o, d>>, Nothing)
  BY <1>1, <1>2, Zenon DEF Leads
<1>5. Len(byOutputBuffer) = 0 /\ d = 0
  BY <1>3, <1>4, WorkerNext, Zenon
<1>6. byOutputBuffer = <<>>
  BY <1>3, <1>5
<1>7. queued = <<>> /\ o = 0
  BY <1>1, <1>6, EmptyBuffer
<1>8. <<>> \in Seq(Int) /\ <<>> \in Seq(Items) /\ <<>> \in Seq(Accesses) /\ 0 \in Nat
  BY EmptySeq
<1>9. CASE Open
  <2>1. /\ steps' = XSPIEnterFlashMode /\ usb' = <<>> /\ out' = <<>> /\ in' = 0 /\ rx' = 0
        /\ entered' = TRUE /\ sent' = <<>>
        /\ pins' = [high |-> TRUE, lines |-> <<FALSE, FALSE>>]
        /\ UNCHANGED <<byOutputBuffer, dwLowPinsValue, queued, strange, dropped>>
    BY <1>9 DEF Open
  <2>2. PICK p \in Pinouts : p = [high |-> TRUE, lines |-> <<FALSE, FALSE>>]
    BY DEF Pinouts, Lines
  <2>3. AtRest(p) \in Chips
    BY <1>8, StateParts, Zenon DEF AtRest
  <2>4. Runs(usb', State(pins', out', in', sent', 0), AtRest(p))
    <3>1. Runs(<<>>, AtRest(p), AtRest(p))
      BY <2>3, PathNil, Zenon DEF Runs
    <3>2. QED
      BY <2>1, <2>2, <3>1, Zenon DEF AtRest
  <2>5. steps' \in Seq(Ops) /\ Does(steps', <<0, 0, 0>>, Nothing)
    <3>1. Does(XSPIEnterFlashMode, Nothing, Nothing)
      BY EnterDoes
    <3>2. QED
      BY <2>1, <3>1, PathTyped, Zenon DEF Does, Nothing
  <2>6. TypedInv'
    <3>1. pins' \in Pinouts
      BY <2>1, <2>2
    <3>2. QED
      BY <1>2, <1>8, <2>1, <2>5, <3>1, Zenon DEF TypedInv
  <2>7. Leads(p, o, o, o)'
    <3>1. Does(steps', <<Len(byOutputBuffer'), o, o>>, Nothing)
      BY <1>5, <1>7, <2>1, <2>5, Zenon
    <3>2. Unset(o)'
      <4>1. byOutputBuffer' = <<>> /\ queued' = <<>>
        BY <1>6, <1>7, <2>1
      <4>2. QED
        BY <1>7, <2>1, <4>1 DEF Unset
    <3>3. Runs(usb', State(pins', out', in', sent', o), AtRest(p))
      BY <1>7, <2>4, Zenon
    <3>4. o = rx' + o
      BY <1>7, <2>1
    <3>5. QED
      BY <3>1, <3>2, <3>3, <3>4, Zenon DEF Leads
  <2>8. ~strange' /\ ~dropped' /\ byOutputBuffer' = <<>>
    BY <1>2, <1>6, <2>1
  <2>9. QED
    BY <1>8, <2>6, <2>7, <2>8 DEF RegistersInv
<1>10. CASE Run
  <2>1. PICK w \in Words : steps' \in Functions(w)
    BY <1>10, Zenon DEF Run
  <2>2. entered
        /\ UNCHANGED <<byOutputBuffer, dwLowPinsValue, usb, pins, out, in, rx, entered,
                       queued, sent, strange, dropped>>
    BY <1>10 DEF Run, chip, history
  <2>3. Does(steps', Nothing, Nothing)
    BY <2>1, FunctionsDo, Zenon
  <2>4. steps' \in Seq(Ops) /\ Does(steps', <<Len(byOutputBuffer'), o, d>>, Nothing)
    <3>1. Len(byOutputBuffer') = 0
      BY <1>5, <2>2
    <3>2. QED
      BY <1>5, <1>7, <2>3, <3>1, PathTyped, Zenon DEF Does, Nothing
  <2>5. TypedInv'
    BY <1>2, <2>2, <2>4 DEF TypedInv
  <2>6. ~Unset(o)
    <3>1. XSPIEnterFlashMode # <<>>
      BY EnterDoes
    <3>2. QED
      BY <1>2, <2>2, <3>1, Zenon DEF Unset
  <2>7. Runs(byOutputBuffer, State(m, <<>>, 0, queued, o), AtRest(dwLowPinsValue))
    BY <1>1, <2>6, Zenon DEF Leads
  <2>8. Leads(m, due, o, d)'
    BY <1>1, <2>2, <2>4, <2>7 DEF Leads
  <2>9. QED
    BY <1>2, <1>6, <2>2, <2>5, <2>8 DEF RegistersInv
<1>11. QED
  BY <1>9, <1>10

(* The front of what the chip has to execute.                              *)
LEMMA FrontOf ==
  ASSUME NEW cmd \in Seq(Items), NEW rest \in Seq(Items)
  PROVE  /\ \A i \in 1 .. Len(cmd) : (cmd \o rest)[i] = cmd[i]
         /\ cmd # <<>> => Head(cmd \o rest) = cmd[1]
         /\ SubSeq(cmd \o rest, Len(cmd) + 1, Len(cmd \o rest)) = rest
<1> DEFINE u == cmd \o rest
           k == Len(cmd)
           l == Len(rest)
<1>1. k \in Nat /\ l \in Nat /\ (cmd # <<>> => k > 0)
  BY LenProperties, EmptySeq
<1>2. /\ u \in Seq(Items) /\ Len(u) = k + l
      /\ \A i \in 1 .. (k + l) : u[i] = IF i <= k THEN cmd[i] ELSE rest[i - k]
  BY ConcatProperties
<1>3. l = Len(rest) /\ rest \in Seq(Items)
  OBVIOUS
<1> HIDE DEF u, k, l
<1>4. \A i \in 1 .. k : u[i] = cmd[i]
  BY <1>1, <1>2
<1>5. cmd # <<>> => Head(u) = cmd[1]
  <2>1. ASSUME cmd # <<>> PROVE Head(u) = u[1] /\ u[1] = cmd[1]
    BY <2>1, <1>1, <1>2, EmptySeq
  <2>2. QED
    BY <2>1
<1> DEFINE v == SubSeq(u, k + 1, k + l)
<1>6. /\ v \in Seq(Items) /\ Len(v) = l
      /\ \A i \in 1 .. l : v[i] = u[k + i]
  BY <1>1, <1>2
<1> HIDE DEF v
<1>7. ASSUME NEW i \in 1 .. l PROVE v[i] = rest[i]
  <2>1. k + i \in 1 .. (k + l) /\ ~(k + i <= k) /\ (k + i) - k = i
    BY <1>1
  <2>2. QED
    BY <1>2, <1>6, <2>1
<1>8. v = rest
  BY <1>3, <1>6, <1>7, SeqEqual
<1>9. QED
  BY <1>2, <1>4, <1>5, <1>8 DEF u, k, v

(* What the chip executes is the next of the commands, as it was sent.     *)
LEMMA NextCommand ==
  ASSUME TypedInv, Execute, NEW cmd \in Seq(Items), NEW rest \in Seq(Items), cmd # <<>>,
         usb = cmd \o rest
  PROVE  /\ cmd[1] = SET_LOW_BYTE_DATA_BITS => Pins
         /\ cmd[1] = CLK_DATA_BYTES_OUT =>
              Clocked(3 + Length(usb[2], usb[3]), SubSeq(usb, 4, 3 + Length(usb[2], usb[3])))
         /\ cmd[1] = CLK_DATA_BITS_OUT => Clocked(3, IF usb[2] = 7 THEN <<usb[3]>> ELSE <<-1>>)
         /\ cmd[1] = CLK_DATA_BYTES_IN => Sampled(3, Length(usb[2], usb[3]))
         /\ cmd[1] = CLK_DATA_BITS_IN => Sampled(2, 1)
         /\ cmd[1] = SEND_IMMEDIATE => Clocked(1, <<>>)
<1>1. Head(usb) = cmd[1]
  BY FrontOf
<1> DEFINE k == cmd[1]
           n == 3 + Length(usb[2], usb[3])
           s == SubSeq(usb, 4, n)
           b == IF usb[2] = 7 THEN <<usb[3]>> ELSE <<-1>>
           l == Length(usb[2], usb[3])
           P == Pins
           A == Clocked(n, s)
           B == Clocked(3, b)
           C == Sampled(3, l)
           D == Sampled(2, 1)
           E == Clocked(1, <<>>)
<1>2. \/ k = SET_LOW_BYTE_DATA_BITS /\ P
      \/ k = CLK_DATA_BYTES_OUT /\ A
      \/ k = CLK_DATA_BITS_OUT /\ B
      \/ k = CLK_DATA_BYTES_IN /\ C
      \/ k = CLK_DATA_BITS_IN /\ D
      \/ k = SEND_IMMEDIATE /\ E
  BY <1>1, Zenon DEF Execute, Pins
<1> HIDE DEF k, P, A, B, C, D, E
<1>3. /\ k = SET_LOW_BYTE_DATA_BITS => P
      /\ k = CLK_DATA_BYTES_OUT => A
      /\ k = CLK_DATA_BITS_OUT => B
      /\ k = CLK_DATA_BYTES_IN => C
      /\ k = CLK_DATA_BITS_IN => D
      /\ k = SEND_IMMEDIATE => E
  BY <1>2 DEF SET_LOW_BYTE_DATA_BITS, CLK_DATA_BYTES_OUT, CLK_DATA_BITS_OUT, CLK_DATA_BYTES_IN,
              CLK_DATA_BITS_IN, SEND_IMMEDIATE
<1>4. QED
  BY <1>3, Zenon DEF k, P, A, B, C, D, E

(* It leaves the chip on the way to where the commands lead, with the      *)
(* replies that came and those that are due the same in all.               *)
Went(rest, d, due) ==
  /\ usb' = rest
  /\ pins' = d.pins /\ out' = d.out /\ in' = d.in /\ sent' = d.accs
  /\ rx' + d.left = rx + due /\ rx' \in Nat
  /\ ~strange'

(* What comes next when the chip select rises: the access that was first,  *)
(* as it was sent, is done.                                                *)
Settled(p, d) ==
  IF ~pins.high /\ p.high /\ out # <<>>
  THEN sent # <<>> /\ DecodedFrom(out, in) = Head(sent) /\ d.accs = Tail(sent)
  ELSE d.accs = sent

(* The pins are set.                                                       *)
LEMMA ExecutePins ==
  ASSUME TypedInv, ~strange, Pins, NEW due \in Nat, NEW d \in Chips,
         NEW p \in Pinouts, NEW dir, NEW cmd \in Seq(Items), NEW rest \in Seq(Items),
         cmd = <<SET_LOW_BYTE_DATA_BITS, p, dir>>, usb = cmd \o rest,
         d.pins = p, d.out = <<>>, d.in = 0, d.left = due,
         Settled(p, d)
  PROVE  Went(rest, d, due)
<1>1. Len(cmd) = 3 /\ cmd[2] = p /\ cmd[3] = dir
  OBVIOUS
<1>2. usb[2] = p /\ usb[3] = dir /\ SubSeq(usb, 4, Len(usb)) = rest
  <2>1. /\ \A i \in 1 .. Len(cmd) : (cmd \o rest)[i] = cmd[i]
        /\ SubSeq(cmd \o rest, Len(cmd) + 1, Len(cmd \o rest)) = rest
    BY <1>1, FrontOf, Zenon
  <2>2. 2 \in 1 .. 3 /\ 3 \in 1 .. 3 /\ 3 + 1 = 4
    OBVIOUS
  <2>3. QED
    BY <1>1, <2>1, <2>2, Zenon
<1>3. /\ usb' = SubSeq(usb, 4, Len(usb)) /\ pins' = usb[2] /\ out' = <<>> /\ in' = 0 /\ rx' = rx
      /\ IF ~pins.high /\ usb[2].high /\ out # <<>>
         THEN /\ strange' = (strange \/ sent = <<>> \/ DecodedFrom(out, in) # Head(sent))
              /\ sent' = IF sent = <<>> THEN sent ELSE Tail(sent)
         ELSE UNCHANGED <<strange, sent>>
  BY DEF Pins, Decoded, DecodedFrom
<1>4. rx \in Nat /\ rx' + d.left = rx + due /\ rx' \in Nat
  BY <1>3 DEF TypedInv
<1>5. CASE ~pins.high /\ p.high /\ out # <<>>
  <2>1. sent # <<>> /\ DecodedFrom(out, in) = Head(sent) /\ d.accs = Tail(sent)
    BY <1>5, Zenon DEF Settled
  <2>2. strange' = (strange \/ sent = <<>> \/ DecodedFrom(out, in) # Head(sent))
        /\ sent' = IF sent = <<>> THEN sent ELSE Tail(sent)
    BY <1>2, <1>3, <1>5, Zenon
  <2>3. ~strange' /\ sent' = d.accs
    BY <2>1, <2>2, Zenon
  <2>4. QED
    BY <1>2, <1>3, <1>4, <2>3, Zenon DEF Went
<1>6. CASE ~(~pins.high /\ p.high /\ out # <<>>)
  <2>1. d.accs = sent
    BY <1>6, Zenon DEF Settled
  <2>2. UNCHANGED <<strange, sent>>
    BY <1>2, <1>3, <1>6, Zenon
  <2>3. ~strange' /\ sent' = d.accs
    BY <2>1, <2>2
  <2>4. QED
    BY <1>2, <1>3, <1>4, <2>3, Zenon DEF Went
<1>7. QED
  BY <1>5, <1>6

(* Something is clocked out, or in.                                        *)
LEMMA ExecuteClock ==
  ASSUME TypedInv, ~strange, NEW due \in Nat, NEW d \in Chips,
         NEW cmd \in Seq(Items), NEW rest \in Seq(Items), usb = cmd \o rest,
         d.pins = pins, d.accs = sent
  PROVE  /\ \A s : /\ Clocked(Len(cmd), s) /\ d.in = in /\ d.left = due /\ rx' = rx
                   /\ d.out = IF pins.high THEN out ELSE out \o s
                   => Went(rest, d, due)
         /\ \A k \in Nat : /\ Sampled(Len(cmd), k) /\ d.out = out
                           /\ d.in = in + k /\ due = d.left + k
                           => Went(rest, d, due)
<1>1. rx \in Nat /\ d.left \in Nat
  BY DEF TypedInv, Chips
<1>2. SubSeq(usb, Len(cmd) + 1, Len(usb)) = rest
  BY FrontOf, Zenon
<1>3. ASSUME NEW s, Clocked(Len(cmd), s), d.in = in, d.left = due, rx' = rx,
             d.out = IF pins.high THEN out ELSE out \o s
      PROVE  Went(rest, d, due)
  <2>1. /\ usb' = SubSeq(usb, Len(cmd) + 1, Len(usb))
        /\ out' = IF pins.high THEN out ELSE out \o s
        /\ UNCHANGED <<pins, in, rx, sent, strange>>
    BY <1>3, Zenon DEF Clocked
  <2>2. pins' = pins /\ in' = in /\ rx' = rx /\ sent' = sent /\ strange' = strange
    BY <2>1
  <2>3. rx' + d.left = rx + due /\ rx' \in Nat
    BY <1>1, <1>3, <2>2
  <2>4. usb' = rest /\ pins' = d.pins /\ out' = d.out /\ in' = d.in /\ sent' = d.accs /\ ~strange'
    BY <1>2, <1>3, <2>1, <2>2
  <2>5. QED
    BY <2>3, <2>4, Zenon DEF Went
<1>4. ASSUME NEW k \in Nat, Sampled(Len(cmd), k), d.out = out, d.in = in + k, due = d.left + k
      PROVE  Went(rest, d, due)
  <2>1. /\ usb' = SubSeq(usb, Len(cmd) + 1, Len(usb)) /\ in' = in + k /\ rx' = rx + k
        /\ UNCHANGED <<pins, out, sent, strange>>
    BY <1>4, Zenon DEF Sampled
  <2>2. pins' = pins /\ out' = out /\ sent' = sent /\ strange' = strange
    BY <2>1
  <2>3. rx' + d.left = rx + due /\ rx' \in Nat
    BY <1>1, <1>4, <2>1
  <2>4. usb' = rest /\ pins' = d.pins /\ out' = d.out /\ in' = d.in /\ sent' = d.accs /\ ~strange'
    BY <1>2, <1>4, <2>1, <2>2
  <2>5. QED
    BY <2>3, <2>4, Zenon DEF Went
<1>5. QED
  BY <1>3, <1>4, Zenon

(* What a command that clocks out bytes is made of.                        *)
LEMMA BytesOf ==
  ASSUME NEW h \in Seq(Items), Len(h) = 3, NEW s \in Seq(Items), NEW rest \in Seq(Items)
  PROVE  LET u == (h \o s) \o rest IN
         /\ h \o s \in Seq(Items) /\ Len(h \o s) = 3 + Len(s) /\ h \o s # <<>>
         /\ u[2] = h[2] /\ u[3] = h[3] /\ (h \o s)[1] = h[1]
         /\ SubSeq(u, 4, 3 + Len(s)) = s
<1> DEFINE c == h \o s
           u == c \o rest
           l == Len(s)
           k == Len(rest)
<1>1. l \in Nat /\ k \in Nat /\ l = Len(s)
  BY LenProperties
<1>2. /\ c \in Seq(Items) /\ Len(c) = 3 + l
      /\ \A i \in 1 .. (3 + l) : c[i] = IF i <= 3 THEN h[i] ELSE s[i - 3]
  <2>1. /\ c \in Seq(Items) /\ Len(c) = Len(h) + Len(s)
        /\ \A i \in 1 .. Len(h) + Len(s) : c[i] = IF i <= Len(h) THEN h[i] ELSE s[i - Len(h)]
    BY ConcatProperties, Zenon
  <2> HIDE DEF c
  <2>2. QED
    BY <2>1
<1> HIDE DEF c, l
<1>3. /\ u \in Seq(Items) /\ Len(u) = 3 + l + k
      /\ \A i \in 1 .. (3 + l + k) : u[i] = IF i <= 3 + l THEN c[i] ELSE rest[i - (3 + l)]
  <2>1. /\ u \in Seq(Items) /\ Len(u) = Len(c) + Len(rest)
        /\ \A i \in 1 .. Len(c) + Len(rest) : u[i] = IF i <= Len(c) THEN c[i] ELSE rest[i - Len(c)]
    BY <1>2, ConcatProperties, Zenon
  <2> HIDE DEF u
  <2>2. QED
    BY <1>2, <2>1
<1> HIDE DEF u, k
<1> DEFINE v == SubSeq(u, 4, 3 + l)
<1>4. v \in Seq(Items) /\ Len(v) = l /\ \A i \in 1 .. l : v[i] = u[3 + i]
  BY <1>1, <1>3
<1> HIDE DEF v
<1>5. ASSUME NEW i \in 1 .. l PROVE v[i] = s[i]
  <2>1. /\ 3 + i \in 1 .. (3 + l + k) /\ 3 + i \in 1 .. (3 + l) /\ 3 + i <= 3 + l
        /\ ~(3 + i <= 3) /\ (3 + i) - 3 = i
    BY <1>1
  <2>2. QED
    BY <1>2, <1>3, <1>4, <2>1
<1>6. v = s
  BY <1>1, <1>4, <1>5, SeqEqual
<1>7. c # <<>>
  BY <1>1, <1>2, EmptySeq
<1>8. u[2] = h[2] /\ u[3] = h[3] /\ c[1] = h[1]
  BY <1>1, <1>2, <1>3
<1>9. QED
  BY <1>2, <1>6, <1>7, <1>8, Zenon DEF c, u, l, v

(* Whatever it executes; and an access leaves the lines as they are.       *)
LEMMA ExecuteWent ==
  ASSUME TypedInv, ~strange, Execute, NEW m, NEW due \in Nat,
         Runs(usb, State(pins, out, in, sent, due), AtRest(m))
  PROVE  /\ \E d \in Chips : Runs(usb', d, AtRest(m)) /\ Went(usb', d, due)
         /\ usb[1] = SET_LOW_BYTE_DATA_BITS /\ usb[3] = AccessPins => pins'.lines = pins.lines
<1> DEFINE c == State(pins, out, in, sent, due)
<1>1. /\ pins \in Pinouts /\ out \in Seq(Int) /\ in \in Nat /\ sent \in Seq(Accesses)
      /\ usb # <<>>
  BY DEF TypedInv, Execute
<1>2. c.pins = pins /\ c.out = out /\ c.in = in /\ c.accs = sent /\ c.left = due
  BY <1>1, StateParts
<1>3. PICK cmd \in Seq(Items), rest \in Seq(Items), d \in Chips :
        usb = cmd \o rest /\ Moves(cmd, c, d) /\ Runs(rest, d, AtRest(m))
  <2>1. Takes(usb, c, AtRest(m))
    BY <1>1, ChipNext, Zenon
  <2>2. QED
    BY <2>1, Zenon DEF Takes
<1> HIDE DEF c
<1>4. cmd # <<>>
  BY <1>3, CommandNotEmpty, Zenon
<1>5. usb[1] = cmd[1]
  BY <1>3, <1>4, FrontOf, LenProperties, EmptySeq
<1>6. CASE SetsPins(cmd, c, d)
  <2>1. PICK p \in Pinouts, dir \in {AccessPins, LinePins} :
          /\ cmd = <<SET_LOW_BYTE_DATA_BITS, p, dir>>
          /\ dir = AccessPins => p.lines = c.pins.lines
          /\ d.pins = p /\ d.out = <<>> /\ d.in = 0 /\ d.left = c.left
          /\ IF ~c.pins.high /\ p.high /\ c.out # <<>>
             THEN /\ c.accs # <<>> /\ DecodedFrom(c.out, c.in) = Head(c.accs)
                  /\ d.accs = Tail(c.accs)
             ELSE d.accs = c.accs
    BY <1>6, Zenon DEF SetsPins
  <2>2. cmd[1] = SET_LOW_BYTE_DATA_BITS
    BY <2>1
  <2>3. Pins
    BY <1>3, <1>4, <2>2, NextCommand, Zenon
  <2>4. d.left = due /\ Settled(p, d)
    BY <1>2, <2>1, Zenon DEF Settled
  <2>5. Went(rest, d, due) /\ usb[3] = dir
    <3>1. /\ cmd = <<SET_LOW_BYTE_DATA_BITS, p, dir>> /\ usb = cmd \o rest
          /\ d.pins = p /\ d.out = <<>> /\ d.in = 0
      BY <1>3, <2>1, Zenon
    <3>2. Went(rest, d, due)
      BY <2>3, <2>4, <3>1, ExecutePins, Zenon
    <3>3. Len(cmd) = 3 /\ cmd[3] = dir /\ 3 \in 1 .. 3
      BY <3>1
    <3>4. usb[3] = dir
      BY <1>3, <3>3, FrontOf, Zenon
    <3>5. QED
      BY <3>2, <3>4
  <2>6. usb[3] = AccessPins => pins'.lines = pins.lines
    BY <1>2, <2>1, <2>5, Zenon DEF Went
  <2>7. usb' = rest
    BY <2>5, Zenon DEF Went
  <2>8. QED
    BY <1>3, <2>5, <2>6, <2>7, Zenon
<1>7. ASSUME cmd[1] # SET_LOW_BYTE_DATA_BITS, Went(rest, d, due)
      PROVE  /\ \E e \in Chips : Runs(usb', e, AtRest(m)) /\ Went(usb', e, due)
             /\ usb[1] = SET_LOW_BYTE_DATA_BITS /\ usb[3] = AccessPins => pins'.lines = pins.lines
  <2>1. usb' = rest
    BY <1>7, Zenon DEF Went
  <2>2. QED
    BY <1>3, <1>5, <1>7, <2>1, Zenon
<1>8. CASE BytesOut(cmd, c, d)
  <2>1. PICK n \in Octets, k \in Octets, s \in Seq(Int) :
          /\ cmd = <<CLK_DATA_BYTES_OUT, n, k>> \o s
          /\ Len(s) = Length(n, k)
          /\ d.pins = c.pins /\ d.in = c.in /\ d.accs = c.accs /\ d.left = c.left
          /\ d.out = IF c.pins.high THEN c.out ELSE c.out \o s
    BY <1>8, Zenon DEF BytesOut
  <2> DEFINE h == <<CLK_DATA_BYTES_OUT, n, k>>
  <2>2. /\ h \in Seq(Items) /\ Len(h) = 3 /\ s \in Seq(Items)
        /\ h[1] = CLK_DATA_BYTES_OUT /\ h[2] = n /\ h[3] = k
    BY CommandBytes DEF CLK_DATA_BYTES_OUT, Octets
  <2> HIDE DEF h
  <2>3. cmd = h \o s /\ usb = (h \o s) \o rest
    BY <1>3, <2>1 DEF h
  <2>4. /\ Len(cmd) = 3 + Length(n, k) /\ cmd[1] = CLK_DATA_BYTES_OUT
        /\ usb[2] = n /\ usb[3] = k /\ SubSeq(usb, 4, 3 + Length(n, k)) = s
    <3>1. /\ Len(h \o s) = 3 + Len(s) /\ (h \o s)[1] = h[1]
          /\ ((h \o s) \o rest)[2] = h[2] /\ ((h \o s) \o rest)[3] = h[3]
          /\ SubSeq((h \o s) \o rest, 4, 3 + Len(s)) = s
      BY <2>2, BytesOf
    <3>2. QED
      BY <2>1, <2>2, <2>3, <3>1, Zenon
  <2>5. Clocked(Len(cmd), s)
    BY <1>3, <1>4, <2>4, NextCommand, Zenon
  <2>6. Went(rest, d, due)
    <3>1. rx' = rx
      BY <2>5 DEF Clocked
    <3>2. /\ d.pins = pins /\ d.accs = sent /\ d.in = in /\ d.left = due
          /\ d.out = IF pins.high THEN out ELSE out \o s
      BY <1>2, <2>1, Zenon
    <3>3. QED
      BY <1>3, <2>5, <3>1, <3>2, ExecuteClock, Zenon
  <2>7. CLK_DATA_BYTES_OUT # SET_LOW_BYTE_DATA_BITS
    BY DEF CLK_DATA_BYTES_OUT, SET_LOW_BYTE_DATA_BITS
  <2>8. QED
    BY <1>7, <2>4, <2>6, <2>7, Zenon
<1>9. CASE BitsOut(cmd, c, d)
  <2>1. PICK b \in Int :
          /\ cmd = <<CLK_DATA_BITS_OUT, 7, b>>
          /\ d.pins = c.pins /\ d.in = c.in /\ d.accs = c.accs /\ d.left = c.left
          /\ d.out = IF c.pins.high THEN c.out ELSE c.out \o <<b>>
    BY <1>9, Zenon DEF BitsOut
  <2>2. Len(cmd) = 3 /\ cmd[1] = CLK_DATA_BITS_OUT /\ cmd[2] = 7 /\ cmd[3] = b
        /\ 2 \in 1 .. 3 /\ 3 \in 1 .. 3
    BY <2>1
  <2>3. usb[2] = 7 /\ usb[3] = b
    BY <1>3, <2>2, FrontOf, Zenon
  <2>4. Clocked(Len(cmd), <<b>>)
    BY <1>3, <1>4, <2>2, <2>3, NextCommand, Zenon
  <2>5. Went(rest, d, due)
    <3>1. rx' = rx
      BY <2>4 DEF Clocked
    <3>2. /\ d.pins = pins /\ d.accs = sent /\ d.in = in /\ d.left = due
          /\ d.out = IF pins.high THEN out ELSE out \o <<b>>
      BY <1>2, <2>1, Zenon
    <3>3. QED
      BY <1>3, <2>4, <3>1, <3>2, ExecuteClock, Zenon
  <2>6. CLK_DATA_BITS_OUT # SET_LOW_BYTE_DATA_BITS
    BY DEF CLK_DATA_BITS_OUT, SET_LOW_BYTE_DATA_BITS
  <2>7. QED
    BY <1>7, <2>2, <2>5, <2>6, Zenon
<1>10. CASE BytesIn(cmd, c, d)
  <2>1. PICK n \in Octets, k \in Octets :
          /\ cmd = <<CLK_DATA_BYTES_IN, n, k>>
          /\ d.pins = c.pins /\ d.out = c.out /\ d.accs = c.accs
          /\ d.in = c.in + Length(n, k) /\ c.left = d.left + Length(n, k)
    BY <1>10, Zenon DEF BytesIn
  <2>2. Len(cmd) = 3 /\ cmd[1] = CLK_DATA_BYTES_IN /\ cmd[2] = n /\ cmd[3] = k
        /\ 2 \in 1 .. 3 /\ 3 \in 1 .. 3
    BY <2>1
  <2>3. usb[2] = n /\ usb[3] = k
    BY <1>3, <2>2, FrontOf, Zenon
  <2>4. Sampled(Len(cmd), Length(n, k))
    BY <1>3, <1>4, <2>2, <2>3, NextCommand, Zenon
  <2>5. Went(rest, d, due)
    <3>1. Length(n, k) \in Nat
      BY DEF Length, Octets
    <3>2. /\ d.pins = pins /\ d.accs = sent /\ d.out = out
          /\ d.in = in + Length(n, k) /\ due = d.left + Length(n, k)
      BY <1>2, <2>1, Zenon
    <3>3. QED
      BY <1>3, <2>4, <3>1, <3>2, ExecuteClock, Zenon
  <2>6. CLK_DATA_BYTES_IN # SET_LOW_BYTE_DATA_BITS
    BY DEF CLK_DATA_BYTES_IN, SET_LOW_BYTE_DATA_BITS
  <2>7. QED
    BY <1>7, <2>2, <2>5, <2>6, Zenon
<1>11. CASE BitsIn(cmd, c, d)
  <2>1. /\ cmd = <<CLK_DATA_BITS_IN, 7>>
        /\ d.pins = c.pins /\ d.out = c.out /\ d.accs = c.accs
        /\ d.in = c.in + 1 /\ c.left = d.left + 1
    BY <1>11, Zenon DEF BitsIn
  <2>2. Len(cmd) = 2 /\ cmd[1] = CLK_DATA_BITS_IN /\ 1 \in Nat
    BY <2>1
  <2>3. Sampled(Len(cmd), 1)
    BY <1>3, <1>4, <2>2, NextCommand, Zenon
  <2>4. /\ d.pins = pins /\ d.accs = sent /\ d.out = out
        /\ d.in = in + 1 /\ due = d.left + 1
    BY <1>2, <2>1, Zenon
  <2>5. Went(rest, d, due)
    BY <1>3, <2>2, <2>3, <2>4, ExecuteClock, Zenon
  <2>6. CLK_DATA_BITS_IN # SET_LOW_BYTE_DATA_BITS
    BY DEF CLK_DATA_BITS_IN, SET_LOW_BYTE_DATA_BITS
  <2>7. QED
    BY <1>7, <2>2, <2>5, <2>6, Zenon
<1>12. CASE Immediate(cmd, c, d)
  <2>1. /\ cmd = <<SEND_IMMEDIATE>>
        /\ d.pins = c.pins /\ d.out = c.out /\ d.in = c.in /\ d.accs = c.accs /\ d.left = c.left
    BY <1>12, Zenon DEF Immediate
  <2>2. Len(cmd) = 1 /\ cmd[1] = SEND_IMMEDIATE
    BY <2>1
  <2>3. Clocked(Len(cmd), <<>>)
    BY <1>3, <1>4, <2>2, NextCommand, Zenon
  <2>4. Went(rest, d, due)
    <3>1. rx' = rx /\ out \o <<>> = out
      BY <1>1, <2>3, ConcatEmptySeq DEF Clocked
    <3>2. /\ d.pins = pins /\ d.accs = sent /\ d.in = in /\ d.left = due
          /\ d.out = IF pins.high THEN out ELSE out \o <<>>
      BY <1>2, <2>1, <3>1
    <3>3. QED
      BY <1>3, <2>3, <3>1, <3>2, ExecuteClock, Zenon
  <2>5. SEND_IMMEDIATE # SET_LOW_BYTE_DATA_BITS
    BY DEF SEND_IMMEDIATE, SET_LOW_BYTE_DATA_BITS
  <2>6. QED
    BY <1>7, <2>2, <2>4, <2>5, Zenon
<1>13. QED
  BY <1>3, <1>6, <1>8, <1>9, <1>10, <1>11, <1>12, Zenon DEF Moves

(* The chip executes a command.                                            *)
LEMMA ExecuteKeeps ==
  ASSUME RegistersInv, Execute
  PROVE  RegistersInv'
<1>1. PICK m \in Pinouts, due \in Nat, o \in Nat, d \in Nat : Leads(m, due, o, d)
  BY Zenon DEF RegistersInv
<1>2. TypedInv /\ ~strange /\ ~dropped /\ (byOutputBuffer # <<>> => dwLowPinsValue.high)
  BY Zenon DEF RegistersInv
<1>3. Runs(usb, State(pins, out, in, sent, due), AtRest(m))
  BY <1>1, Zenon DEF Leads
<1>4. PICK e \in Chips : Runs(usb', e, AtRest(m)) /\ Went(usb', e, due)
  BY <1>2, <1>3, ExecuteWent, Zenon
<1>5. /\ pins' = e.pins /\ out' = e.out /\ in' = e.in /\ sent' = e.accs
      /\ rx' + e.left = rx + due /\ rx' \in Nat /\ ~strange'
  BY <1>4, Zenon DEF Went
<1>6. UNCHANGED <<steps, byOutputBuffer, dwLowPinsValue, entered, queued, dropped>>
  BY DEF Execute
<1>7. /\ e.pins \in Pinouts /\ e.out \in Seq(Int) /\ e.in \in Nat /\ e.accs \in Seq(Accesses)
      /\ e.left \in Nat
  BY DEF Chips
<1>8. usb' \in Seq(Items)
  BY <1>4, PathTyped, Zenon DEF Runs
<1>9. e = State(pins', out', in', sent', e.left)
  BY <1>5 DEF State, Chips
<1>10. TypedInv'
  BY <1>2, <1>5, <1>6, <1>7, <1>8 DEF TypedInv
<1>11. PICK l \in Nat : l = e.left
  BY <1>7
<1>12. Leads(m, l, o, d)'
  <2>1. Runs(usb', State(pins', out', in', sent', l), AtRest(m))
    BY <1>4, <1>9, <1>11, Zenon
  <2>2. entered' => d = rx' + l
    BY <1>1, <1>5, <1>6, <1>11 DEF Leads
  <2>3. Unset(o) => Unset(o)'
    BY <1>6 DEF Unset
  <2>4. /\ Runs(byOutputBuffer', State(m, <<>>, 0, queued', o), AtRest(dwLowPinsValue')) \/ Unset(o)'
        /\ Does(steps', <<Len(byOutputBuffer'), o, d>>, Nothing)
    BY <1>1, <1>6, <2>3 DEF Leads
  <2>5. QED
    BY <2>1, <2>2, <2>4, Zenon DEF Leads
<1>13. QED
  BY <1>2, <1>5, <1>6, <1>10, <1>12 DEF RegistersInv

(* The invariant holds at the start: nothing is sent, staged or under way. *)
LEMMA InitInv == Init => RegistersInv
<1>1. SUFFICES ASSUME Init PROVE RegistersInv
  OBVIOUS
<1>2. <<>> \in Seq(Int) /\ <<>> \in Seq(Items) /\ <<>> \in Seq(Accesses) /\ <<>> \in Seq(Ops)
      /\ 0 \in Nat
  BY EmptySeq
<1>3. TypedInv
  BY <1>1, <1>2 DEF Init, TypedInv, Pinouts, Lines
<1>4. PICK p \in Pinouts : p = pins
  BY <1>3 DEF TypedInv
<1>5. AtRest(p) \in Chips
  BY <1>2, StateParts, Zenon DEF AtRest
<1>6. /\ usb = <<>> /\ out = <<>> /\ in = 0 /\ sent = <<>> /\ rx = 0 /\ steps = <<>>
      /\ byOutputBuffer = <<>> /\ queued = <<>> /\ ~entered /\ ~strange /\ ~dropped
  BY <1>1 DEF Init
<1>7. Runs(usb, State(pins, out, in, sent, 0), AtRest(p))
  <2>1. Runs(<<>>, AtRest(p), AtRest(p))
    BY <1>5, PathNil, Zenon DEF Runs
  <2>2. QED
    BY <1>4, <1>6, <2>1, Zenon DEF AtRest
<1>8. Does(steps, <<Len(byOutputBuffer), 0, 0>>, Nothing)
  <2>1. Nothing \in Tallies /\ Len(byOutputBuffer) = 0
    BY <1>6 DEF Nothing, Tallies
  <2>2. Does(<<>>, Nothing, Nothing)
    BY <2>1, PathNil, Zenon DEF Does
  <2>3. QED
    BY <1>6, <2>1, <2>2, Zenon DEF Nothing
<1>9. Unset(0)
  BY <1>6 DEF Unset
<1>10. Leads(p, 0, 0, 0)
  BY <1>6, <1>7, <1>8, <1>9, Zenon DEF Leads
<1>11. QED
  BY <1>2, <1>3, <1>6, <1>10, Zenon DEF RegistersInv

(* Every step keeps it.                                                    *)
LEMMA NextInv == RegistersInv /\ [Next]_vars => RegistersInv'
<1>1. SUFFICES ASSUME RegistersInv, [Next]_vars PROVE RegistersInv'
  OBVIOUS
<1>2. CASE Open \/ Run
  BY <1>1, <1>2, OpenKeeps
<1>3. CASE ClearOutputBuffer
  BY <1>1, <1>3, ClearKeeps
<1>4. CASE QueueAccess
  BY <1>1, <1>4, QueueKeeps
<1>5. CASE XNANDQueueReadDelay
  BY <1>1, <1>5, DelayKeeps
<1>6. CASE SetAnswerFast
  BY <1>1, <1>6, FastKeeps
<1>7. CASE SendBytesToDevice
  BY <1>1, <1>7, SendKeeps
<1>8. CASE GetDataFromDevice \/ Throw
  BY <1>1, <1>8, GetKeeps
<1>9. CASE spi_setGPIO \/ spi_SetCS
  BY <1>1, <1>9, LinesKeep
<1>10. CASE Execute
  BY <1>1, <1>10, ExecuteKeeps
<1>11. CASE UNCHANGED vars
  BY <1>1, <1>11 DEF vars, chip, history, RegistersInv, TypedInv, Leads, Unset
<1>12. QED
  BY <1>1, <1>2, <1>3, <1>4, <1>5, <1>6, <1>7, <1>8, <1>9, <1>10, <1>11, Zenon DEF Next, Driver

(* So it always holds.                                                     *)
LEMMA AlwaysInv == Spec => []RegistersInv
<1>1. QED
  BY InitInv, NextInv, PTL DEF Spec

-------------------------------------------------------------------------------
(* The theorems.                                                           *)

(* The controller sees every access as it was queued: XSPIRead_ and        *)
(* XSPIWrite_, the batches and blocks built from them, and what the chip   *)
(* makes of their bytes.                                                   *)
THEOREM AccessesTheorem == Spec => []AccessesExact
<1>1. RegistersInv => AccessesExact
  BY DEF RegistersInv, AccessesExact
<1>2. QED
  BY <1>1, AlwaysInv, PTL

(* No driver function loses an access for want of room, leaves one in the  *)
(* buffer or a byte of a reply in the chip.                                *)
THEOREM NothingLeftTheorem == Spec => []NothingLeft
<1>1. ASSUME RegistersInv PROVE NothingLeft
  <2>1. PICK m \in Pinouts, due \in Nat, o \in Nat, d \in Nat : Leads(m, due, o, d)
    BY <1>1, Zenon DEF RegistersInv
  <2>2. TypedInv /\ ~dropped
    BY <1>1, Zenon DEF RegistersInv
  <2>3. ASSUME steps # <<>>, Head(steps).op \in {"clear", "lines", "cs"} PROVE queued = <<>>
    <3>1. PICK b \in Tallies : Works(Head(steps), Len(byOutputBuffer), o, d, b)
      BY <2>1, <2>2, <2>3, StepOf, Zenon
    <3>2. Len(byOutputBuffer) = 0
      BY <2>3, <3>1 DEF Works
    <3>3. byOutputBuffer = <<>>
      BY <2>1, <2>2, <2>3, <3>2, StepOf, Zenon
    <3>4. QED
      BY <2>1, <3>3, EmptyBuffer, Zenon
  <2>4. ASSUME usb = <<>> PROVE sent = <<>> /\ due = 0
    <3>1. State(pins, out, in, sent, due) = State(m, <<>>, 0, <<>>, 0)
      BY <2>1, <2>4, ChipNext, Zenon DEF Leads, AtRest
    <3>2. QED
      BY <3>1, EqualStates
  <2>5. ASSUME usb = <<>>, entered, Idle PROVE rx = 0
    <3>1. Len(byOutputBuffer) \in Nat /\ rx \in Nat
      BY <2>2, LenProperties DEF TypedInv
    <3>2. Does(<<>>, <<Len(byOutputBuffer), o, d>>, Nothing)
      BY <2>1, <2>5, Zenon DEF Leads, Idle
    <3>3. d = 0
      BY <3>1, <3>2, WorkerNext, Zenon
    <3>4. d = rx + due /\ due = 0
      BY <2>1, <2>4, <2>5 DEF Leads
    <3>5. QED
      BY <3>1, <3>3, <3>4
  <2>6. QED
    BY <2>2, <2>3, <2>4, <2>5, Zenon DEF NothingLeft
<1>2. QED
  BY <1>1, AlwaysInv, PTL

(* No access moves the lines that hold the console in its flash mode: the  *)
(* pins it sends are those the driver set, also when the chip comes to     *)
(* them late.                                                              *)
THEOREM LinesTheorem == Spec => LinesHold
<1>1. ASSUME RegistersInv, [Next]_vars
      PROVE  [Execute /\ usb[1] = SET_LOW_BYTE_DATA_BITS /\ usb[3] = AccessPins
                => pins'.lines = pins.lines]_vars
  <2>1. PICK m \in Pinouts, due \in Nat, o \in Nat, d \in Nat : Leads(m, due, o, d)
    BY <1>1, Zenon DEF RegistersInv
  <2>2. TypedInv /\ ~strange /\ Runs(usb, State(pins, out, in, sent, due), AtRest(m))
    BY <1>1, <2>1, Zenon DEF RegistersInv, Leads
  <2>3. QED
    BY <2>2, ExecuteWent, Zenon
<1>2. QED
  BY <1>1, AlwaysInv, PTL DEF Spec, LinesHold

-------------------------------------------------------------------------------
(* Nobody waits for what does not come.                                    *)

(* The chip finds a command it knows at the front, with all of its bytes.  *)
CommandsWhole ==
  usb # <<>> =>
    \/ usb[1] = SET_LOW_BYTE_DATA_BITS /\ Len(usb) >= 3
    \/ usb[1] = CLK_DATA_BYTES_OUT /\ Len(usb) >= 3 + Length(usb[2], usb[3])
    \/ usb[1] \in {CLK_DATA_BITS_OUT, CLK_DATA_BYTES_IN} /\ Len(usb) >= 3
    \/ usb[1] = CLK_DATA_BITS_IN /\ Len(usb) >= 2
    \/ usb[1] = SEND_IMMEDIATE

(* What GetDataFromDevice is asked for has come once the chip is through.  *)
ReadsAnswered ==
  steps # <<>> /\ Head(steps).op = "get" /\ entered /\ usb = <<>> => rx >= Head(steps).n

(* The parts of a sequence.                                                *)
LEMMA FrontAndLength ==
  ASSUME NEW cmd \in Seq(Items), NEW rest \in Seq(Items), usb = cmd \o rest
  PROVE  Len(usb) >= Len(cmd) /\ \A i \in 1 .. Len(cmd) : usb[i] = cmd[i]
<1>1. Len(usb) = Len(cmd) + Len(rest) /\ Len(cmd) \in Nat /\ Len(rest) \in Nat
  BY ConcatProperties, LenProperties
<1>2. \A i \in 1 .. Len(cmd) : (cmd \o rest)[i] = cmd[i]
  BY FrontOf, Zenon
<1>3. QED
  BY <1>1, <1>2

(* The safety half of FunctionsEnd: in no order of the driver functions,   *)
(* with pages, batches and delays of any size, does the chip stop at bytes *)
(* it makes no command of, or a GetDataFromDevice ask for more than the    *)
(* commands before it bring.                                               *)
THEOREM AnswersTheorem == Spec => [](CommandsWhole /\ ReadsAnswered)
<1>1. ASSUME RegistersInv PROVE CommandsWhole
  <2>1. PICK m \in Pinouts, due \in Nat, o \in Nat, d \in Nat : Leads(m, due, o, d)
    BY <1>1, Zenon DEF RegistersInv
  <2>2. SUFFICES ASSUME usb # <<>>
                 PROVE  \/ usb[1] = SET_LOW_BYTE_DATA_BITS /\ Len(usb) >= 3
                        \/ usb[1] = CLK_DATA_BYTES_OUT /\ Len(usb) >= 3 + Length(usb[2], usb[3])
                        \/ usb[1] \in {CLK_DATA_BITS_OUT, CLK_DATA_BYTES_IN} /\ Len(usb) >= 3
                        \/ usb[1] = CLK_DATA_BITS_IN /\ Len(usb) >= 2
                        \/ usb[1] = SEND_IMMEDIATE
    BY DEF CommandsWhole
  <2> DEFINE c == State(pins, out, in, sent, due)
  <2>3. PICK cmd \in Seq(Items), rest \in Seq(Items), e \in Chips :
          usb = cmd \o rest /\ Moves(cmd, c, e)
    <3>1. Takes(usb, c, AtRest(m))
      BY <2>1, <2>2, ChipNext, Zenon DEF Leads
    <3>2. QED
      BY <3>1, Zenon DEF Takes
  <2> HIDE DEF c
  <2>4. Len(usb) >= Len(cmd) /\ \A i \in 1 .. Len(cmd) : usb[i] = cmd[i]
    BY <2>3, FrontAndLength
  <2>5. Len(usb) \in Int
    BY <1>1, LenProperties DEF RegistersInv, TypedInv
  <2>6. CASE SetsPins(cmd, c, e)
    <3>1. PICK p, dir : cmd = <<SET_LOW_BYTE_DATA_BITS, p, dir>>
      BY <2>6, Zenon DEF SetsPins
    <3>2. Len(cmd) = 3 /\ cmd[1] = SET_LOW_BYTE_DATA_BITS
      BY <3>1
    <3>3. QED
      BY <2>4, <2>5, <3>2
  <2>7. CASE BytesOut(cmd, c, e)
    <3>1. PICK n \in Octets, k \in Octets, s \in Seq(Int) :
            cmd = <<CLK_DATA_BYTES_OUT, n, k>> \o s /\ Len(s) = Length(n, k)
      BY <2>7, Zenon DEF BytesOut
    <3>2. /\ Len(cmd) = 3 + Length(n, k) /\ Length(n, k) \in Nat
          /\ cmd[1] = CLK_DATA_BYTES_OUT /\ cmd[2] = n /\ cmd[3] = k
      <4> DEFINE h == <<CLK_DATA_BYTES_OUT, n, k>>
      <4>1. h \in Seq(Int) /\ Len(h) = 3 /\ h[1] = CLK_DATA_BYTES_OUT /\ h[2] = n /\ h[3] = k
        BY DEF Octets, CLK_DATA_BYTES_OUT
      <4> HIDE DEF h
      <4>2. Len(h \o s) = Len(h) + Len(s) /\ Len(s) \in Nat
        BY <4>1, ConcatProperties, LenProperties
      <4>3. \A i \in 1 .. 3 : (h \o s)[i] = h[i]
        BY <4>1, <4>2, ConcatProperties
      <4>4. cmd = h \o s
        BY <3>1 DEF h
      <4>5. Len(cmd) = 3 + Length(n, k) /\ Length(n, k) \in Nat
        BY <3>1, <4>1, <4>2, <4>4
      <4>6. cmd[1] = h[1] /\ cmd[2] = h[2] /\ cmd[3] = h[3]
        <5>1. 1 \in 1 .. 3 /\ 2 \in 1 .. 3 /\ 3 \in 1 .. 3
          OBVIOUS
        <5>2. QED
          BY <4>3, <4>4, <5>1, Zenon
      <4>7. QED
        BY <4>1, <4>5, <4>6
    <3>3. Len(usb) >= 3 + Length(usb[2], usb[3]) /\ usb[1] = CLK_DATA_BYTES_OUT
      BY <2>4, <2>5, <3>2
    <3>4. QED
      BY <3>3
  <2>8. CASE BitsOut(cmd, c, e)
    <3>1. PICK b : cmd = <<CLK_DATA_BITS_OUT, 7, b>>
      BY <2>8, Zenon DEF BitsOut
    <3>2. Len(cmd) = 3 /\ cmd[1] = CLK_DATA_BITS_OUT
      BY <3>1
    <3>3. QED
      BY <2>4, <2>5, <3>2
  <2>9. CASE BytesIn(cmd, c, e)
    <3>1. PICK n, k : cmd = <<CLK_DATA_BYTES_IN, n, k>>
      BY <2>9, Zenon DEF BytesIn
    <3>2. Len(cmd) = 3 /\ cmd[1] = CLK_DATA_BYTES_IN
      BY <3>1
    <3>3. QED
      BY <2>4, <2>5, <3>2
  <2>10. CASE BitsIn(cmd, c, e)
    <3>1. Len(cmd) = 2 /\ cmd[1] = CLK_DATA_BITS_IN
      BY <2>10 DEF BitsIn
    <3>2. QED
      BY <2>4, <2>5, <3>1
  <2>11. CASE Immediate(cmd, c, e)
    <3>1. Len(cmd) = 1 /\ cmd[1] = SEND_IMMEDIATE
      BY <2>11 DEF Immediate
    <3>2. QED
      BY <2>4, <2>5, <3>1
  <2>12. QED
    BY <2>3, <2>6, <2>7, <2>8, <2>9, <2>10, <2>11, Zenon DEF Moves
<1>2. ASSUME RegistersInv PROVE ReadsAnswered
  <2>1. PICK m \in Pinouts, due \in Nat, o \in Nat, d \in Nat : Leads(m, due, o, d)
    BY <1>2, Zenon DEF RegistersInv
  <2>2. TypedInv
    BY <1>2, Zenon DEF RegistersInv
  <2>3. SUFFICES ASSUME steps # <<>>, Head(steps).op = "get", entered, usb = <<>>
                 PROVE  rx >= Head(steps).n
    BY DEF ReadsAnswered
  <2>4. PICK b \in Tallies : Works(Head(steps), Len(byOutputBuffer), o, d, b)
    BY <2>1, <2>2, <2>3, StepOf, Zenon
  <2>5. Head(steps).n <= d
    BY <2>3, <2>4 DEF Works
  <2>6. due = 0
    <3>1. State(pins, out, in, sent, due) = State(m, <<>>, 0, <<>>, 0)
      BY <2>1, <2>3, ChipNext, Zenon DEF Leads, AtRest
    <3>2. QED
      BY <3>1, EqualStates
  <2>7. d = rx + due /\ rx \in Nat
    BY <2>1, <2>2, <2>3 DEF Leads, TypedInv
  <2>8. QED
    BY <2>5, <2>6, <2>7
<1>3. QED
  BY <1>1, <1>2, AlwaysInv, PTL

===============================================================================
