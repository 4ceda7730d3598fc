------------------------------ MODULE UsbProofs -------------------------------
(***************************************************************************)
(* What comes back over USB is what was asked for.                         *)
(*                                                                         *)
(* Transport: a request gets its own reply, for any sizes of requests,     *)
(* chunks and buffer and any number of reads.                              *)
(*                                                                         *)
(* IsdPins: the ISD2100 takes the bits it is sent, and the bits it puts    *)
(* out are those returned, for bytes and commands of any length.  The      *)
(* invariant follows the commands on their way: they lead the pins, the    *)
(* bits taken and the bits put out from what they are to a state where all *)
(* that the driver sent is taken and every reply it waits for is there     *)
(* (Steady); what is left of an export starts at the level this leaves.    *)
(***************************************************************************)
EXTENDS Transport, IsdPins, WellFoundedInduction, SequenceTheorems, TLAPS

(***************************************************************************)
(* Transport.                                                              *)
(***************************************************************************)

ReplyBytes == ((0 .. 1) \X Nat) \cup {Stray}

(* The values of the variables, and no more of a reply than was asked for. *)
RequestTyped ==
  /\ pc \in {"idle", "send", "get", "thrown"}
  /\ reply \in Nat /\ tx \in 0 .. 1
  /\ produced \in 0 .. reply
  /\ got \in Seq(ReplyBytes) /\ rx \in Seq(ReplyBytes)
  /\ try_count \in Int

(* What has been read is no longer than the reply, and before the first    *)
(* read it is nothing.                                                     *)
GotInv ==
  /\ pc = "send" => got = <<>>
  /\ pc = "get" => Len(got) <= reply

RequestInv == RequestTyped /\ GotInv /\ ReplyIsOwn

-------------------------------------------------------------------------------
(* Sequences.                                                              *)

(* A byte of a reply, and nothing after nothing.                           *)
LEMMA ReplyBasics ==
  /\ <<>> \in Seq(ReplyBytes) /\ <<>> \o <<>> = <<>>
  /\ \A g \in Seq(ReplyBytes) : Len(g) \in Nat /\ (Len(g) = 0 => g = <<>>)
  /\ \A g, r \in Seq(ReplyBytes) : Len(g \o r) = Len(g) + Len(r)
  /\ \A t \in 0 .. 1, n \in Nat : Byte(t, n) \in ReplyBytes
<1>1. <<>> \in Seq(ReplyBytes)
  BY EmptySeq
<1>2. <<>> \o <<>> = <<>>
  BY <1>1, ConcatEmptySeq
<1>3. \A g \in Seq(ReplyBytes) : Len(g) \in Nat /\ (Len(g) = 0 => g = <<>>)
  BY EmptySeq, LenProperties
<1>4. \A t \in 0 .. 1, n \in Nat : Byte(t, n) \in ReplyBytes
  BY DEF Byte, ReplyBytes
<1>5. \A g, r \in Seq(ReplyBytes) : Len(g \o r) = Len(g) + Len(r)
  OBVIOUS
<1>6. QED
  BY <1>1, <1>2, <1>3, <1>4, <1>5

(* A reply of no bytes is empty, and the next byte comes at the end.       *)
LEMMA WholeGrows ==
  ASSUME NEW t \in 0 .. 1, NEW n \in Nat
  PROVE  /\ Whole(t, n) \in Seq(ReplyBytes) /\ Len(Whole(t, n)) = n
         /\ Whole(t, 0) = <<>>
         /\ Whole(t, n + 1) = Append(Whole(t, n), Byte(t, n + 1))
<1>1. \A m \in Nat : Whole(t, m) \in Seq(ReplyBytes) /\ Len(Whole(t, m)) = m
  BY DEF Whole, Byte, ReplyBytes
<1>2. Whole(t, 0) = <<>>
  BY <1>1, ReplyBasics
<1>3. Whole(t, n + 1) = Append(Whole(t, n), Byte(t, n + 1))
  <2>1. Byte(t, n + 1) \in ReplyBytes
    BY ReplyBasics
  <2>2. /\ Append(Whole(t, n), Byte(t, n + 1)) \in Seq(ReplyBytes)
        /\ Len(Append(Whole(t, n), Byte(t, n + 1))) = n + 1
        /\ \A k \in 1 .. n : Append(Whole(t, n), Byte(t, n + 1))[k] = Whole(t, n)[k]
        /\ Append(Whole(t, n), Byte(t, n + 1))[n + 1] = Byte(t, n + 1)
    BY <1>1, <2>1
  <2>3. \A k \in 1 .. (n + 1) : Whole(t, n + 1)[k] = Byte(t, k)
    BY DEF Whole
  <2>4. \A k \in 1 .. n : Whole(t, n)[k] = Byte(t, k)
    BY DEF Whole
  <2>5. \A k \in 1 .. (n + 1) : Whole(t, n + 1)[k] = Append(Whole(t, n), Byte(t, n + 1))[k]
    BY <2>2, <2>3, <2>4
  <2>6. Whole(t, n + 1) \in Seq(ReplyBytes) /\ Len(Whole(t, n + 1)) = n + 1
    BY <1>1
  <2>7. QED
    BY <2>2, <2>5, <2>6, SeqEqual
<1>4. QED
  BY <1>1, <1>2, <1>3

(* A read moves the first bytes that wait to the end of those that were    *)
(* read, and the two together stay the same.                               *)
LEMMA ReadKeepsOrder ==
  ASSUME NEW g \in Seq(ReplyBytes), NEW r \in Seq(ReplyBytes), NEW n \in 0 .. Len(r)
  PROVE  /\ g \o SubSeq(r, 1, n) \in Seq(ReplyBytes) /\ SubSeq(r, n + 1, Len(r)) \in Seq(ReplyBytes)
         /\ Len(g \o SubSeq(r, 1, n)) = Len(g) + n
         /\ (g \o SubSeq(r, 1, n)) \o SubSeq(r, n + 1, Len(r)) = g \o r
<1>1. SubSeq(r, 1, n) \in Seq(ReplyBytes) /\ Len(SubSeq(r, 1, n)) = n
  OBVIOUS
<1>2. SubSeq(r, n + 1, Len(r)) \in Seq(ReplyBytes)
  OBVIOUS
<1>3. SubSeq(r, 1, n) \o SubSeq(r, n + 1, Len(r)) = SubSeq(r, 1, Len(r))
  <2>1. Len(r) \in Nat
    BY ReplyBasics
  <2>2. 1 \in 1 .. Len(r) + 1 /\ n \in 1 - 1 .. Len(r) /\ Len(r) \in n .. Len(r)
    BY <2>1
  <2>3. QED
    BY <2>2, ConcatAdjacentSubSeq
<1>4. SubSeq(r, 1, Len(r)) = r
  BY SubSeqFull
<1>5. (g \o SubSeq(r, 1, n)) \o SubSeq(r, n + 1, Len(r)) =
      g \o (SubSeq(r, 1, n) \o SubSeq(r, n + 1, Len(r)))
  <2>1. \A a, b \in Seq(ReplyBytes) : (g \o a) \o b = g \o (a \o b)
    BY ConcatAssociative
  <2>2. QED
    BY <1>1, <1>2, <2>1, Zenon
<1>6. g \o SubSeq(r, 1, n) \in Seq(ReplyBytes) /\ Len(g \o SubSeq(r, 1, n)) = Len(g) + n
  BY <1>1, ConcatProperties
<1>7. QED
  BY <1>2, <1>3, <1>4, <1>5, <1>6

(* When the reads have the whole reply, nothing waits.                     *)
LEMMA WholeReplyIsAll ==
  \A g, r \in Seq(ReplyBytes), t \in 0 .. 1, n \in Nat :
    n <= Len(g) /\ g \o r = Whole(t, n) => g = Whole(t, Len(g)) /\ r = <<>>
<1> SUFFICES ASSUME NEW g \in Seq(ReplyBytes), NEW r \in Seq(ReplyBytes), NEW t \in 0 .. 1,
                    NEW n \in Nat, n <= Len(g), g \o r = Whole(t, n)
             PROVE  g = Whole(t, Len(g)) /\ r = <<>>
  OBVIOUS
<1>1. Len(g \o r) = Len(g) + Len(r)
  BY ReplyBasics, Zenon
<1>2. Len(Whole(t, n)) = n
  BY WholeGrows
<1>3. Len(g) = n /\ Len(r) = 0
  BY <1>1, <1>2, ReplyBasics
<1>4. r = <<>>
  BY <1>3, ReplyBasics
<1>5. g \o <<>> = g
  BY ConcatEmptySeq
<1>6. QED
  BY <1>3, <1>4, <1>5

-------------------------------------------------------------------------------

(* Nothing has been asked for.                                             *)
LEMMA RequestStart == Init => RequestInv
<1> SUFFICES ASSUME Init PROVE RequestInv
  OBVIOUS
<1>1. RequestTyped /\ GotInv
  BY TransportAssumption, ReplyBasics DEF Init, RequestTyped, GotInv
<1>2. Whole(tx, 0) = <<>>
  BY <1>1, WholeGrows DEF RequestTyped
<1>3. ReplyIsOwn
  BY <1>2, ReplyBasics, Zenon DEF Init, ReplyIsOwn
<1>4. QED
  BY <1>1, <1>3 DEF RequestInv

(* Every write, every read and every byte of the chip keeps it.            *)
LEMMA RequestStep == RequestInv /\ [Next]_vars => RequestInv'
<1> SUFFICES ASSUME RequestInv, [Next]_vars PROVE RequestInv'
  OBVIOUS
<1> USE TransportAssumption
        DEF RequestInv, RequestTyped, GotInv, ReplyIsOwn, request, staging, reading, chip
<1>1. ASSUME NEW q \in Requests, Stage(q[1], q[2]) PROVE RequestInv'
  <2>1. q[2] \in Nat
    OBVIOUS
  <2>2. pc = "idle" /\ pc' = "send" /\ reply' = q[2] /\ tx' = 1 - tx /\ got' = <<>>
        /\ produced' = 0 /\ try_count' = TryCount /\ UNCHANGED <<rx, desync>>
    BY <1>1 DEF Stage
  <2>3. tx' \in 0 .. 1 /\ RequestTyped' /\ GotInv'
    BY <2>1, <2>2
  <2>4. ~desync => got' \o rx' = Whole(tx', produced')
    BY <2>2, <2>3, WholeGrows, ConcatEmptySeq
  <2>5. QED
    BY <2>2, <2>3, <2>4
<1>2. CASE SendChunk
  <2>1. pc = "send" /\ got = <<>> /\ UNCHANGED <<request, reading, produced, rx>>
    BY <1>2 DEF SendChunk
  <2>2. desync => desync'
    BY <1>2, Zenon DEF SendChunk
  <2>3. pc' = "send" \/ (pc' = Sent)
    BY <1>2 DEF SendChunk
  <2>4. RequestTyped' /\ GotInv'
    BY <2>1, <2>3 DEF Sent
  <2>5. ~desync' /\ pc' = "idle" => got' = Whole(tx', reply') /\ rx' = <<>>
    <3> SUFFICES ASSUME ~desync', pc' = "idle" PROVE got' = Whole(tx', reply') /\ rx' = <<>>
      OBVIOUS
    <3>1. reply = 0 /\ produced = 0
      BY <2>1, <2>3 DEF Sent
    <3>2. got \o rx = Whole(tx, produced)
      BY <2>1, <2>2
    <3>3. Len(got) = reply
      BY <2>1, <3>1
    <3>4. got = Whole(tx, reply) /\ rx = <<>>
      <4>1. tx \in 0 .. 1 /\ reply \in Nat /\ produced \in 0 .. reply
            /\ got \in Seq(ReplyBytes) /\ rx \in Seq(ReplyBytes)
            /\ produced <= Len(got) /\ produced \in Nat
        BY <3>3
      <4> HIDE DEF RequestInv, RequestTyped, GotInv, ReplyIsOwn
      <4>2. QED
        BY <3>2, <3>3, <4>1, WholeReplyIsAll, Zenon
    <3>5. QED
      BY <2>1, <3>4
  <2>6. QED
    BY <2>1, <2>3, <2>4, <2>5, <2>2 DEF Sent
<1>3. CASE GetDataFromDevice
  <2>1. PICK n \in 0 .. Minimum(Len(rx), reply - Len(got)) :
          /\ got' = got \o SubSeq(rx, 1, n)
          /\ rx' = SubSeq(rx, n + 1, Len(rx))
          /\ IF Len(got) + n < reply /\ try_count > 0
             THEN /\ try_count' = try_count - 1
                  /\ UNCHANGED pc
             ELSE /\ try_count' = IF Len(got) + n < reply THEN try_count - 1 ELSE try_count
                  /\ pc' = IF try_count' <= 0 THEN "thrown" ELSE "idle"
    BY <1>3 DEF GetDataFromDevice
  <2>2. pc = "get" /\ UNCHANGED <<staging, request, produced, desync>>
    BY <1>3 DEF GetDataFromDevice
  <2>3. n \in 0 .. Len(rx) /\ Len(got) + n <= reply
    BY <2>1, <2>2 DEF Minimum
  <2>4. got' \in Seq(ReplyBytes) /\ rx' \in Seq(ReplyBytes) /\ Len(got') = Len(got) + n
        /\ got' \o rx' = got \o rx
    BY <2>1, <2>3, ReadKeepsOrder
  <2>5. RequestTyped' /\ GotInv'
    BY <2>1, <2>2, <2>3, <2>4
  <2>6. ~desync => got' \o rx' = Whole(tx', produced')
    BY <2>2, <2>4
  <2>7. pc' = "idle" => Len(got') = reply
    <3>1. Len(got) + n < reply => pc' # "idle"
      BY <2>1, <2>2
    <3>2. Len(got) \in Nat /\ n \in Nat /\ reply \in Nat
      BY <2>3, ReplyBasics
    <3>3. Len(got) + n <= reply /\ Len(got') = Len(got) + n
      BY <2>3, <2>4
    <3>4. QED
      BY <3>1, <3>2, <3>3
  <2>8. pc' = "idle" /\ ~desync => got' = Whole(tx, reply) /\ rx' = <<>>
    <3> SUFFICES ASSUME pc' = "idle", ~desync PROVE got' = Whole(tx, reply) /\ rx' = <<>>
      OBVIOUS
    <3>1. got' \o rx' = Whole(tx, produced) /\ Len(got') = reply
      BY <2>2, <2>6, <2>7
    <3>2. tx \in 0 .. 1 /\ reply \in Nat /\ produced \in 0 .. reply
          /\ got' \in Seq(ReplyBytes) /\ rx' \in Seq(ReplyBytes)
          /\ produced <= Len(got') /\ produced \in Nat
      BY <2>4, <3>1
    <3> HIDE DEF RequestInv, RequestTyped, GotInv, ReplyIsOwn
    <3>3. QED
      BY <3>1, <3>2, WholeReplyIsAll, Zenon
  <2>9. QED
    BY <2>2, <2>5, <2>6, <2>8
<1>4. CASE Produce
  <2>1. pc \in {"send", "get"} /\ produced' = produced + 1 /\ produced < reply
        /\ rx' = Append(rx, IF desync THEN Stray ELSE Byte(tx, produced + 1))
        /\ UNCHANGED <<pc, request, reading, desync>>
    BY <1>4 DEF Produce
  <2>2. (IF desync THEN Stray ELSE Byte(tx, produced + 1)) \in ReplyBytes
    BY DEF Byte, ReplyBytes
  <2>3. RequestTyped' /\ GotInv'
    BY <2>1, <2>2
  <2>4. ~desync => got' \o rx' = Whole(tx', produced')
    <3> SUFFICES ASSUME ~desync PROVE got' \o rx' = Whole(tx', produced')
      OBVIOUS
    <3>1. got \o Append(rx, Byte(tx, produced + 1)) = Append(got \o rx, Byte(tx, produced + 1))
      BY <2>2, AppendIsConcat, ConcatAssociative, ConcatProperties
    <3>2. got \o rx = Whole(tx, produced)
      BY <2>1
    <3>3. Whole(tx, produced + 1) = Append(Whole(tx, produced), Byte(tx, produced + 1))
      <4>1. produced \in Nat
        OBVIOUS
      <4>2. QED
        BY <4>1, WholeGrows
    <3>4. QED
      BY <2>1, <3>1, <3>2, <3>3
  <2>5. QED
    BY <2>1, <2>3, <2>4
<1>5. CASE Reopen
  <2>1. pc' = "idle" /\ got' = <<>> /\ reply' = 0 /\ rx' = <<>> /\ produced' = 0 /\ ~desync'
        /\ UNCHANGED <<tx, try_count>>
    BY <1>5 DEF Reopen
  <2>2. Whole(tx, 0) = <<>>
    BY WholeGrows
  <2>3. QED
    BY <2>1, <2>2, ReplyBasics
<1>6. CASE UNCHANGED vars
  BY <1>6 DEF vars
<1>7. QED
  BY <1>1, <1>2, <1>3, <1>4, <1>5, <1>6 DEF Next, Driver

(* A request whose bytes got through returns its own reply, whole and in   *)
(* order, and leaves nothing behind (GetDataFromDevice).                   *)
THEOREM ReplyTheorem == Spec => []ReplyIsOwn
<1>1. RequestInv => ReplyIsOwn
  BY DEF RequestInv
<1>2. QED
  BY RequestStart, RequestStep, <1>1, PTL DEF Spec

(***************************************************************************)
(* IsdPins.                                                                *)
(***************************************************************************)

(* Induction.  The principle is stated with a set: the library's theorem   *)
(* has a predicate for a parameter, which no prover instantiates.          *)

(* A set of natural numbers has a least one.                               *)
LEMMA LeastNatural ==
  ASSUME NEW T \in SUBSET Nat, T # {}
  PROVE  \E x \in T : \A y \in T : x <= y
<1> DEFINE R == OpToRel(<, Nat)
<1>1. IsWellFoundedOn(R, Nat)
  BY NatLessThanWellFounded
<1>2. R = {ss \in Nat \X Nat : ss[1] < ss[2]}
  BY DEF OpToRel
<1> HIDE DEF R
<1>3. PICK x \in T : \A y \in T : ~ (<<y, x>> \in R)
  BY <1>1, WFMin
<1>4. ASSUME NEW y \in T, y < x PROVE FALSE
  <2>1. <<y, x>> \in Nat \X Nat
    OBVIOUS
  <2>2. <<y, x>> \in R
    BY <1>2, <1>4, <2>1
  <2>3. QED
    BY <1>3, <2>2
<1>5. QED
  BY <1>4

(* A set that has 0 and with each number the next one has them all.        *)
LEMMA Induction ==
  ASSUME NEW S, 0 \in S, \A n \in Nat : n \in S => n + 1 \in S
  PROVE  Nat \subseteq S
<1>1. SUFFICES ASSUME Nat \ S # {} PROVE FALSE
  OBVIOUS
<1>2. PICK x \in Nat \ S : \A y \in Nat \ S : x <= y
  BY <1>1, LeastNatural
<1>3. x # 0 /\ x - 1 \in Nat /\ x - 1 \notin S
  BY <1>2
<1>4. QED
  BY <1>2, <1>3

(***************************************************************************)
(* A sequence of commands takes a state to another one if there are states *)
(* between such that each command takes one to the next: R has each        *)
(* command with the states before and after it.                            *)
(***************************************************************************)
Path(C, V, R, s, a, b) ==
  /\ s \in Seq(C)
  /\ \E f \in [1 .. (Len(s) + 1) -> V] :
       /\ f[1] = a /\ f[Len(s) + 1] = b
       /\ \A i \in 1 .. Len(s) : <<s[i], f[i], f[i + 1]>> \in R

(* No command leaves a state as it is.                                     *)
LEMMA PathNil ==
  ASSUME NEW C, NEW V, NEW R, NEW a, NEW b
  PROVE  /\ a \in V => Path(C, V, R, <<>>, a, a)
         /\ Path(C, V, R, <<>>, a, b) => a = b
<1>1. <<>> \in Seq(C) /\ Len(<<>>) = 0
  BY EmptySeq
<1>2. ASSUME a \in V PROVE Path(C, V, R, <<>>, a, a)
  <2> DEFINE f == [i \in 1 .. (Len(<<>>) + 1) |-> a]
  <2>1. f \in [1 .. (Len(<<>>) + 1) -> V] /\ f[1] = a /\ f[Len(<<>>) + 1] = a
    BY <1>1, <1>2
  <2>2. \A i \in 1 .. Len(<<>>) : <<(<<>>)[i], f[i], f[i + 1]>> \in R
    BY <1>1
  <2> HIDE DEF f
  <2>3. QED
    BY <1>1, <2>1, <2>2 DEF Path
<1>3. ASSUME Path(C, V, R, <<>>, a, b) PROVE a = b
  BY <1>1, <1>3 DEF Path
<1>4. QED
  BY <1>2, <1>3

(* A path begins and ends in states.                                       *)
LEMMA PathTyped ==
  ASSUME NEW C, NEW V, NEW R, NEW s, NEW a, NEW b, Path(C, V, R, s, a, b)
  PROVE  s \in Seq(C) /\ a \in V /\ b \in V
<1>1. s \in Seq(C) /\ Len(s) \in Nat
  BY LenProperties DEF Path
<1>2. QED
  BY <1>1 DEF Path

(* One command.                                                            *)
LEMMA PathOne ==
  ASSUME NEW C, NEW V, NEW R, NEW c \in C, NEW a \in V, NEW b \in V, <<c, a, b>> \in R
  PROVE  Path(C, V, R, <<c>>, a, b)
<1> DEFINE s == <<c>>
           f == [i \in 1 .. 2 |-> IF i = 1 THEN a ELSE b]
<1>1. s \in Seq(C) /\ Len(s) = 1 /\ s[1] = c
  OBVIOUS
<1>2. f \in [1 .. 2 -> V] /\ f[1] = a /\ f[2] = b
  OBVIOUS
<1> HIDE DEF s, f
<1>3. f \in [1 .. (Len(s) + 1) -> V] /\ f[Len(s) + 1] = b
  BY <1>1, <1>2
<1>4. \A i \in 1 .. Len(s) : <<s[i], f[i], f[i + 1]>> \in R
  BY <1>1, <1>2
<1>5. Path(C, V, R, s, a, b)
  BY <1>1, <1>2, <1>3, <1>4 DEF Path
<1>6. QED
  BY <1>5 DEF s

(* One path after another.                                                 *)
LEMMA PathConcat ==
  ASSUME NEW C, NEW V, NEW R, NEW s, NEW t, NEW a, NEW b, NEW c,
         Path(C, V, R, s, a, b), Path(C, V, R, t, b, c)
  PROVE  Path(C, V, R, s \o t, a, c)
<1>1. s \in Seq(C) /\ t \in Seq(C) /\ Len(s) \in Nat /\ Len(t) \in Nat
  BY LenProperties DEF Path
<1>2. /\ s \o t \in Seq(C) /\ Len(s \o t) = Len(s) + Len(t)
      /\ \A i \in 1 .. Len(s) + Len(t) : (s \o t)[i] = IF i <= Len(s) THEN s[i] ELSE t[i - Len(s)]
  BY <1>1, ConcatProperties
<1>3. PICK f \in [1 .. (Len(s) + 1) -> V] :
        /\ f[1] = a /\ f[Len(s) + 1] = b
        /\ \A i \in 1 .. Len(s) : <<s[i], f[i], f[i + 1]>> \in R
  BY DEF Path
<1>4. PICK g \in [1 .. (Len(t) + 1) -> V] :
        /\ g[1] = b /\ g[Len(t) + 1] = c
        /\ \A i \in 1 .. Len(t) : <<t[i], g[i], g[i + 1]>> \in R
  BY DEF Path
<1> DEFINE h == [i \in 1 .. (Len(s) + Len(t) + 1) |-> IF i <= Len(s) THEN f[i] ELSE g[i - Len(s)]]
<1>5. h \in [1 .. (Len(s) + Len(t) + 1) -> V]
  BY <1>1
<1>6. h[1] = a /\ h[Len(s) + Len(t) + 1] = c
  BY <1>1, <1>3, <1>4
<1>7. ASSUME NEW i \in 1 .. Len(s) + Len(t) PROVE <<(s \o t)[i], h[i], h[i + 1]>> \in R
  <2>1. CASE i <= Len(s)
    <3>1. h[i] = f[i] /\ h[i + 1] = f[i + 1] /\ (s \o t)[i] = s[i] /\ i \in 1 .. Len(s)
      BY <1>1, <1>2, <1>3, <1>4, <2>1
    <3>2. QED
      BY <1>3, <3>1, Zenon
  <2>2. CASE ~(i <= Len(s))
    <3> DEFINE j == i - Len(s)
    <3>1. h[i] = g[j] /\ h[i + 1] = g[j + 1] /\ (s \o t)[i] = t[j] /\ j \in 1 .. Len(t)
      BY <1>1, <1>2, <2>2
    <3> HIDE DEF j, h
    <3>2. QED
      BY <1>4, <3>1, Zenon
  <2>3. QED
    BY <2>1, <2>2
<1> HIDE DEF h
<1>8. QED
  BY <1>2, <1>5, <1>6, <1>7 DEF Path

(* The first command of a path, and the rest.                              *)
LEMMA PathFirst ==
  ASSUME NEW C, NEW V, NEW R, NEW s, NEW a, NEW b, Path(C, V, R, s, a, b), s # <<>>
  PROVE  /\ Head(s) \in C /\ Tail(s) \in Seq(C)
         /\ \E m \in V : <<Head(s), a, m>> \in R /\ Path(C, V, R, Tail(s), m, b)
<1>1. s \in Seq(C) /\ Len(s) \in Nat /\ Len(s) >= 1
  BY LenProperties, EmptySeq DEF Path
<1>2. PICK f \in [1 .. (Len(s) + 1) -> V] :
        /\ f[1] = a /\ f[Len(s) + 1] = b
        /\ \A i \in 1 .. Len(s) : <<s[i], f[i], f[i + 1]>> \in R
  BY DEF Path
<1>3. /\ Head(s) = s[1] /\ s[1] \in C /\ Tail(s) \in Seq(C) /\ Len(Tail(s)) = Len(s) - 1
      /\ \A i \in 1 .. Len(s) - 1 : Tail(s)[i] = s[i + 1]
  BY <1>1, HeadTailProperties
<1> DEFINE g == [i \in 1 .. Len(s) |-> f[i + 1]]
<1>4. g \in [1 .. (Len(Tail(s)) + 1) -> V] /\ g[1] = f[2] /\ g[Len(Tail(s)) + 1] = b
  BY <1>1, <1>2, <1>3
<1>5. ASSUME NEW i \in 1 .. Len(Tail(s)) PROVE <<Tail(s)[i], g[i], g[i + 1]>> \in R
  <2>1. g[i] = f[i + 1] /\ g[i + 1] = f[(i + 1) + 1] /\ Tail(s)[i] = s[i + 1] /\ i + 1 \in 1 .. Len(s)
    BY <1>1, <1>3
  <2> HIDE DEF g
  <2>2. QED
    BY <1>2, <2>1, Zenon
<1> HIDE DEF g
<1>6. Path(C, V, R, Tail(s), f[2], b)
  BY <1>3, <1>4, <1>5 DEF Path
<1>7. f[2] \in V /\ <<s[1], f[1], f[2]>> \in R
  BY <1>1, <1>2
<1>8. QED
  BY <1>2, <1>3, <1>6, <1>7

(* Two commands.                                                           *)
LEMMA PairIs ==
  ASSUME NEW C, NEW a \in C, NEW b \in C
  PROVE  <<a>> \o <<b>> = <<a, b>>
<1>1. <<a>> \in Seq(C) /\ <<b>> \in Seq(C) /\ <<a, b>> \in Seq(C)
      /\ Len(<<a>>) = 1 /\ Len(<<b>>) = 1 /\ Len(<<a, b>>) = 2
  OBVIOUS
<1>2. <<a>> \o <<b>> \in Seq(C) /\ Len(<<a>> \o <<b>>) = 2
      /\ \A i \in 1 .. 2 : (<<a>> \o <<b>>)[i] = IF i <= 1 THEN <<a>>[i] ELSE <<b>>[i - 1]
  BY <1>1, ConcatProperties
<1>3. \A i \in 1 .. 2 : (<<a>> \o <<b>>)[i] = <<a, b>>[i]
  BY <1>2
<1> DEFINE s == <<a>> \o <<b>>
<1>4. s \in Seq(C) /\ Len(s) = Len(<<a, b>>) /\ \A i \in 1 .. Len(s) : s[i] = <<a, b>>[i]
  BY <1>1, <1>2, <1>3
<1> HIDE DEF s
<1>5. s = <<a, b>>
  BY <1>1, <1>4, SeqEqual
<1>6. QED
  BY <1>5 DEF s

(* What every command keeps holds all along, and then another relation may *)
(* take the place of R.                                                    *)
LEMMA PathKeeps ==
  ASSUME NEW C, NEW V, NEW R, NEW s, NEW a, NEW b, Path(C, V, R, s, a, b),
         NEW D, NEW U, NEW Q, a \in U,
         \A c \in C, x \in V, y \in V :
           <<c, x, y>> \in R /\ x \in U => c \in D /\ y \in U /\ <<c, x, y>> \in Q
  PROVE  Path(D, U, Q, s, a, b)
<1>1. s \in Seq(C) /\ Len(s) \in Nat /\ \A i \in 1 .. Len(s) : s[i] \in C
  BY LenProperties, ElementOfSeq DEF Path
<1>2. PICK f \in [1 .. (Len(s) + 1) -> V] :
        /\ f[1] = a /\ f[Len(s) + 1] = b
        /\ \A i \in 1 .. Len(s) : <<s[i], f[i], f[i + 1]>> \in R
  BY DEF Path
<1> DEFINE S == {n \in Nat : n < Len(s) + 1 => f[n + 1] \in U}
<1>3. 0 \in S
  BY <1>2
<1>4. ASSUME NEW i \in 1 .. Len(s), f[i] \in U
      PROVE  s[i] \in D /\ f[i + 1] \in U /\ <<s[i], f[i], f[i + 1]>> \in Q
  <2>1. s[i] \in C /\ f[i] \in V /\ f[i + 1] \in V /\ <<s[i], f[i], f[i + 1]>> \in R
    BY <1>1, <1>2
  <2>2. QED
    BY <1>4, <2>1
<1>5. ASSUME NEW n \in Nat, n \in S PROVE n + 1 \in S
  <2>1. CASE n + 1 < Len(s) + 1
    <3>1. n + 1 \in 1 .. Len(s) /\ f[n + 1] \in U
      BY <1>1, <1>5, <2>1
    <3>2. f[(n + 1) + 1] \in U
      BY <1>4, <3>1, Zenon
    <3>3. QED
      BY <3>2
  <2>2. CASE ~(n + 1 < Len(s) + 1)
    BY <2>2
  <2>3. QED
    BY <2>1, <2>2
<1>6. Nat \subseteq S
  <2> HIDE DEF S
  <2>1. QED
    BY <1>3, <1>5, Induction
<1>7. ASSUME NEW i \in 1 .. (Len(s) + 1) PROVE f[i] \in U
  <2>1. i - 1 \in Nat /\ i - 1 < Len(s) + 1 /\ (i - 1) + 1 = i
    BY <1>1
  <2>2. f[(i - 1) + 1] \in U
    BY <1>6, <2>1
  <2>3. QED
    BY <2>1, <2>2
<1>8. f \in [1 .. (Len(s) + 1) -> U]
  BY <1>2, <1>7
<1>9. \A i \in 1 .. Len(s) : s[i] \in D /\ <<s[i], f[i], f[i + 1]>> \in Q
  BY <1>1, <1>4, <1>7
<1>10. s \in Seq(D)
  <2>1. SubSeq(s, 1, Len(s)) = s
    BY <1>1, SubSeqFull
  <2>2. 1 \in Int /\ Len(s) \in Int
    BY <1>1
  <2>3. SubSeq(s, 1, Len(s)) \in Seq(D)
    BY <1>9, <2>2, SubSeqProperties
  <2>4. QED
    BY <2>1, <2>3, Zenon
<1>11. QED
  BY <1>2, <1>8, <1>9, <1>10 DEF Path

(* FlattenSeq appends one sequence after another.                          *)
Flattens(q, n, g) ==
  /\ FlattenSeq(q) = g[n] /\ g[1] = q[1]
  /\ \A i \in 1 .. n - 1 : g[i + 1] = g[i] \o q[i + 1]

LEMMA FlattenSteps ==
  ASSUME NEW C, NEW N \in Nat \ {0}, NEW q \in [1 .. N -> Seq(C)]
  PROVE  \E g \in [1 .. N -> Seq(C)] : Flattens(q, N, g)
<1> DEFINE Is(g, n) == g = [i \in 1 .. n |-> IF i = 1 THEN q[i] ELSE g[i - 1] \o q[i]]
           S == {n \in Nat : \E g \in [1 .. n -> Seq(C)] : Is(g, n)}
           flat == CHOOSE g : Is(g, N)
<1>1. 0 \in S
  <2>1. [i \in 1 .. 0 |-> <<>>] \in [1 .. 0 -> Seq(C)] /\ Is([i \in 1 .. 0 |-> <<>>], 0)
    OBVIOUS
  <2>2. QED
    BY <2>1
<1>2. ASSUME NEW n \in Nat, n \in S, n + 1 <= N PROVE n + 1 \in S
  <2>1. PICK g \in [1 .. n -> Seq(C)] : Is(g, n)
    BY <1>2
  <2> DEFINE x == IF n = 0 THEN q[1] ELSE g[n] \o q[n + 1]
             h == [i \in 1 .. (n + 1) |-> IF i <= n THEN g[i] ELSE x]
  <2>2. x \in Seq(C)
    <3>1. CASE n = 0
      BY <3>1
    <3>2. CASE n # 0
      <4>1. g[n] \in Seq(C) /\ q[n + 1] \in Seq(C)
        BY <1>2, <3>2
      <4>2. QED
        BY <3>2, <4>1, ConcatProperties
    <3>3. QED
      BY <3>1, <3>2
  <2> HIDE DEF x
  <2>3. h \in [1 .. (n + 1) -> Seq(C)]
    BY <2>2
  <2>4. ASSUME NEW i \in 1 .. (n + 1)
        PROVE  h[i] = IF i = 1 THEN q[i] ELSE h[i - 1] \o q[i]
    <3>1. CASE i <= n
      <4>1. g[i] = IF i = 1 THEN q[i] ELSE g[i - 1] \o q[i]
        <5>1. i \in 1 .. n
          BY <3>1
        <5>2. QED
          BY <2>1, <5>1, Zenon
      <4>2. h[i] = g[i] /\ (i # 1 => h[i - 1] = g[i - 1])
        BY <3>1
      <4>3. QED
        BY <4>1, <4>2
    <3>2. CASE ~(i <= n)
      <4>1. i = n + 1 /\ h[i] = x /\ (n # 0 => h[i - 1] = g[n])
        BY <3>2
      <4>2. QED
        BY <4>1 DEF x
    <3>3. QED
      BY <3>1, <3>2
  <2>5. Is(h, n + 1)
    <3>1. h = [i \in 1 .. (n + 1) |-> h[i]]
      OBVIOUS
    <3> HIDE DEF h
    <3>2. QED
      BY <2>4, <3>1
  <2> HIDE DEF h, Is
  <2>6. n + 1 \in Nat /\ \E k \in [1 .. (n + 1) -> Seq(C)] : Is(k, n + 1)
    BY <2>3, <2>5
  <2>7. QED
    BY <2>6, Zenon
<1> HIDE DEF Is
<1> DEFINE T == {n \in Nat : n <= N => n \in S}
<1>3. Nat \subseteq T
  <2>1. 0 \in T
    BY <1>1
  <2>2. ASSUME NEW n \in Nat, n \in T PROVE n + 1 \in T
    <3>1. n + 1 <= N => n <= N
      OBVIOUS
    <3>2. n + 1 <= N => n + 1 \in S
      BY <1>2, <2>2, <3>1, Zenon
    <3>3. QED
      BY <3>2
  <2> HIDE DEF T
  <2>3. QED
    BY <2>1, <2>2, Induction
<1>4. PICK g \in [1 .. N -> Seq(C)] : Is(g, N)
  <2>1. N \in T /\ N <= N
    BY <1>3
  <2>2. QED
    BY <2>1, Zenon
<1>5. Is(flat, N)
  BY <1>4, Zenon
<1> USE DEF Is
<1>6. Len(q) = N /\ Len(q) # 0 /\ FlattenSeq(q) = flat[N]
  <2>1. q \in Seq(Seq(C)) /\ Len(q) = N
    OBVIOUS
  <2>2. QED
    BY <2>1 DEF FlattenSeq
<1> HIDE DEF flat, S, T
<1>7. \A i \in 1 .. N : flat[i] = IF i = 1 THEN q[i] ELSE flat[i - 1] \o q[i]
  BY <1>5, Zenon
<1>8. flat = [i \in 1 .. N |-> flat[i]]
  BY <1>5
<1> HIDE DEF Is
<1>9. flat[1] = q[1] /\ \A i \in 1 .. N - 1 : flat[i + 1] = flat[i] \o q[i + 1]
  <2>1. ASSUME NEW i \in 1 .. N - 1 PROVE flat[i + 1] = flat[i] \o q[i + 1]
    <3>1. i + 1 \in 1 .. N /\ i + 1 # 1 /\ (i + 1) - 1 = i
      OBVIOUS
    <3>2. flat[i + 1] = flat[(i + 1) - 1] \o q[i + 1]
      BY <1>7, <3>1, Zenon
    <3>3. QED
      BY <3>1, <3>2, Zenon
  <2>2. 1 \in 1 .. N
    OBVIOUS
  <2>3. flat[1] = q[1]
    BY <1>7, <2>2, Zenon
  <2>4. QED
    BY <2>1, <2>3
<1> DEFINE U == {n \in Nat : n < N => flat[n + 1] \in Seq(C)}
<1>10. Nat \subseteq U
  <2>1. 0 \in U
    BY <1>7
  <2>2. ASSUME NEW n \in Nat, n \in U PROVE n + 1 \in U
    <3>1. CASE n + 1 < N
      <4>1. flat[(n + 1) + 1] = flat[n + 1] \o q[(n + 1) + 1]
        <5>1. n + 1 \in 1 .. N - 1
          BY <3>1
        <5>2. QED
          BY <1>9, <5>1, Zenon
      <4>2. flat[n + 1] \in Seq(C) /\ q[(n + 1) + 1] \in Seq(C)
        BY <2>2, <3>1
      <4>3. flat[n + 1] \o q[(n + 1) + 1] \in Seq(C)
        BY <4>2, ConcatProperties
      <4>4. flat[(n + 1) + 1] \in Seq(C)
        BY <4>1, <4>3, Zenon
      <4>5. QED
        BY <4>4
    <3>2. CASE ~(n + 1 < N)
      BY <3>2
    <3>3. QED
      BY <3>1, <3>2
  <2> HIDE DEF U
  <2>3. QED
    BY <2>1, <2>2, Induction
<1>11. ASSUME NEW i \in 1 .. N PROVE flat[i] \in Seq(C)
  <2>1. i - 1 \in Nat /\ i - 1 < N /\ (i - 1) + 1 = i
    OBVIOUS
  <2>2. flat[(i - 1) + 1] \in Seq(C)
    BY <1>10, <2>1
  <2>3. QED
    BY <2>1, <2>2
<1>12. flat \in [1 .. N -> Seq(C)]
  BY <1>8, <1>11
<1>13. QED
  BY <1>6, <1>12, <1>9, Zenon DEF Flattens

(* Paths one after another are a path.                                     *)
LEMMA PathFlatten ==
  ASSUME NEW C, NEW V, NEW R, NEW N \in Nat \ {0}, NEW q \in [1 .. N -> Seq(C)],
         NEW p \in [1 .. (N + 1) -> V],
         \A i \in 1 .. N : Path(C, V, R, q[i], p[i], p[i + 1])
  PROVE  Path(C, V, R, FlattenSeq(q), p[1], p[N + 1])
<1>1. PICK g \in [1 .. N -> Seq(C)] :
        /\ FlattenSeq(q) = g[N] /\ g[1] = q[1]
        /\ \A i \in 1 .. N - 1 : g[i + 1] = g[i] \o q[i + 1]
  <2>1. PICK g \in [1 .. N -> Seq(C)] : Flattens(q, N, g)
    BY FlattenSteps
  <2>2. QED
    BY <2>1 DEF Flattens
<1> DEFINE S == {n \in Nat : n < N => Path(C, V, R, g[n + 1], p[1], p[(n + 1) + 1])}
<1>2. 0 \in S
  <2>1. Path(C, V, R, q[1], p[1], p[1 + 1])
    OBVIOUS
  <2>2. QED
    BY <1>1, <2>1
<1>3. ASSUME NEW n \in Nat, n \in S PROVE n + 1 \in S
  <2>1. CASE n + 1 < N
    <3>1. g[(n + 1) + 1] = g[n + 1] \o q[(n + 1) + 1]
      <4>1. n + 1 \in 1 .. N - 1
        BY <2>1
      <4>2. QED
        BY <1>1, <4>1, Zenon
    <3>2. Path(C, V, R, g[n + 1], p[1], p[(n + 1) + 1])
      BY <1>3, <2>1
    <3>3. Path(C, V, R, q[(n + 1) + 1], p[(n + 1) + 1], p[((n + 1) + 1) + 1])
      BY <2>1
    <3>4. Path(C, V, R, g[n + 1] \o q[(n + 1) + 1], p[1], p[((n + 1) + 1) + 1])
      BY <3>2, <3>3, PathConcat
    <3>5. Path(C, V, R, g[(n + 1) + 1], p[1], p[((n + 1) + 1) + 1])
      BY <3>1, <3>4, Zenon
    <3>6. QED
      BY <3>5
  <2>2. CASE ~(n + 1 < N)
    BY <2>2
  <2>3. QED
    BY <2>1, <2>2
<1>4. Nat \subseteq S
  <2> HIDE DEF S
  <2>1. QED
    BY <1>2, <1>3, Induction
<1>5. N - 1 \in Nat /\ N - 1 < N /\ (N - 1) + 1 = N
  OBVIOUS
<1>6. Path(C, V, R, g[(N - 1) + 1], p[1], p[((N - 1) + 1) + 1])
  BY <1>4, <1>5
<1>7. QED
  BY <1>1, <1>5, <1>6

-------------------------------------------------------------------------------
(* The functions an export calls.                                          *)

(* Is the chip not selected since the channel was opened, or is it, or was *)
(* it before?                                                              *)
Levels == {"new", "low", "high"}

Ops ==
  [op : {"select"}, high : BOOLEAN] \cup [op : {"transfer", "command"}, n : Nat \ {0}]
  \cup [op : {"wait", "status"}]

(* Bytes go to a chip that is selected, and a selection begins with one    *)
(* that is not; a wait is for bytes that were sent.                        *)
Allowed(o, l, m) ==
  \/ o.op = "select" /\ o.high /\ m = IF l = "new" THEN "new" ELSE "high"
  \/ o.op = "select" /\ ~o.high /\ l # "low" /\ m = "low"
  \/ o.op \in {"transfer", "command"} /\ l = "low" /\ m = "low"
  \/ o.op = "wait" /\ l # "new" /\ m = l
  \/ o.op = "status" /\ m = l

Work == {x \in Ops \X Levels \X Levels : Allowed(x[1], x[2], x[3])}

Does(s, l, m) == Path(Ops, Levels, Work, s, l, m)

LEMMA DoesOne ==
  ASSUME NEW o \in Ops, NEW l \in Levels, NEW m \in Levels, Allowed(o, l, m)
  PROVE  Does(<<o>>, l, m)
<1>1. <<o, l, m>> \in Work
  BY DEF Work
<1>2. QED
  BY <1>1, PathOne DEF Does

LEMMA DoesConcat ==
  ASSUME NEW s, NEW t, NEW l, NEW m, NEW n, Does(s, l, m), Does(t, m, n)
  PROVE  Does(s \o t, l, n)
BY PathConcat DEF Does

(* A loop whose body leaves the level as it is.                            *)
LEMMA DoesTimes ==
  ASSUME NEW s, NEW l, NEW n \in Nat \ {0}, Does(s, l, l)
  PROVE  Does(Times(n, s), l, l)
<1> DEFINE q == [i \in 1 .. n |-> s]
           p == [i \in 1 .. (n + 1) |-> l]
<1>1. s \in Seq(Ops) /\ l \in Levels
  BY PathTyped DEF Does
<1>2. q \in [1 .. n -> Seq(Ops)] /\ p \in [1 .. (n + 1) -> Levels] /\ p[1] = l /\ p[n + 1] = l
  BY <1>1
<1>3. \A i \in 1 .. n : Path(Ops, Levels, Work, q[i], p[i], p[i + 1])
  BY DEF Does
<1> HIDE DEF q, p
<1>4. Path(Ops, Levels, Work, FlattenSeq(q), p[1], p[n + 1])
  BY <1>2, <1>3, PathFlatten
<1>5. Times(n, s) = FlattenSeq(q)
  BY DEF Times, q
<1>6. QED
  BY <1>2, <1>4, <1>5, Zenon DEF Does

(* The functions one by one.                                               *)
LEMMA FunctionsDo ==
  /\ \A l \in Levels : Does(Select(TRUE), l, IF l = "new" THEN "new" ELSE "high")
  /\ \A l \in {"new", "high"} : Does(Select(FALSE), l, "low")
  /\ Does(Transfer, "low", "low")
  /\ \A n \in Nat \ {0} : Does(SendCommand(n), "low", "low") /\ Does(ReadPacket(n), "low", "low")
  /\ \A l \in {"low", "high"} : Does(WaitForReady, l, l)
  /\ \A l \in Levels : Does(ReadStatus, l, l)
<1>1. \A high \in BOOLEAN : [op |-> "select", high |-> high] \in Ops
  BY DEF Ops
<1>2. \A n \in Nat \ {0} : /\ [op |-> "transfer", n |-> n] \in Ops
                          /\ [op |-> "command", n |-> n] \in Ops
  BY DEF Ops
<1>3. [op |-> "wait"] \in Ops /\ [op |-> "status"] \in Ops
  BY DEF Ops
<1>4. ASSUME NEW l \in Levels PROVE Does(Select(TRUE), l, IF l = "new" THEN "new" ELSE "high")
  <2>1. (IF l = "new" THEN "new" ELSE "high") \in Levels
    BY DEF Levels
  <2>2. Allowed([op |-> "select", high |-> TRUE], l, IF l = "new" THEN "new" ELSE "high")
    BY DEF Allowed
  <2>3. QED
    BY <1>1, <2>1, <2>2, DoesOne DEF Select
<1>5. ASSUME NEW l \in {"new", "high"} PROVE Does(Select(FALSE), l, "low")
  <2>1. l \in Levels /\ "low" \in Levels
    BY DEF Levels
  <2>2. Allowed([op |-> "select", high |-> FALSE], l, "low")
    BY DEF Allowed
  <2>3. QED
    BY <1>1, <2>1, <2>2, DoesOne DEF Select
<1>6. "low" \in Levels /\ "high" \in Levels
  BY DEF Levels
<1>7. ASSUME NEW n \in Nat \ {0}
      PROVE  Does(<<[op |-> "transfer", n |-> n]>>, "low", "low")
             /\ Does(<<[op |-> "command", n |-> n]>>, "low", "low")
  <2>1. /\ Allowed([op |-> "transfer", n |-> n], "low", "low")
        /\ Allowed([op |-> "command", n |-> n], "low", "low")
    BY DEF Allowed
  <2>2. QED
    BY <1>2, <1>6, <2>1, DoesOne
<1>8. ASSUME NEW l \in {"low", "high"} PROVE Does(WaitForReady, l, l)
  <2>1. Allowed([op |-> "wait"], l, l)
    BY DEF Allowed
  <2>2. QED
    BY <1>3, <1>6, <2>1, DoesOne DEF WaitForReady
<1>9. ASSUME NEW l \in Levels PROVE Does(ReadStatus, l, l)
  <2>1. Allowed([op |-> "status"], l, l)
    BY DEF Allowed
  <2>2. QED
    BY <1>3, <2>1, DoesOne DEF ReadStatus
<1>10. Does(Transfer, "low", "low")
  <2>1. 1 \in Nat \ {0}
    OBVIOUS
  <2>2. QED
    BY <1>7, <2>1, Zenon DEF Transfer
<1>11. \A n \in Nat \ {0} : Does(SendCommand(n), "low", "low") /\ Does(ReadPacket(n), "low", "low")
  BY <1>7 DEF SendCommand, ReadPacket
<1>12. QED
  BY <1>4, <1>5, <1>8, <1>9, <1>10, <1>11

(* A selection of a chip that is not selected.                             *)
LEMMA FrameDoes ==
  ASSUME NEW s, Does(s, "low", "low"), NEW l \in {"new", "high"}
  PROVE  Does(Frame(s), l, "high")
<1>1. Does(Select(FALSE), l, "low") /\ Does(Select(TRUE), "low", "high")
  <2>1. "low" \in Levels /\ (IF "low" = "new" THEN "new" ELSE "high") = "high"
    BY DEF Levels
  <2>2. Does(Select(TRUE), "low", IF "low" = "new" THEN "new" ELSE "high")
    BY <2>1, FunctionsDo, Zenon
  <2>3. QED
    BY <2>1, <2>2, FunctionsDo
<1>2. QED
  BY <1>1, DoesConcat, Zenon DEF Frame

(* Every export selects a chip that is not selected, sends to one that is, *)
(* and leaves it deselected.                                               *)
LEMMA ExportsDo ==
  ASSUME NEW x \in Exports, NEW l \in {"new", "high"}
  PROVE  Does(x, l, "high")
<1> USE PinsAssumption
<1> DEFINE WaitTransfer == WaitForReady \o Transfer
<1>1. Does(Select(TRUE), l, l)
  <2>1. l \in Levels /\ (IF l = "new" THEN "new" ELSE "high") = l
    BY DEF Levels
  <2>2. QED
    BY <2>1, FunctionsDo
<1>2. Does(Transfer, "low", "low") /\ Does(WaitForReady, "low", "low")
      /\ Does(WaitForReady, "high", "high") /\ Does(ReadStatus, "high", "high")
  <2>1. "high" \in Levels /\ "low" \in {"low", "high"} /\ "high" \in {"low", "high"}
    BY DEF Levels
  <2>2. QED
    BY <2>1, FunctionsDo
<1>3. Does(WaitTransfer, "low", "low")
  BY <1>2, DoesConcat
<1>4. \A n \in Nat \ {0} : /\ Does(Times(n, Transfer), "low", "low")
                          /\ Does(Times(n, WaitTransfer), "low", "low")
  BY <1>2, <1>3, DoesTimes
<1>5. 2 \in Nat \ {0} /\ 3 \in Nat \ {0} /\ Addressed + Word \in Nat \ {0} /\ Addressed \in Nat \ {0}
      /\ DataBytes \in Nat \ {0} /\ Word \in Nat \ {0}
  OBVIOUS
<1>6. \A n \in Nat \ {0} : Does(SendCommand(n), "low", "low") /\ Does(ReadPacket(n), "low", "low")
  BY FunctionsDo, Zenon
<1> HIDE PinsAssumption
<1> HIDE DEF WaitTransfer
<1>7. l \in {"new", "high"} /\ "high" \in {"new", "high"}
  OBVIOUS
<1>8. CASE x = ISD_Init
  <2>1. Does(Frame(Transfer), l, "high") /\ Does(Frame(Times(3, Transfer)), "high", "high")
    BY <1>2, <1>4, <1>5, <1>7, FrameDoes, Zenon
  <2>2. Does(Select(TRUE) \o Frame(Transfer), l, "high")
    BY <1>1, <2>1, DoesConcat, Zenon
  <2>3. Does(Select(TRUE) \o Frame(Transfer) \o WaitForReady, l, "high")
    BY <1>2, <2>2, DoesConcat, Zenon
  <2>4. Does(Select(TRUE) \o Frame(Transfer) \o WaitForReady \o Frame(Times(3, Transfer)), l, "high")
    BY <2>1, <2>3, DoesConcat, Zenon
  <2>5. QED
    BY <1>2, <1>8, <2>4, DoesConcat, Zenon DEF ISD_Init
<1>9. CASE x = ISD2100_PowerDown
  <2>1. Does(Frame(Transfer), l, "high")
    BY <1>2, <1>7, FrameDoes, Zenon
  <2>2. QED
    BY <1>1, <1>9, <2>1, DoesConcat, Zenon DEF ISD2100_PowerDown
<1>10. CASE x = ReadChunk
  <2>1. Does(WaitForReady \o SendCommand(Addressed), "low", "low")
    BY <1>2, <1>5, <1>6, DoesConcat, Zenon
  <2>2. Does(WaitForReady \o SendCommand(Addressed) \o Times(DataBytes, WaitTransfer), "low", "low")
    BY <1>4, <1>5, <2>1, DoesConcat, Zenon
  <2>3. QED
    BY <1>7, <1>10, <2>2, FrameDoes, Zenon DEF ReadChunk, WaitTransfer
<1>11. CASE x = Sampled
  <2>1. Does(WaitForReady \o SendCommand(Addressed), "low", "low")
    BY <1>2, <1>5, <1>6, DoesConcat, Zenon
  <2>2. Does(WaitForReady \o SendCommand(Addressed) \o WaitForReady, "low", "low")
    BY <1>2, <2>1, DoesConcat, Zenon
  <2>3. Does(WaitForReady \o SendCommand(Addressed) \o WaitForReady \o Times(Word, Transfer), "low", "low")
    BY <1>4, <1>5, <2>2, DoesConcat, Zenon
  <2>4. QED
    BY <1>7, <1>11, <2>3, FrameDoes, Zenon DEF Sampled
<1>12. CASE x = ISD_EraseMass
  <2>1. Does(Frame(Times(2, WaitTransfer)), l, "high")
    BY <1>4, <1>5, <1>7, FrameDoes, Zenon
  <2>2. QED
    BY <1>2, <1>12, <2>1, DoesConcat, Zenon DEF ISD_EraseMass, WaitTransfer
<1>13. CASE x = Play
  BY <1>4, <1>5, <1>7, <1>13, FrameDoes, Zenon DEF Play, WaitTransfer
<1>14. \A m \in {"new", "high"} : Does(Packet, m, "high")
  BY <1>5, <1>6, FrameDoes, Zenon DEF Packet
<1>15. CASE x = Checkpoint
  <2>1. Does(WaitForReady \o ReadPacket(Addressed + Word), "low", "low")
    BY <1>2, <1>5, <1>6, DoesConcat, Zenon
  <2>2. Does(Frame(WaitForReady \o ReadPacket(Addressed + Word)), "high", "high")
    BY <1>7, <2>1, FrameDoes, Zenon
  <2>3. Does(Packet, l, "high")
    BY <1>7, <1>14, Zenon
  <2>4. QED
    BY <1>15, <2>2, <2>3, DoesConcat, Zenon DEF Checkpoint
<1>16. QED
  BY <1>8, <1>9, <1>10, <1>11, <1>12, <1>13, <1>14, <1>15, Zenon DEF Exports

-------------------------------------------------------------------------------
(* What the FT2232H and the chip do with a command.                        *)

Labels    == {None} \cup (Int \X Int)
PinStates == [sk : 0 .. 1, mosi : Labels, ss : BOOLEAN]
Orders    == [op : {"set"}, pins : PinStates] \cup [op : {"read"}]

(* The pins, the bits taken and put out, the replies that are still due.   *)
Situations == [pins : PinStates, bits : Nat, out : Nat, left : Nat]

Situation(p, b, o, n) == [pins |-> p, bits |-> b, out |-> o, left |-> n]

(* The pins change, and every bit taken is the next one.                   *)
Pinned(p, s, t) ==
  /\ t.pins = p /\ t.left = s.left
  /\ IF s.pins.ss /\ ~p.ss THEN t.bits = 0 /\ t.out = 0
     ELSE IF p.ss THEN t.bits = s.bits /\ t.out = s.out
     ELSE IF s.pins.sk = 1 /\ p.sk = 0 THEN t.bits = s.bits /\ t.out = s.out + 1
     ELSE IF s.pins.sk = 0 /\ p.sk = 1
     THEN t.bits = s.bits + 1 /\ t.out = s.out /\ p.mosi = s.pins.mosi /\ p.mosi = NthBit(t.bits)
     ELSE t.bits = s.bits /\ t.out = s.out

(* The pins are read, when they show what w waits for: that so many bits   *)
(* have been taken, or the next of its bits.                               *)
Looked(w, s, t) ==
  /\ s.left > 0 /\ t = Situation(s.pins, s.bits, s.out, s.left - 1)
  /\ w.wait => s.bits = w.base
  /\ ~w.wait => ~s.pins.ss /\ s.out = w.base + (w.n - s.left) + 1

Moves(w) ==
  {x \in Orders \X Situations \X Situations :
     \/ x[1].op = "set" /\ Pinned(x[1].pins, x[2], x[3])
     \/ x[1].op = "read" /\ Looked(w, x[2], x[3])}

Runs(w, s, a, b) == Path(Orders, Situations, Moves(w), s, a, b)

Wait(b)        == [wait |-> TRUE, base |-> b, n |-> 1]
Transfers(b, n) == [wait |-> FALSE, base |-> b, n |-> n]

LEMMA SituationParts ==
  /\ \A p \in PinStates, b \in Nat, o \in Nat, n \in Nat : Situation(p, b, o, n) \in Situations
  /\ \A p, b, o, n : /\ Situation(p, b, o, n).pins = p /\ Situation(p, b, o, n).bits = b
                     /\ Situation(p, b, o, n).out = o /\ Situation(p, b, o, n).left = n
  /\ \A s \in Situations : /\ s.pins \in PinStates /\ s.bits \in Nat
                           /\ s.out \in Nat /\ s.left \in Nat
                           /\ s = Situation(s.pins, s.bits, s.out, s.left)
BY DEF Situations, Situation

LEMMA OrderParts ==
  /\ ReadPins \in Orders /\ ReadPins.op = "read"
  /\ \A sk \in 0 .. 1, m \in Labels, ss \in BOOLEAN :
       /\ SetPins(sk, m, ss) \in Orders /\ SetPins(sk, m, ss).op = "set"
       /\ SetPins(sk, m, ss).pins \in PinStates /\ SetPins(sk, m, ss).pins.sk = sk
       /\ SetPins(sk, m, ss).pins.mosi = m /\ SetPins(sk, m, ss).pins.ss = ss
  /\ \A c \in Orders : (c.op = "set" /\ c.pins \in PinStates) \/ c.op = "read"
BY DEF Orders, ReadPins, SetPins, PinStates

(* While the chip is selected.                                             *)
LEMMA LowParts ==
  ASSUME NEW sk \in 0 .. 1, NEW m \in Labels
  PROVE  /\ SetPins(sk, m, FALSE) \in Orders /\ SetPins(sk, m, FALSE).op = "set"
         /\ SetPins(sk, m, FALSE).pins \in PinStates /\ SetPins(sk, m, FALSE).pins.sk = sk
         /\ SetPins(sk, m, FALSE).pins.mosi = m /\ ~SetPins(sk, m, FALSE).pins.ss
<1>1. FALSE \in BOOLEAN
  OBVIOUS
<1>2. SetPins(sk, m, FALSE).pins.ss = FALSE
  BY <1>1, OrderParts, Zenon
<1>3. ~SetPins(sk, m, FALSE).pins.ss
  BY <1>2
<1>4. /\ SetPins(sk, m, FALSE) \in Orders /\ SetPins(sk, m, FALSE).op = "set"
      /\ SetPins(sk, m, FALSE).pins \in PinStates /\ SetPins(sk, m, FALSE).pins.sk = sk
      /\ SetPins(sk, m, FALSE).pins.mosi = m
  <2>1. /\ SetPins(sk, m, FALSE).op = "set" /\ SetPins(sk, m, FALSE).pins.sk = sk
        /\ SetPins(sk, m, FALSE).pins.mosi = m
    BY DEF SetPins
  <2>2. SetPins(sk, m, FALSE) \in Orders /\ SetPins(sk, m, FALSE).pins \in PinStates
    BY <1>1, OrderParts, Zenon
  <2>3. QED
    BY <2>1, <2>2
<1>5. QED
  BY <1>3, <1>4, Zenon

(* A bit has a label.                                                      *)
LEMMA BitLabels == \A n \in Int : NthBit(n) \in Labels
<1> SUFFICES ASSUME NEW n \in Int PROVE NthBit(n) \in Labels
  OBVIOUS
<1>1. ByteBits \in Nat \ {0}
  BY PinsAssumption
<1>2. (n - 1) \div ByteBits \in Int /\ (n - 1) % ByteBits \in Int
  BY <1>1
<1>3. QED
  BY <1>1, <1>2 DEF NthBit, Bit, Labels

(* Setting the pins, and reading them.                                     *)
LEMMA RunsSet ==
  ASSUME NEW w, NEW a \in Situations, NEW b \in Situations, NEW c \in Orders,
         c.op = "set", Pinned(c.pins, a, b)
  PROVE  Runs(w, <<c>>, a, b)
<1>1. <<c, a, b>> \in Moves(w)
  BY DEF Moves
<1>2. QED
  BY <1>1, PathOne DEF Runs

LEMMA RunsRead ==
  ASSUME NEW w, NEW a \in Situations, NEW b \in Situations, Looked(w, a, b)
  PROVE  Runs(w, <<ReadPins>>, a, b)
<1>1. ReadPins \in Orders /\ ReadPins.op = "read"
  BY OrderParts, Zenon
<1>2. <<ReadPins, a, b>> \in Moves(w)
  BY <1>1 DEF Moves
<1>3. QED
  BY <1>1, <1>2, PathOne DEF Runs

LEMMA RunsConcat ==
  ASSUME NEW w, NEW s, NEW t, NEW a, NEW b, NEW c, Runs(w, s, a, b), Runs(w, t, b, c)
  PROVE  Runs(w, s \o t, a, c)
BY PathConcat DEF Runs

(* When no reply is due the pins are set and not read, whoever waits.      *)
Setting == [op : {"set"}, pins : PinStates]

LEMMA RunsIdle ==
  ASSUME NEW w, NEW s, NEW a, NEW b, Runs(w, s, a, b), a.left = 0
  PROVE  b.left = 0 /\ s \in Seq(Setting) /\ \A v : Runs(v, s, a, b)
<1> DEFINE U == {x \in Situations : x.left = 0}
<1>1. a \in U
  BY PathTyped DEF Runs
<1>2. ASSUME NEW v, NEW c \in Orders, NEW x \in Situations, NEW y \in Situations,
             <<c, x, y>> \in Moves(w), x \in U
      PROVE  c \in Setting /\ y \in U /\ <<c, x, y>> \in Moves(v)
  <2>1. \/ c.op = "set" /\ Pinned(c.pins, x, y)
        \/ c.op = "read" /\ Looked(w, x, y)
    BY <1>2 DEF Moves
  <2>2. c.op = "set" /\ Pinned(c.pins, x, y)
    BY <1>2, <2>1 DEF Looked
  <2>3. c \in Setting
    BY <2>2 DEF Orders, Setting
  <2>4. y \in U
    BY <1>2, <2>2 DEF Pinned
  <2>5. <<c, x, y>> \in Moves(v)
    BY <2>2 DEF Moves
  <2>6. QED
    BY <2>3, <2>4, <2>5
<1> HIDE DEF U
<1>3. ASSUME NEW v PROVE Path(Setting, U, Moves(v), s, a, b) /\ Path(Orders, U, Moves(v), s, a, b)
  <2>1. Path(Setting, U, Moves(v), s, a, b)
    BY <1>1, <1>2, PathKeeps DEF Runs
  <2>2. Path(Orders, U, Moves(v), s, a, b)
    BY <1>1, <1>2, PathKeeps DEF Runs
  <2>3. QED
    BY <2>1, <2>2
<1>4. s \in Seq(Setting) /\ b \in U
  BY <1>3, PathTyped
<1>5. ASSUME NEW v PROVE Runs(v, s, a, b)
  <2>1. Path(Orders, U, Moves(v), s, a, b) /\ a \in Situations
    BY <1>3, PathTyped DEF Runs
  <2>2. \A c \in Orders, x \in U, y \in U : c \in Orders /\ y \in Situations
    BY DEF U
  <2>3. QED
    BY <2>1, <2>2, PathKeeps DEF Runs
<1>6. QED
  BY <1>4, <1>5 DEF U

(* Replies that come later do not matter to it.                            *)
LEMMA RunsBefore ==
  ASSUME NEW w, NEW s, NEW a, NEW b, Runs(w, s, a, b), a.left = 0, NEW n \in Nat
  PROVE  \A v : Runs(v, s, Situation(a.pins, a.bits, a.out, n), Situation(b.pins, b.bits, b.out, n))
<1> SUFFICES ASSUME NEW v
             PROVE  Runs(v, s, Situation(a.pins, a.bits, a.out, n), Situation(b.pins, b.bits, b.out, n))
  OBVIOUS
<1>1. s \in Seq(Setting) /\ Runs(w, s, a, b)
  BY RunsIdle, Zenon
<1>2. Setting \subseteq Orders /\ Len(s) \in Nat /\ \A i \in 1 .. Len(s) : s[i] \in Setting
  BY <1>1, LenProperties, ElementOfSeq DEF Setting, Orders
<1>3. PICK f \in [1 .. (Len(s) + 1) -> Situations] :
        /\ f[1] = a /\ f[Len(s) + 1] = b
        /\ \A i \in 1 .. Len(s) : <<s[i], f[i], f[i + 1]>> \in Moves(w)
  BY <1>1 DEF Runs, Path
<1> DEFINE To(x) == Situation(x.pins, x.bits, x.out, n)
           g == [i \in 1 .. (Len(s) + 1) |-> To(f[i])]
<1>4. \A x \in Situations : To(x) \in Situations
  BY SituationParts
<1>5. ASSUME NEW c \in Setting, NEW x \in Situations, NEW y \in Situations, <<c, x, y>> \in Moves(w)
      PROVE  <<c, To(x), To(y)>> \in Moves(v)
  <2>1. c.op = "set" /\ c \in Orders /\ c.op # "read"
    BY <1>2 DEF Setting
  <2>2. Pinned(c.pins, x, y)
    BY <1>5, <2>1 DEF Moves
  <2>3. /\ To(x).pins = x.pins /\ To(x).bits = x.bits /\ To(x).out = x.out /\ To(x).left = n
        /\ To(y).pins = y.pins /\ To(y).bits = y.bits /\ To(y).out = y.out /\ To(y).left = n
    BY DEF Situation
  <2>4. To(x) \in Situations /\ To(y) \in Situations
    BY <1>4
  <2> HIDE DEF To
  <2>5. Pinned(c.pins, To(x), To(y))
    BY <2>2, <2>3 DEF Pinned
  <2>6. QED
    BY <2>1, <2>4, <2>5 DEF Moves
<1> HIDE DEF To
<1>6. g \in [1 .. (Len(s) + 1) -> Situations] /\ g[1] = To(a) /\ g[Len(s) + 1] = To(b)
  BY <1>2, <1>3, <1>4
<1>7. ASSUME NEW i \in 1 .. Len(s) PROVE <<s[i], g[i], g[i + 1]>> \in Moves(v)
  <2>1. s[i] \in Setting /\ f[i] \in Situations /\ f[i + 1] \in Situations
        /\ <<s[i], f[i], f[i + 1]>> \in Moves(w)
    BY <1>2, <1>3
  <2>2. g[i] = To(f[i]) /\ g[i + 1] = To(f[i + 1])
    BY <1>2
  <2>3. QED
    BY <1>5, <2>1, <2>2
<1> HIDE DEF g
<1>8. s \in Seq(Orders)
  BY <1>1, <1>2, SeqMonotonic
<1>9. Runs(v, s, To(a), To(b))
  BY <1>6, <1>7, <1>8 DEF Runs, Path
<1>10. QED
  BY <1>9 DEF To

(* The pins after bit k.                                                   *)
After(k) == SetPins(1, NthBit(k), FALSE).pins

(* A bit is put out and taken, and its reply is the one that was due.      *)
LEMMA ClockBitRuns ==
  ASSUME NEW w, NEW p \in PinStates, p.sk = 1, ~p.ss, ssState = FALSE,
         NEW b \in Nat, NEW n \in Nat, NEW look \in BOOLEAN,
         look => n > 0 /\ w.wait = FALSE /\ b = w.base + (w.n - n)
  PROVE  /\ ClockBit(NthBit(b + 1), look) \in Seq(Orders)
         /\ Runs(w, ClockBit(NthBit(b + 1), look), Situation(p, b, b, n),
                 Situation(After(b + 1), b + 1, b + 1, IF look THEN n - 1 ELSE n))
<1> DEFINE m  == NthBit(b + 1)
           c1 == SetPins(1, m, FALSE)
           c2 == SetPins(0, m, FALSE)
           s0 == Situation(p, b, b, n)
           s1 == Situation(c1.pins, b, b, n)
           s2 == Situation(c2.pins, b, b + 1, n)
           s3 == Situation(c2.pins, b, b + 1, n - 1)
           s4 == Situation(c1.pins, b + 1, b + 1, IF look THEN n - 1 ELSE n)
<1>1. m \in Labels
  BY BitLabels
<1>2. /\ c1 \in Orders /\ c1.op = "set" /\ c1.pins \in PinStates /\ c1.pins.sk = 1
      /\ c1.pins.mosi = m /\ ~c1.pins.ss
  <2>1. 1 \in 0 .. 1
    OBVIOUS
  <2>2. QED
    BY <1>1, <2>1, LowParts, Zenon
<1>3. /\ c2 \in Orders /\ c2.op = "set" /\ c2.pins \in PinStates /\ c2.pins.sk = 0
      /\ c2.pins.mosi = m /\ ~c2.pins.ss
  <2>1. 0 \in 0 .. 1
    OBVIOUS
  <2>2. QED
    BY <1>1, <2>1, LowParts, Zenon
<1>4. After(b + 1) = c1.pins
  BY DEF After
<1>5. ClockBit(m, look) = <<c1, c2>> \o Look(look) \o <<c1>>
  BY DEF ClockBit
<1> HIDE DEF c1, c2
<1>6. /\ s0 \in Situations /\ s1 \in Situations /\ s2 \in Situations /\ s4 \in Situations
      /\ look => s3 \in Situations
  <2>1. b + 1 \in Nat /\ (look => n - 1 \in Nat) /\ (IF look THEN n - 1 ELSE n) \in Nat
    OBVIOUS
  <2>2. QED
    BY <1>2, <1>3, <2>1, SituationParts, Zenon
<1>7. /\ s0.pins = p /\ s0.bits = b /\ s0.out = b /\ s0.left = n
      /\ s1.pins = c1.pins /\ s1.bits = b /\ s1.out = b /\ s1.left = n
      /\ s2.pins = c2.pins /\ s2.bits = b /\ s2.out = b + 1 /\ s2.left = n
      /\ s4.pins = c1.pins /\ s4.bits = b + 1 /\ s4.out = b + 1
      /\ s4.left = IF look THEN n - 1 ELSE n
  BY DEF Situation
<1>8. /\ s3 = Situation(s2.pins, s2.bits, s2.out, s2.left - 1)
      /\ s3.pins = c2.pins /\ s3.bits = b /\ s3.out = b + 1 /\ s3.left = n - 1
  BY <1>7 DEF Situation
<1> DEFINE m1 == NthBit(b + 1)
<1>9. m = m1
  OBVIOUS
<1> HIDE DEF s0, s1, s2, s3, s4, m
<1>10. Pinned(c1.pins, s0, s1)
  BY <1>2, <1>7 DEF Pinned
<1>11. Pinned(c2.pins, s1, s2)
  BY <1>2, <1>3, <1>7 DEF Pinned
<1>12. look => Looked(w, s2, s3) /\ Pinned(c1.pins, s3, s4)
  BY <1>2, <1>3, <1>7, <1>8, <1>9 DEF Looked, Pinned
<1>13. ~look => Pinned(c1.pins, s2, s4)
  BY <1>2, <1>3, <1>7, <1>9 DEF Pinned
<1>14. Runs(w, <<c1>>, s0, s1) /\ Runs(w, <<c2>>, s1, s2)
  BY <1>2, <1>3, <1>6, <1>10, <1>11, RunsSet
<1>15. look => Runs(w, <<ReadPins>>, s2, s3) /\ Runs(w, <<c1>>, s3, s4)
  BY <1>2, <1>6, <1>12, RunsSet, RunsRead
<1>16. ~look => Runs(w, <<c1>>, s2, s4)
  BY <1>2, <1>6, <1>13, RunsSet
<1>17. Runs(w, <<c1, c2>>, s0, s2)
  <2>1. <<c1>> \o <<c2>> = <<c1, c2>>
    BY <1>2, <1>3, PairIs, Zenon
  <2>2. Runs(w, <<c1>> \o <<c2>>, s0, s2)
    BY <1>14, RunsConcat, Zenon
  <2>3. QED
    BY <2>1, <2>2, Zenon
<1>18. Runs(w, ClockBit(m, look), s0, s4)
  <2>1. CASE look
    <3>1. Look(look) = <<ReadPins>>
      BY <2>1 DEF Look
    <3>2. Runs(w, <<c1, c2>> \o <<ReadPins>>, s0, s3)
      BY <1>15, <1>17, <2>1, RunsConcat, Zenon
    <3>3. QED
      BY <1>5, <1>15, <2>1, <3>1, <3>2, RunsConcat, Zenon
  <2>2. CASE ~look
    <3>1. Look(look) = <<>>
      BY <2>2 DEF Look
    <3>2. <<c1, c2>> \o <<>> = <<c1, c2>>
      <4>1. <<c1, c2>> \in Seq(Orders)
        BY <1>17, PathTyped DEF Runs
      <4>2. QED
        BY <4>1, ConcatEmptySeq, Zenon
    <3>3. QED
      BY <1>5, <1>16, <1>17, <2>2, <3>1, <3>2, RunsConcat, Zenon
  <2>3. QED
    BY <2>1, <2>2
<1>19. ClockBit(m, look) \in Seq(Orders)
  BY <1>18, PathTyped DEF Runs
<1>20. QED
  BY <1>4, <1>9, <1>18, <1>19, Zenon DEF s0, s4

(* Bytes are put out and taken bit by bit, and their replies are due then. *)
LEMMA WaveformRuns ==
  ASSUME count \in Nat, ssState = FALSE, NEW n \in Nat \ {0}, NEW look \in BOOLEAN,
         NEW a \in Situations, a.pins.sk = 1, ~a.pins.ss,
         a.bits = count * ByteBits, a.out = count * ByteBits,
         a.left = IF look THEN n * ByteBits ELSE 0
  PROVE  \E b \in Situations :
           /\ Runs(Transfers(count * ByteBits, n * ByteBits), Waveform(n, look), a, b)
           /\ b.pins.sk = 1 /\ ~b.pins.ss /\ b.left = 0
           /\ b.bits = (count + n) * ByteBits /\ b.out = (count + n) * ByteBits
<1> DEFINE B == count * ByteBits
           N == n * ByteBits
           w == Transfers(B, N)
           q == [i \in 1 .. N |-> ClockBit(NthBit(B + i), look)]
           P(i) == IF i = 0 THEN a.pins ELSE After(B + i)
           S(i) == Situation(P(i), B + i, B + i, IF look THEN N - i ELSE 0)
           p == [i \in 1 .. (N + 1) |-> S(i - 1)]
<1>1. ByteBits \in Nat \ {0}
  BY PinsAssumption
<1>2. B \in Nat /\ N \in Nat \ {0} /\ (count + n) * ByteBits = B + N
  <2>1. n >= 1 /\ ByteBits >= 1 /\ n \in Nat
    BY <1>1
  <2>2. N >= 1 /\ N \in Nat
    BY <1>1, <2>1
  <2>3. QED
    BY <1>1, <2>1, <2>2
<1>3. a = S(0)
  <2>1. a = Situation(a.pins, B, B, IF look THEN N ELSE 0)
    BY SituationParts
  <2>2. B + 0 = B /\ N - 0 = N
    BY <1>2
  <2>3. QED
    BY <2>1, <2>2
<1>4. w.wait = FALSE /\ w.base = B /\ w.n = N
  BY DEF Transfers
<1>5. Waveform(n, look) = FlattenSeq(q)
  BY DEF Waveform
<1> HIDE DEF B, N, w
<1>6. ASSUME NEW i \in 0 .. N
      PROVE  /\ P(i) \in PinStates /\ P(i).sk = 1 /\ ~P(i).ss
             /\ S(i) \in Situations
  <2>1. /\ After(B + i) \in PinStates /\ After(B + i).sk = 1 /\ ~After(B + i).ss
    <3>1. NthBit(B + i) \in Labels
      BY <1>2, BitLabels
    <3>2. 1 \in 0 .. 1
      OBVIOUS
    <3>3. QED
      BY <3>1, <3>2, LowParts, Zenon DEF After
  <2>2. P(i) \in PinStates /\ P(i).sk = 1 /\ ~P(i).ss
    BY <2>1, SituationParts
  <2>3. B + i \in Nat /\ (IF look THEN N - i ELSE 0) \in Nat
    BY <1>2
  <2> HIDE DEF P
  <2>4. QED
    BY <2>2, <2>3, SituationParts
<1>7. ASSUME NEW i \in 1 .. N
      PROVE  /\ ClockBit(NthBit(B + i), look) \in Seq(Orders)
             /\ Runs(w, ClockBit(NthBit(B + i), look), S(i - 1), S(i))
  <2> DEFINE b == B + (i - 1)
             l == IF look THEN N - (i - 1) ELSE 0
  <2>1. b \in Nat /\ l \in Nat /\ b + 1 = B + i /\ i - 1 \in 0 .. N /\ i # 0
    BY <1>2
  <2>2. P(i - 1) \in PinStates /\ P(i - 1).sk = 1 /\ ~P(i - 1).ss
    BY <1>6, <2>1
  <2>3. look => l > 0 /\ w.wait = FALSE /\ b = w.base + (w.n - l)
    BY <1>2, <1>4
  <2>4. P(i) = After(b + 1) /\ (IF look THEN N - i ELSE 0) = (IF look THEN l - 1 ELSE l)
    BY <1>2, <2>1
  <2> DEFINE x == P(i - 1)
  <2> HIDE DEF b, l, x
  <2>5. /\ ClockBit(NthBit(b + 1), look) \in Seq(Orders)
        /\ Runs(w, ClockBit(NthBit(b + 1), look), Situation(x, b, b, l),
                Situation(After(b + 1), b + 1, b + 1, IF look THEN l - 1 ELSE l))
    BY <2>1, <2>2, <2>3, ClockBitRuns DEF x
  <2>6. S(i - 1) = Situation(x, b, b, l)
    BY DEF b, l, x
  <2>7. S(i) = Situation(After(b + 1), b + 1, b + 1, IF look THEN l - 1 ELSE l)
    BY <2>1, <2>4
  <2> HIDE DEF S
  <2>8. QED
    BY <2>1, <2>5, <2>6, <2>7
<1> HIDE DEF P
<1>8. q \in [1 .. N -> Seq(Orders)]
  BY <1>7
<1>9. p \in [1 .. (N + 1) -> Situations] /\ p[1] = S(0) /\ p[N + 1] = S(N)
  <2> HIDE DEF S
  <2>1. \A i \in 1 .. (N + 1) : i - 1 \in 0 .. N
    BY <1>2
  <2>2. 1 \in 1 .. (N + 1) /\ N + 1 \in 1 .. (N + 1) /\ 1 - 1 = 0 /\ (N + 1) - 1 = N
    BY <1>2
  <2>3. QED
    BY <1>6, <2>1, <2>2
<1>10. \A i \in 1 .. N : Path(Orders, Situations, Moves(w), q[i], p[i], p[i + 1])
  <2> HIDE DEF S
  <2>1. \A i \in 1 .. N : /\ q[i] = ClockBit(NthBit(B + i), look)
                         /\ p[i] = S(i - 1) /\ p[i + 1] = S(i)
    BY <1>2
  <2>2. QED
    BY <1>7, <2>1 DEF Runs
<1>11. Runs(w, Waveform(n, look), a, S(N))
  <2> HIDE DEF S, p, q
  <2>1. Path(Orders, Situations, Moves(w), FlattenSeq(q), p[1], p[N + 1])
    BY <1>2, <1>8, <1>9, <1>10, PathFlatten
  <2>2. QED
    BY <1>3, <1>5, <1>9, <2>1 DEF Runs
<1>12. /\ S(N) \in Situations /\ S(N).pins.sk = 1 /\ ~S(N).pins.ss /\ S(N).left = 0
       /\ S(N).bits = (count + n) * ByteBits /\ S(N).out = (count + n) * ByteBits
  <2>1. N \in 0 .. N /\ N - N = 0
    BY <1>2
  <2>2. S(N) \in Situations /\ P(N).sk = 1 /\ ~P(N).ss
    BY <1>6, <2>1, Zenon
  <2>3. S(N).pins = P(N) /\ S(N).bits = B + N /\ S(N).out = B + N
        /\ S(N).left = IF look THEN N - N ELSE 0
    BY DEF Situation
  <2> HIDE DEF S
  <2>4. S(N).pins.sk = 1 /\ ~S(N).pins.ss
    BY <2>2, <2>3, Zenon
  <2>5. S(N).left = 0
    BY <2>1, <2>3
  <2>6. QED
    BY <1>2, <2>2, <2>3, <2>4, <2>5
<1> HIDE DEF S
<1>13. QED
  BY <1>11, <1>12 DEF w, B, N

(* The commands of a waveform, whoever is selected.                        *)
LEMMA WaveformTyped ==
  ASSUME count \in Nat, ssState \in BOOLEAN, NEW n \in Nat \ {0}, NEW look \in BOOLEAN
  PROVE  Waveform(n, look) \in Seq(Orders)
<1> DEFINE N == n * ByteBits
           q == [i \in 1 .. N |-> ClockBit(NthBit(count * ByteBits + i), look)]
<1>1. ByteBits \in Nat \ {0}
  BY PinsAssumption
<1>2. N \in Nat \ {0}
  <2>1. n >= 1 /\ ByteBits >= 1 /\ n \in Nat
    BY <1>1
  <2>2. QED
    BY <1>1, <2>1
<1>3. ASSUME NEW m \in Labels PROVE ClockBit(m, look) \in Seq(Orders)
  <2>1. 0 \in 0 .. 1 /\ 1 \in 0 .. 1
    OBVIOUS
  <2>2. SetPins(1, m, ssState) \in Orders /\ SetPins(0, m, ssState) \in Orders /\ ReadPins \in Orders
    BY <2>1, OrderParts, Zenon
  <2>3. <<SetPins(1, m, ssState), SetPins(0, m, ssState)>> \in Seq(Orders)
        /\ <<SetPins(1, m, ssState)>> \in Seq(Orders)
    BY <2>2
  <2>4. Look(look) \in Seq(Orders)
    BY <2>2 DEF Look
  <2>5. <<SetPins(1, m, ssState), SetPins(0, m, ssState)>> \o Look(look) \in Seq(Orders)
    BY <2>3, <2>4, ConcatProperties
  <2>6. QED
    BY <2>3, <2>5, ConcatProperties DEF ClockBit
<1>4. \A i \in 1 .. N : NthBit(count * ByteBits + i) \in Labels
  BY <1>1, BitLabels
<1>5. q \in [1 .. N -> Seq(Orders)]
  BY <1>3, <1>4
<1>6. Waveform(n, look) = FlattenSeq(q)
  BY DEF Waveform
<1> HIDE DEF N, q
<1>7. PICK g \in [1 .. N -> Seq(Orders)] : Flattens(q, N, g)
  BY <1>2, <1>5, FlattenSteps
<1>8. FlattenSeq(q) = g[N] /\ N \in 1 .. N
  BY <1>2, <1>7 DEF Flattens
<1>9. QED
  BY <1>6, <1>8

-------------------------------------------------------------------------------
(* Bits and bytes.                                                         *)

(* Division is monotonic.                                                  *)
LEMMA QuotientAtLeast ==
  ASSUME NEW a \in Nat, NEW b \in Nat, NEW k \in Nat \ {0}, k * b <= a
  PROVE  b <= a \div k
<1> DEFINE d == a \div k
<1>1. d \in Nat /\ a < k * d + k
  OBVIOUS
<1>2. ASSUME d + 1 <= b PROVE FALSE
  <2>1. PICK x \in Nat : b = d + 1 + x
    <3>1. b - (d + 1) \in Nat /\ b = d + 1 + (b - (d + 1))
      BY <1>1, <1>2
    <3>2. QED
      BY <3>1
  <2>2. k * b = k * d + k + k * x
    BY <1>1, <2>1
  <2>3. k * x \in Nat /\ k * d \in Nat /\ k * b \in Nat
    BY <1>1, <2>1
  <2>4. QED
    BY <1>1, <2>2, <2>3
<1>3. QED
  BY <1>1, <1>2

(* A quotient is the only number whose multiple is that near.              *)
LEMMA QuotientIs ==
  ASSUME NEW a \in Nat, NEW b \in Nat, NEW k \in Nat \ {0}, k * b <= a, a < k * b + k
  PROVE  a \div k = b
<1> DEFINE d == a \div k
<1>1. d \in Nat /\ k * d <= a
  OBVIOUS
<1>2. b <= d
  BY QuotientAtLeast
<1>3. k * (b + 1) = k * b + k /\ k * b \in Nat /\ k * (b + 1) \in Nat
  OBVIOUS
<1>4. ASSUME b + 1 <= d PROVE FALSE
  <2>1. PICK x \in Nat : d = b + 1 + x
    <3>1. d - (b + 1) \in Nat /\ d = b + 1 + (d - (b + 1))
      BY <1>1, <1>4
    <3>2. QED
      BY <3>1
  <2>2. k * d = k * b + k + k * x /\ k * x \in Nat
    BY <2>1
  <2>3. QED
    BY <1>1, <1>3, <2>2
<1>5. QED
  BY <1>1, <1>2, <1>4

(* A number is told apart by its quotient and its rest.                    *)
LEMMA QuotientAndRest ==
  ASSUME NEW q \in Nat, NEW k \in Nat \ {0}, NEW i \in 0 .. (k - 1)
  PROVE  (k * q + i) \div k = q /\ (k * q + i) % k = i
<1> DEFINE a == k * q + i
<1>1. k * q \in Nat /\ a \in Nat /\ k * q <= a /\ a < k * q + k
  OBVIOUS
<1>2. a \div k = q
  BY <1>1, QuotientIs
<1>3. a = k * (a \div k) + (a % k)
  BY <1>1
<1>4. a % k \in 0 .. (k - 1)
  BY <1>1
<1>5. QED
  BY <1>1, <1>2, <1>3, <1>4

(* Bit k of byte j, counted from the first bit.                            *)
LEMMA BitOfByte ==
  ASSUME NEW j \in Nat \ {0}, NEW k \in 0 .. ByteBits - 1
  PROVE  NthBit((j - 1) * ByteBits + (ByteBits - k)) = Bit(j, k)
<1>1. ByteBits \in Nat \ {0}
  BY PinsAssumption
<1> DEFINE q == j - 1
           i == (ByteBits - k) - 1
<1>2. q \in Nat /\ i \in 0 .. (ByteBits - 1)
  BY <1>1
<1>3. (ByteBits * q + i) \div ByteBits = q /\ (ByteBits * q + i) % ByteBits = i
  BY <1>1, <1>2, QuotientAndRest
<1>4. ((j - 1) * ByteBits + (ByteBits - k)) - 1 = ByteBits * q + i
  BY <1>1, <1>2
<1>5. 1 + q = j /\ (ByteBits - 1) - i = k
  BY <1>1
<1> HIDE DEF q, i
<1>6. QED
  BY <1>3, <1>4, <1>5 DEF NthBit

-------------------------------------------------------------------------------
(* The invariant.                                                          *)

Answers == [miso : Labels, rdy : BOOLEAN, at : Nat]

(* The values of the variables.                                            *)
PinsTyped ==
  /\ steps \in Seq(Ops) /\ phase \in {"start", "write", "sleep", "read"}
  /\ ssState \in BOOLEAN /\ count \in Nat
  /\ g_currentSSState \in BOOLEAN /\ g_ftHandle \in BOOLEAN /\ cut \in BOOLEAN
  /\ closing \in {"no", "select", "sleep"}
  /\ commands \in Seq(Orders) /\ replies \in Seq(Answers) /\ pins \in PinStates
  /\ received \in Seq(Labels) /\ out \in Nat

(* Where the worker can be in a function.                                  *)
PhaseInv ==
  /\ steps = <<>> => phase = "start"
  /\ phase = "sleep" => Doing("select")
  /\ phase = "write" => Doing("select") \/ Doing("transfer") \/ Doing("command")
  /\ phase = "read" => Doing("transfer") \/ Doing("wait")

(* A channel is closed under nobody who does not count as cut off.         *)
OwnedInv == ~cut /\ closing # "no" => steps = <<>>

(* Who lost the handle without being cut off left no reply behind.         *)
QuietInv == ~g_ftHandle /\ ~cut => replies = <<>> /\ commands \in Seq(Setting)

Right(a, c) ==
  /\ \A b \in 1 .. Len(a.bytes), k \in 0 .. ByteBits - 1 :
       a.bytes[b][k] = Bit(c - Len(a.bytes) + b, k)
  /\ a.ready \in {-1, ByteBits * c}

AnswerInv == ~cut => Right(answer, count)

(* The channel is open and the driver has it for itself: nobody closes it, *)
(* or nobody works on it.                                                  *)
Live == g_ftHandle /\ (closing = "no" \/ ~cut)

Asked == IF Doing("wait") THEN Wait(count * ByteBits) ELSE Transfers(count * ByteBits, Wanted)

Due  == IF phase = "read" THEN Wanted - Len(replies) ELSE 0
Now  == Situation(pins, Len(received), out, Due)
Rest == IF phase = "sleep" THEN Tail(steps) ELSE steps

(* What the driver has noted of the pin; a SPI_Select notes it before.     *)
Noted(l) ==
  g_currentSSState <=> IF Doing("select") /\ phase = "write" THEN Head(steps).high ELSE l # "low"

(* What is left of the export is in order at level l, and the commands on  *)
(* their way lead from here to e, where that level is reached and all that *)
(* was sent is taken.                                                      *)
Steady(l, e) ==
  /\ \E m \in {"new", "high"} : Does(Rest, l, m)
  /\ Runs(Asked, commands, Now, e)
  /\ e.left = 0 /\ e.pins.sk = 1 /\ (e.pins.ss <=> l # "low")
  /\ l # "new" => e.bits = SentBytes * ByteBits
  /\ l = "low" => e.out = SentBytes * ByteBits
  /\ Noted(l)

(* The replies so far are those of the function that waits for them.       *)
RepliesInv ==
  /\ phase # "read" => replies = <<>>
  /\ Doing("wait") => \A i \in 1 .. Len(replies) : replies[i].at = count * ByteBits
  /\ Doing("transfer") => \A i \in 1 .. Len(replies) : replies[i].miso = NthBit(count * ByteBits + i)

TakenInv  == ~pins.ss => \A n \in 1 .. Len(received) : received[n] = NthBit(n)
WriterInv == phase = "write" /\ ~Doing("select") => ssState = FALSE

InOrder == RepliesInv /\ TakenInv /\ WriterInv /\ \E l \in Levels, e \in Situations : Steady(l, e)

BusInv == Live => InOrder

PinsInv == PinsTyped /\ PhaseInv /\ OwnedInv /\ QuietInv /\ AnswerInv /\ BusInv

(* The function at the front.                                              *)
LEMMA FrontOf ==
  ASSUME PinsTyped, steps # <<>>
  PROVE  /\ Head(steps) \in Ops /\ Tail(steps) \in Seq(Ops)
         /\ Head(steps).op \in {"select", "transfer", "command", "wait", "status"}
         /\ Head(steps).op = "select" => Head(steps).high \in BOOLEAN
         /\ Head(steps).op \in {"transfer", "command"} => Head(steps).n \in Nat \ {0}
<1> DEFINE o == Head(steps)
<1>1. o \in Ops /\ Tail(steps) \in Seq(Ops)
  BY HeadTailProperties DEF PinsTyped
<1> HIDE DEF o
<1>2. o.op \in {"select", "transfer", "command", "wait", "status"}
  BY <1>1 DEF Ops
<1>3. o.op = "select" => o.high \in BOOLEAN
  BY <1>1 DEF Ops
<1>4. o.op \in {"transfer", "command"} => o.n \in Nat \ {0}
  BY <1>1 DEF Ops
<1>5. QED
  BY <1>1, <1>2, <1>3, <1>4, Zenon DEF o

(* A read waits for one reply or more.                                     *)
LEMMA WantedIs ==
  ASSUME PinsTyped, PhaseInv, phase = "read"
  PROVE  /\ Wanted \in Nat \ {0}
         /\ Doing("wait") => Wanted = 1
         /\ Doing("transfer") => Wanted = Head(steps).n * ByteBits /\ Head(steps).n \in Nat \ {0}
         /\ Doing("wait") <=> ~Doing("transfer")
<1>1. ByteBits \in Nat \ {0}
  BY PinsAssumption
<1>2. CASE Doing("wait")
  BY <1>2 DEF Doing, Wanted
<1>3. CASE Doing("transfer")
  <2>1. Head(steps).n \in Nat \ {0} /\ Wanted = Head(steps).n * ByteBits
    BY <1>3, FrontOf DEF Doing, Wanted
  <2>2. Head(steps).n >= 1 /\ ByteBits >= 1 /\ Head(steps).n \in Nat
    BY <1>1, <2>1
  <2>3. Wanted \in Nat \ {0}
    BY <1>1, <2>1, <2>2
  <2>4. QED
    BY <1>3, <2>1, <2>3 DEF Doing
<1>4. QED
  BY <1>2, <1>3 DEF PhaseInv

(* What the worker writes are orders.                                      *)
LEMMA WriteTyped ==
  ASSUME PinsTyped, NEW s \in Seq(Orders), FT_Write(s)
  PROVE  commands' \in Seq(Orders)
<1>1. commands \o s \in Seq(Orders)
  BY ConcatProperties DEF PinsTyped
<1>2. QED
  BY <1>1 DEF FT_Write, PinsTyped

(* One order.                                                              *)
LEMMA OneOrder ==
  /\ <<ReadPins>> \in Seq(Orders)
  /\ \A ss \in BOOLEAN : SetPins(1, None, ss) \in Setting /\ <<SetPins(1, None, ss)>> \in Seq(Orders)
<1>1. 1 \in 0 .. 1 /\ None \in Labels
  BY DEF Labels
<1>2. ReadPins \in Orders
  BY OrderParts, Zenon
<1>3. \A ss \in BOOLEAN : SetPins(1, None, ss) \in Setting
  BY <1>1 DEF Setting, SetPins, PinStates
<1>4. Setting \subseteq Orders
  BY DEF Setting, Orders
<1>5. QED
  BY <1>2, <1>3, <1>4

(* The pins of a reset chip.                                               *)
LEMMA IdleTyped == IdlePins \in PinStates
BY DEF IdlePins, PinStates, Labels

(* The worker: types and phases.                                           *)
LEMMA WorkerTyped == PinsTyped /\ PhaseInv /\ (Call \/ Worker) => PinsTyped' /\ PhaseInv'
<1> SUFFICES ASSUME PinsTyped, PhaseInv, Call \/ Worker PROVE PinsTyped' /\ PhaseInv'
  OBVIOUS
<1>1. CASE Call
  <2>1. steps' \in Seq(Ops)
    <3>1. steps' \in Exports /\ "new" \in {"new", "high"}
      BY <1>1 DEF Call
    <3>2. Does(steps', "new", "high")
      BY <3>1, ExportsDo
    <3>3. QED
      BY <3>2, PathTyped DEF Does
  <2>2. phase = "start" /\ phase' = "start"
    BY <1>1 DEF Call, PhaseInv
  <2>3. PhaseInv'
    BY <2>2 DEF PhaseInv
  <2>4. PinsTyped'
    BY <1>1, <2>1 DEF Call, PinsTyped, isd2100, ft2232h
  <2>5. QED
    BY <2>3, <2>4
<1>2. CASE SelectState
  <2>1. steps # <<>> /\ Head(steps).op = "select"
    BY <1>2 DEF SelectState, Doing
  <2>2. Head(steps).high \in BOOLEAN
    BY <2>1, FrontOf
  <2>3. QED
    BY <1>2, <2>1, <2>2 DEF SelectState, PinsTyped, PhaseInv, Doing, isd2100, ft2232h
<1>3. CASE WritePins
  <2>1. commands' \in Seq(Orders)
    BY <1>3, WriteTyped, OneOrder DEF WritePins, PinsTyped
  <2>2. count' \in Nat /\ cut' \in BOOLEAN
    BY <1>3 DEF WritePins, PinsTyped
  <2>3. QED
    BY <1>3, <2>1, <2>2 DEF WritePins, PinsTyped, PhaseInv, Doing, isd2100, ft2232h
<1>4. CASE Sleep
  <2>1. Tail(steps) \in Seq(Ops)
    BY <1>4, FrontOf DEF Sleep, Doing
  <2>2. QED
    BY <1>4, <2>1 DEF Sleep, StepDone, PinsTyped, PhaseInv, isd2100, ft2232h
<1>5. CASE Prepare
  BY <1>5 DEF Prepare, PinsTyped, PhaseInv, Doing, isd2100, ft2232h
<1>6. CASE SPI_Write
  <2>1. steps # <<>> /\ Head(steps).op \in {"transfer", "command"}
    BY <1>6 DEF SPI_Write, Doing
  <2>2. Head(steps).n \in Nat \ {0} /\ Tail(steps) \in Seq(Ops)
    BY <2>1, FrontOf
  <2>3. Doing("transfer") \in BOOLEAN
    BY DEF Doing
  <2>4. Waveform(Head(steps).n, Doing("transfer")) \in Seq(Orders)
    BY <2>2, <2>3, WaveformTyped DEF PinsTyped
  <2>5. commands' \in Seq(Orders)
    BY <1>6, <2>4, WriteTyped DEF SPI_Write
  <2>6. count' \in Nat
    BY <1>6, <2>2 DEF SPI_Write, PinsTyped
  <2>7. \/ phase' = "read" /\ steps' = steps /\ Doing("transfer")
        \/ phase' = "start" /\ steps' = Tail(steps)
    BY <1>6 DEF SPI_Write, StepDone
  <2>8. QED
    BY <1>6, <2>2, <2>5, <2>6, <2>7 DEF SPI_Write, PinsTyped, PhaseInv, Doing, isd2100, ft2232h
<1>7. CASE Poll
  <2>1. commands' \in Seq(Orders)
    BY <1>7, WriteTyped, OneOrder DEF Poll
  <2>2. QED
    BY <1>7, <2>1 DEF Poll, PinsTyped, PhaseInv, Doing, isd2100, ft2232h
<1>8. CASE FT_Read
  <2>1. /\ phase = "read" /\ Len(replies) >= Wanted
        /\ replies' = SubSeq(replies, Wanted + 1, Len(replies))
        /\ phase' = "start" /\ (steps' = steps \/ steps' = Tail(steps))
        /\ count' = IF Doing("transfer") THEN count + Head(steps).n ELSE count
        /\ UNCHANGED <<ssState, g_currentSSState, g_ftHandle, closing, commands, pins, isd2100, cut>>
    BY <1>8 DEF FT_Read, StepDone
  <2>2. Wanted \in Nat \ {0} /\ (Doing("transfer") => Head(steps).n \in Nat \ {0})
    BY <2>1, WantedIs
  <2>3. steps # <<>>
    BY <2>1 DEF PhaseInv
  <2>4. Tail(steps) \in Seq(Ops)
    BY <2>3, FrontOf
  <2>5. replies' \in Seq(Answers)
    BY <2>1, <2>2 DEF PinsTyped
  <2>6. count' \in Nat
    BY <2>1, <2>2 DEF PinsTyped
  <2>7. QED
    BY <2>1, <2>4, <2>5, <2>6 DEF PinsTyped, PhaseInv, isd2100
<1>9. CASE ReadNothing
  <2>1. steps # <<>>
    BY <1>9 DEF ReadNothing, PhaseInv
  <2>2. Tail(steps) \in Seq(Ops)
    BY <2>1, FrontOf
  <2>3. QED
    BY <1>9, <2>2 DEF ReadNothing, StepDone, PinsTyped, PhaseInv, isd2100, ft2232h
<1>10. CASE CheckStatus
  <2>1. Tail(steps) \in Seq(Ops)
    BY <1>10, FrontOf DEF CheckStatus, Doing
  <2>2. g_ftHandle' \in BOOLEAN
    BY <1>10 DEF CheckStatus, PinsTyped
  <2>3. QED
    BY <1>10, <2>1, <2>2 DEF CheckStatus, StepDone, PinsTyped, PhaseInv, isd2100, ft2232h
<1>11. QED
  BY <1>1, <1>2, <1>3, <1>4, <1>5, <1>6, <1>7, <1>8, <1>9, <1>10 DEF Worker

(* Opening, closing and the chip: types and phases.                        *)
LEMMA OtherTyped ==
  PinsTyped /\ PhaseInv
    /\ (FTDI_AutoInitialize \/ DeinitSelect \/ DeinitWritePins \/ DeinitClose \/ Execute)
  => PinsTyped' /\ PhaseInv'
<1> SUFFICES ASSUME PinsTyped, PhaseInv,
                    FTDI_AutoInitialize \/ DeinitSelect \/ DeinitWritePins \/ DeinitClose \/ Execute
             PROVE  PinsTyped' /\ PhaseInv'
  OBVIOUS
<1>1. UNCHANGED worker
  BY DEF FTDI_AutoInitialize, DeinitSelect, DeinitWritePins, DeinitClose, Execute
<1>2. PhaseInv'
  BY <1>1 DEF PhaseInv, Doing, worker
<1>3. steps' \in Seq(Ops) /\ phase' \in {"start", "write", "sleep", "read"} /\ ssState' \in BOOLEAN
      /\ count' \in Nat
  BY <1>1 DEF PinsTyped, worker
<1>4. <<>> \in Seq(Orders) /\ <<>> \in Seq(Answers)
  BY EmptySeq
<1>5. CASE FTDI_AutoInitialize
  <2>1. UNCHANGED <<closing, received, out, cut>>
    BY <1>5 DEF FTDI_AutoInitialize, isd2100
  <2>2. g_ftHandle' \in BOOLEAN /\ g_currentSSState' \in BOOLEAN
    BY <1>5 DEF FTDI_AutoInitialize, PinsTyped
  <2>3. \/ UNCHANGED <<commands, replies, pins>>
        \/ commands' = <<>> /\ replies' = <<>> /\ pins' = IdlePins
    BY <1>5 DEF FTDI_AutoInitialize, FT_SetBitMode, FT_Purge, ft2232h
  <2>4. commands' \in Seq(Orders) /\ replies' \in Seq(Answers) /\ pins' \in PinStates
    BY <1>4, <2>3, IdleTyped DEF PinsTyped
  <2>5. QED
    BY <1>2, <1>3, <2>1, <2>2, <2>4 DEF PinsTyped
<1>6. CASE DeinitSelect
  <2>1. cut' \in BOOLEAN
    BY <1>6 DEF DeinitSelect, PinsTyped
  <2>2. g_currentSSState' = TRUE /\ closing' = "select"
        /\ UNCHANGED <<g_ftHandle, commands, replies, pins, received, out>>
    BY <1>6 DEF DeinitSelect, isd2100, ft2232h
  <2>3. QED
    BY <1>2, <1>3, <2>1, <2>2 DEF PinsTyped
<1>7. CASE DeinitWritePins
  <2>1. commands' \in Seq(Orders)
    BY <1>7, WriteTyped, OneOrder DEF DeinitWritePins, PinsTyped
  <2>2. closing' = "sleep"
        /\ UNCHANGED <<g_currentSSState, g_ftHandle, replies, pins, received, out, cut>>
    BY <1>7 DEF DeinitWritePins, isd2100
  <2>3. QED
    BY <1>2, <1>3, <2>1, <2>2 DEF PinsTyped
<1>8. CASE DeinitClose
  <2>1. g_ftHandle' = FALSE /\ g_currentSSState' = TRUE /\ closing' = "no"
        /\ UNCHANGED <<received, out, cut>>
    BY <1>8 DEF DeinitClose, isd2100
  <2>2. \/ UNCHANGED <<commands, replies, pins>>
        \/ commands' = <<>> /\ replies' = <<>> /\ pins' = IdlePins
    BY <1>8 DEF DeinitClose, FT_SetBitMode, FT_Purge, ft2232h
  <2>3. commands' \in Seq(Orders) /\ replies' \in Seq(Answers) /\ pins' \in PinStates
    BY <1>4, <2>2, IdleTyped DEF PinsTyped
  <2>4. QED
    BY <1>2, <1>3, <2>1, <2>3 DEF PinsTyped
<1>9. CASE Execute
  <2>1. commands # <<>> /\ commands' = Tail(commands) /\ Head(commands) \in Orders
        /\ Tail(commands) \in Seq(Orders)
    BY <1>9, HeadTailProperties DEF Execute, PinsTyped
  <2>2. UNCHANGED <<g_currentSSState, g_ftHandle, closing, cut>>
    BY <1>9 DEF Execute
  <2>3. CASE Head(commands).op = "set"
    <3>1. pins' = Head(commands).pins /\ ClockChip(Head(commands).pins) /\ replies' = replies
      BY <1>9, <2>3 DEF Execute
    <3>2. pins' \in PinStates
      BY <2>1, <2>3, <3>1, OrderParts
    <3>3. pins'.mosi \in Labels /\ None \in Labels
      BY <3>2 DEF PinStates, Labels
    <3> DEFINE m == IF pins'.mosi = pins.mosi THEN pins'.mosi ELSE None
    <3>4. m \in Labels
      BY <3>3
    <3>5. /\ received' = received \/ received' = <<>> \/ received' = Append(received, m)
          /\ out' = out \/ out' = 0 \/ out' = out + 1
      BY <3>1 DEF ClockChip, isd2100
    <3> HIDE DEF m
    <3>6. Append(received, m) \in Seq(Labels) /\ <<>> \in Seq(Labels) /\ received \in Seq(Labels)
      BY <3>4, EmptySeq, AppendProperties DEF PinsTyped
    <3>7. received' \in Seq(Labels)
      BY <3>5, <3>6, Zenon
    <3>8. out' \in Nat
      BY <3>5 DEF PinsTyped
    <3>9. QED
      BY <1>2, <1>3, <2>1, <2>2, <3>1, <3>2, <3>7, <3>8 DEF PinsTyped
  <2>4. CASE Head(commands).op # "set"
    <3>1. PICK ready \in BOOLEAN :
            replies' = Append(replies, [miso |-> IF pins.ss \/ out = 0 THEN None ELSE NthBit(out),
                                        rdy  |-> ready, at |-> Len(received)])
      BY <1>9, <2>4 DEF Execute
    <3>2. NthBit(out) \in Labels /\ None \in Labels /\ Len(received) \in Nat
      BY BitLabels, LenProperties DEF PinsTyped, Labels
    <3>3. (IF pins.ss \/ out = 0 THEN None ELSE NthBit(out)) \in Labels
      BY <3>2
    <3> DEFINE m == IF pins.ss \/ out = 0 THEN None ELSE NthBit(out)
    <3> HIDE DEF m
    <3>4. [miso |-> m, rdy |-> ready, at |-> Len(received)] \in Answers
      BY <3>2, <3>3 DEF Answers, m
    <3>5. replies' \in Seq(Answers)
      BY <3>1, <3>4, AppendProperties DEF PinsTyped, m
    <3>6. UNCHANGED <<pins, isd2100>>
      BY <1>9, <2>4 DEF Execute
    <3>7. QED
      BY <1>2, <1>3, <2>1, <2>2, <3>5, <3>6 DEF PinsTyped, isd2100
  <2>5. QED
    BY <2>3, <2>4
<1>10. QED
  BY <1>5, <1>6, <1>7, <1>8, <1>9, <1>2

(* Whoever works while the channel is closed counts as cut off.            *)
LEMMA OwnedKeeps == PinsInv /\ [PinsNext]_pinsVars => OwnedInv'
<1> SUFFICES ASSUME PinsInv, [PinsNext]_pinsVars, ~cut', closing' # "no" PROVE steps' = <<>>
  BY DEF OwnedInv
<1> USE DEF PinsInv, OwnedInv
<1>1. CASE Call
  BY <1>1 DEF Call, PinsTyped
<1>2. CASE Worker
  <2>1. steps # <<>> /\ closing' = closing
    BY <1>2 DEF Worker, SelectState, WritePins, Sleep, Prepare, SPI_Write, Poll, FT_Read, ReadNothing,
                CheckStatus, Doing, PhaseInv
  <2>2. cut = FALSE \/ closing = "no"
    BY <1>2 DEF Worker, SelectState, WritePins, Sleep, Prepare, SPI_Write, Poll, FT_Read, ReadNothing,
                CheckStatus, PinsTyped
  <2>3. QED
    BY <2>1, <2>2
<1>3. CASE FTDI_AutoInitialize
  BY <1>3 DEF FTDI_AutoInitialize, worker
<1>4. CASE DeinitSelect
  BY <1>4 DEF DeinitSelect, worker
<1>5. CASE DeinitWritePins
  BY <1>5 DEF DeinitWritePins, worker
<1>6. CASE DeinitClose
  BY <1>6 DEF DeinitClose
<1>7. CASE Execute
  BY <1>7 DEF Execute, worker
<1>8. CASE UNCHANGED pinsVars
  BY <1>8 DEF pinsVars, worker
<1>9. QED
  BY <1>1, <1>2, <1>3, <1>4, <1>5, <1>6, <1>7, <1>8 DEF PinsNext

(* A function that does not wait for replies has none on their way.        *)
LEMMA NothingDue ==
  ASSUME PinsInv, Live, phase # "read"
  PROVE  replies = <<>> /\ commands \in Seq(Setting)
<1>1. PICK l \in Levels, e \in Situations : Steady(l, e)
  BY DEF PinsInv, BusInv, InOrder
<1>2. Runs(Asked, commands, Now, e) /\ Now.left = 0
  BY <1>1 DEF Steady, Now, Due, Situation
<1>3. commands \in Seq(Setting)
  BY <1>2, RunsIdle, Zenon
<1>4. QED
  BY <1>3 DEF PinsInv, BusInv, InOrder, RepliesInv

(* The handle is lost between two functions, or by who closes the channel. *)
LEMMA QuietKeeps == PinsInv /\ [PinsNext]_pinsVars => QuietInv'
<1> SUFFICES ASSUME PinsInv, [PinsNext]_pinsVars, ~g_ftHandle', ~cut'
             PROVE  replies' = <<>> /\ commands' \in Seq(Setting)
  BY DEF QuietInv
<1> USE DEF PinsInv, QuietInv
<1>1. <<>> \in Seq(Setting)
  BY EmptySeq
<1>2. ASSUME UNCHANGED <<g_ftHandle, replies>>, ~cut, commands' = commands
      PROVE  replies' = <<>> /\ commands' \in Seq(Setting)
  BY <1>2
<1>3. CASE Call
  <2>1. ~cut /\ UNCHANGED <<g_ftHandle, replies, commands>>
    BY <1>3 DEF Call, ft2232h
  <2>2. QED
    BY <1>2, <2>1
<1>4. CASE SelectState \/ Sleep \/ Prepare \/ ReadNothing
  <2>1. ~cut /\ UNCHANGED <<g_ftHandle, replies, commands>>
    BY <1>4 DEF SelectState, Sleep, Prepare, ReadNothing, ft2232h
  <2>2. QED
    BY <1>2, <2>1
<1>5. CASE WritePins \/ SPI_Write \/ Poll \/ DeinitWritePins
  <2>1. UNCHANGED <<g_ftHandle, replies>> /\ ~g_ftHandle
    BY <1>5 DEF WritePins, SPI_Write, Poll, DeinitWritePins
  <2>2. cut' = cut \/ cut' = (cut /\ (Head(steps).high \/ ~g_ftHandle \/ closing # "no"))
    BY <1>5 DEF WritePins, SPI_Write, Poll, DeinitWritePins
  <2>3. ~cut
    BY <2>1, <2>2, Zenon
  <2>4. commands' = commands
    BY <1>5, <2>1 DEF WritePins, SPI_Write, Poll, DeinitWritePins, FT_Write
  <2>5. QED
    BY <1>2, <2>1, <2>3, <2>4
<1>6. CASE FT_Read
  <2>1. phase = "read" /\ ~cut /\ ~g_ftHandle /\ Len(replies) >= Wanted
    BY <1>6 DEF FT_Read
  <2>2. replies = <<>> /\ Len(replies) = 0
    BY <2>1, EmptySeq
  <2>3. Wanted \in Nat \ {0}
    BY <2>1, WantedIs
  <2>4. QED
    BY <2>1, <2>2, <2>3
<1>7. CASE CheckStatus
  <2>1. ~cut /\ phase # "read" /\ UNCHANGED <<replies, commands>>
    BY <1>7 DEF CheckStatus, ft2232h, Doing, PhaseInv
  <2>2. CASE g_ftHandle
    BY <2>1, <2>2, NothingDue DEF Live
  <2>3. CASE ~g_ftHandle
    BY <2>1, <2>3
  <2>4. QED
    BY <2>2, <2>3
<1>8. CASE FTDI_AutoInitialize
  <2>1. ~cut /\ phase # "read" /\ UNCHANGED <<replies, commands>>
    BY <1>8 DEF FTDI_AutoInitialize, ft2232h, PhaseInv
  <2>2. CASE g_ftHandle
    BY <2>1, <2>2, NothingDue DEF Live
  <2>3. CASE ~g_ftHandle
    BY <2>1, <2>3
  <2>4. QED
    BY <2>2, <2>3
<1>9. CASE DeinitSelect
  BY <1>9 DEF DeinitSelect
<1>10. CASE DeinitClose
  BY <1>1, <1>10 DEF DeinitClose, FT_Purge, ft2232h
<1>11. CASE Execute
  <2>1. ~cut /\ ~g_ftHandle /\ commands # <<>> /\ commands' = Tail(commands)
    BY <1>11 DEF Execute
  <2>2. commands \in Seq(Setting) /\ replies = <<>>
    BY <2>1
  <2>3. Head(commands) \in Setting /\ Tail(commands) \in Seq(Setting)
    BY <2>1, <2>2, HeadTailProperties
  <2>4. Head(commands).op = "set"
    BY <2>3 DEF Setting
  <2>5. QED
    BY <1>11, <2>1, <2>2, <2>3, <2>4 DEF Execute
<1>12. CASE UNCHANGED pinsVars
  BY <1>12 DEF pinsVars, ft2232h
<1>13. QED
  BY <1>3, <1>4, <1>5, <1>6, <1>7, <1>8, <1>9, <1>10, <1>11, <1>12 DEF PinsNext, Worker

(* The answer to a wait, and the bytes of a transfer.                      *)
LEMMA ReadRight ==
  ASSUME PinsInv, Live, FT_Read
  PROVE  Right(answer', count')
<1>1. phase = "read" /\ Len(replies) >= Wanted
  BY DEF FT_Read
<1>2. /\ Wanted \in Nat \ {0}
      /\ Doing("wait") => Wanted = 1
      /\ Doing("transfer") => Wanted = Head(steps).n * ByteBits /\ Head(steps).n \in Nat \ {0}
      /\ Doing("wait") <=> ~Doing("transfer")
  BY <1>1, WantedIs DEF PinsInv
<1> DEFINE states == SubSeq(replies, 1, Wanted)
<1>3. ASSUME NEW i \in 1 .. Wanted PROVE states[i] = replies[i] /\ i \in 1 .. Len(replies)
  BY <1>1, <1>2 DEF PinsInv, PinsTyped
<1>4. /\ answer' = IF Doing("wait") THEN [NoAnswer EXCEPT !.ready = states[1].at]
                   ELSE [NoAnswer EXCEPT !.bytes = Bytes(states)]
      /\ count' = IF Doing("transfer") THEN count + Head(steps).n ELSE count
  BY DEF FT_Read
<1> HIDE DEF states
<1>5. RepliesInv /\ count \in Nat /\ ByteBits \in Nat \ {0}
  BY PinsAssumption DEF PinsInv, BusInv, InOrder, PinsTyped
<1>6. CASE Doing("wait")
  <2>1. states[1].at = count * ByteBits
    BY <1>2, <1>3, <1>5, <1>6 DEF RepliesInv
  <2>2. answer' = [ready |-> count * ByteBits, bytes |-> <<>>] /\ count' = count
    BY <1>2, <1>4, <1>6, <2>1 DEF NoAnswer
  <2>3. answer'.ready = count * ByteBits /\ answer'.bytes = <<>> /\ Len(answer'.bytes) = 0
    BY <2>2
  <2>4. QED
    BY <1>5, <2>2, <2>3 DEF Right
<1>7. CASE Doing("transfer")
  <2> DEFINE n == Head(steps).n
  <2>1. n \in Nat \ {0} /\ Wanted = n * ByteBits /\ count' = count + n
    BY <1>2, <1>4, <1>7
  <2>2. answer' = [ready |-> -1, bytes |-> Bytes(states)]
    BY <1>2, <1>4, <1>7 DEF NoAnswer
  <2>3. answer'.ready = -1 /\ answer'.bytes = Bytes(states)
    BY <2>2
  <2>4. Len(answer'.bytes) = n
    BY <2>1, <2>3 DEF Bytes
  <2> HIDE DEF n
  <2>5. ASSUME NEW b \in 1 .. n, NEW k \in 0 .. ByteBits - 1
        PROVE  answer'.bytes[b][k] = Bit(count + b, k)
    <3> DEFINE i == (b - 1) * ByteBits + (ByteBits - k)
    <3>1. answer'.bytes[b][k] = states[i].miso
      <4>1. answer'.bytes[b][k] = Sample(states, b - 1, k)
        BY <2>3, <2>5 DEF Bytes, n
      <4>2. QED
        BY <1>5, <2>1, <4>1 DEF Sample
    <3>2. i \in 1 .. Wanted
      <4>1. b - 1 \in Nat /\ n - b \in Nat /\ n \in Nat
        BY <2>1
      <4>2. (b - 1) * ByteBits \in Nat /\ (n - b) * ByteBits \in Nat
        BY <1>5, <4>1
      <4>3. Wanted = (b - 1) * ByteBits + ByteBits + (n - b) * ByteBits
        BY <1>5, <2>1, <4>1
      <4>4. QED
        BY <1>5, <4>2, <4>3
    <3>3. count * ByteBits + i = ((count + b) - 1) * ByteBits + (ByteBits - k)
      BY <1>5, <2>1
    <3>4. count + b \in Nat \ {0}
      BY <1>5, <2>1
    <3>5. NthBit(((count + b) - 1) * ByteBits + (ByteBits - k)) = Bit(count + b, k)
      BY <3>4, BitOfByte
    <3> HIDE DEF i
    <3>6. states[i].miso = NthBit(count * ByteBits + i)
      BY <1>3, <1>5, <1>7, <3>2 DEF RepliesInv
    <3>7. QED
      BY <3>1, <3>3, <3>5, <3>6
  <2>6. ASSUME NEW b \in 1 .. n PROVE count' - Len(answer'.bytes) + b = count + b
    BY <1>5, <2>1, <2>4
  <2>7. QED
    BY <2>3, <2>4, <2>5, <2>6 DEF Right
<1>8. QED
  BY <1>2, <1>6, <1>7

(* Nobody who is not cut off has a wrong answer.                           *)
LEMMA AnswerKeeps == PinsInv /\ [PinsNext]_pinsVars => AnswerInv'
<1> SUFFICES ASSUME PinsInv, [PinsNext]_pinsVars, ~cut' PROVE Right(answer', count')
  BY DEF AnswerInv
<1>1. ASSUME answer' = NoAnswer PROVE Right(answer', count')
  <2>1. answer'.bytes = <<>> /\ answer'.ready = -1 /\ Len(answer'.bytes) = 0
    BY <1>1 DEF NoAnswer
  <2>2. QED
    BY <2>1 DEF Right
<1>2. ASSUME UNCHANGED <<answer, count>>, ~cut PROVE Right(answer', count')
  BY <1>2 DEF PinsInv, AnswerInv
<1>3. CASE WritePins \/ SPI_Write \/ Poll \/ ReadNothing
  BY <1>1, <1>3 DEF WritePins, SPI_Write, Poll, ReadNothing
<1>4. CASE FT_Read
  <2>1. ~cut /\ phase = "read" /\ Len(replies) >= Wanted
    BY <1>4 DEF FT_Read
  <2>2. g_ftHandle
    <3>1. ~g_ftHandle => Len(replies) = 0
      BY <2>1, EmptySeq DEF PinsInv, QuietInv
    <3>2. Wanted \in Nat \ {0}
      BY <2>1, WantedIs DEF PinsInv
    <3>3. QED
      BY <2>1, <3>1, <3>2
  <2>3. QED
    BY <1>4, <2>1, <2>2, ReadRight DEF Live
<1>5. CASE Call \/ SelectState \/ Sleep \/ Prepare \/ CheckStatus
  BY <1>2, <1>5 DEF Call, SelectState, Sleep, Prepare, CheckStatus
<1>6. CASE FTDI_AutoInitialize \/ DeinitSelect \/ DeinitWritePins \/ DeinitClose \/ Execute
  BY <1>2, <1>6 DEF FTDI_AutoInitialize, DeinitSelect, DeinitWritePins, DeinitClose, Execute, worker
<1>7. CASE UNCHANGED pinsVars
  BY <1>2, <1>7 DEF pinsVars, worker
<1>8. QED
  BY <1>3, <1>4, <1>5, <1>6, <1>7 DEF PinsNext, Worker

-------------------------------------------------------------------------------
(* The bus, step by step.                                                  *)

(* A channel that is in use stays with who uses it, but for an opening.    *)
LEMMA LiveBefore ==
  ASSUME PinsInv, [PinsNext]_pinsVars, Live'
  PROVE  FTDI_AutoInitialize \/ Live
<1> SUFFICES ASSUME ~FTDI_AutoInitialize PROVE Live
  OBVIOUS
<1> USE DEF PinsInv, Live
<1>1. CASE Call
  BY <1>1 DEF Call, PinsTyped
<1>2. CASE SelectState \/ Sleep \/ Prepare \/ SPI_Write \/ Poll \/ FT_Read \/ ReadNothing
  <2>1. UNCHANGED <<g_ftHandle, closing, cut>>
    BY <1>2 DEF SelectState, Sleep, Prepare, SPI_Write, Poll, FT_Read, ReadNothing
  <2>2. QED
    BY <2>1
<1>3. CASE WritePins
  BY <1>3 DEF WritePins, PinsTyped
<1>4. CASE CheckStatus
  BY <1>4 DEF CheckStatus, PinsTyped
<1>5. CASE DeinitSelect
  BY <1>5 DEF DeinitSelect, PinsTyped
<1>6. CASE DeinitWritePins
  BY <1>6 DEF DeinitWritePins
<1>7. CASE DeinitClose
  BY <1>7 DEF DeinitClose
<1>8. CASE Execute
  BY <1>8 DEF Execute
<1>9. CASE UNCHANGED pinsVars
  BY <1>9 DEF pinsVars
<1>10. QED
  BY <1>1, <1>2, <1>3, <1>4, <1>5, <1>6, <1>7, <1>8, <1>9 DEF PinsNext, Worker

(* Where nothing is worked on the channel is at rest; where something is,  *)
(* nobody closes it.                                                       *)
LEMMA LiveParts ==
  ASSUME PinsInv, Live
  PROVE  /\ g_ftHandle /\ RepliesInv /\ TakenInv /\ WriterInv
         /\ steps # <<>> => closing = "no"
         /\ \E l \in Levels, e \in Situations : Steady(l, e)
BY DEF PinsInv, Live, BusInv, InOrder, OwnedInv

(* The front of what is left to do.                                        *)
LEMMA NextLevel ==
  ASSUME NEW s \in Seq(Ops), s # <<>>, NEW l, NEW m, Does(s, l, m)
  PROVE  \E k \in Levels : Allowed(Head(s), l, k) /\ Does(Tail(s), k, m)
<1>1. PICK k \in Levels : <<Head(s), l, k>> \in Work /\ Path(Ops, Levels, Work, Tail(s), k, m)
  BY PathFirst DEF Does
<1>2. QED
  BY <1>1 DEF Work, Does

(* Nothing is due: the commands on their way do what they do for anybody.  *)
LEMMA StillRuns ==
  ASSUME phase # "read", NEW l, NEW e, Steady(l, e)
  PROVE  /\ Due = 0 /\ Now = Situation(pins, Len(received), out, 0)
         /\ \A v : Runs(v, commands, Now, e)
         /\ \A v : \A n \in Nat : Runs(v, commands, Situation(pins, Len(received), out, n),
                                                  Situation(e.pins, e.bits, e.out, n))
<1>1. Due = 0 /\ Now = Situation(pins, Len(received), out, 0)
  BY DEF Due, Now
<1>2. Now.pins = pins /\ Now.bits = Len(received) /\ Now.out = out /\ Now.left = 0
  BY <1>1 DEF Situation
<1>3. Runs(Asked, commands, Now, e)
  BY DEF Steady
<1>4. \A v : Runs(v, commands, Now, e)
  BY <1>2, <1>3, RunsIdle, Zenon
<1>5. \A v : \A n \in Nat : Runs(v, commands, Situation(Now.pins, Now.bits, Now.out, n),
                                             Situation(e.pins, e.bits, e.out, n))
  BY <1>2, <1>3, RunsBefore, Zenon
<1>6. QED
  BY <1>1, <1>2, <1>4, <1>5

(* A step that writes nothing and waits for nothing.                       *)
LEMMA StillOrder ==
  ASSUME RepliesInv, TakenInv, phase # "read", phase' # "read",
         UNCHANGED <<count, commands, replies, pins, received, out>>,
         NEW l \in Levels, NEW e \in Situations, Steady(l, e),
         NEW m \in {"new", "high"}, Does(Rest', l, m),
         Noted(l)',
         WriterInv'
  PROVE  InOrder'
<1>1. Runs(Asked', commands', Now', e)
  <2>1. Now' = Now
    BY DEF Now, Due
  <2>2. \A v : Runs(v, commands, Now, e)
    BY StillRuns
  <2>3. QED
    BY <2>1, <2>2
<1>2. SentBytes' = SentBytes
  BY DEF SentBytes
<1>3. Steady(l, e)'
  BY <1>1, <1>2 DEF Steady
<1>4. RepliesInv' /\ TakenInv'
  BY DEF RepliesInv, TakenInv
<1>5. QED
  BY <1>3, <1>4 DEF InOrder

(* A function is called.                                                   *)
LEMMA CallOrder ==
  ASSUME PinsInv, Live, Call
  PROVE  InOrder'
<1>1. PICK l \in Levels, e \in Situations : Steady(l, e)
  BY LiveParts
<1>2. /\ steps = <<>> /\ steps' \in Exports /\ phase = "start" /\ phase' = "start"
      /\ UNCHANGED <<count, g_currentSSState, commands, replies, pins, received, out>>
  BY DEF Call, PinsInv, PhaseInv, ft2232h, isd2100
<1>3. l \in {"new", "high"}
  <2>1. PICK m \in {"new", "high"} : Does(<<>>, l, m)
    BY <1>1, <1>2 DEF Steady, Rest
  <2>2. QED
    BY <2>1, PathNil DEF Does
<1>4. Does(Rest', l, "high") /\ "high" \in {"new", "high"}
  BY <1>2, <1>3, ExportsDo DEF Rest
<1>5. Noted(l)'
  BY <1>1, <1>2 DEF Steady, Noted
<1>6. WriterInv' /\ RepliesInv /\ TakenInv
  BY <1>2, LiveParts DEF WriterInv
<1>7. phase # "read" /\ phase' # "read"
  BY <1>2
<1>8. QED
  BY <1>1, <1>2, <1>4, <1>5, <1>6, <1>7, StillOrder

(* SPI_Select notes the state of the pin.                                  *)
LEMMA SelectOrder ==
  ASSUME PinsInv, Live, SelectState
  PROVE  InOrder'
<1>1. PICK l \in Levels, e \in Situations : Steady(l, e)
  BY LiveParts
<1>2. /\ Doing("select") /\ phase = "start" /\ phase' = "write" /\ steps' = steps
      /\ g_currentSSState' = Head(steps).high
      /\ UNCHANGED <<count, commands, replies, pins, received, out>>
  BY DEF SelectState, ft2232h, isd2100
<1>3. PICK m \in {"new", "high"} : Does(Rest', l, m)
  BY <1>1, <1>2 DEF Steady, Rest
<1>4. Doing("select")'
  BY <1>2 DEF Doing
<1>5. Noted(l)'
  BY <1>2, <1>4 DEF Noted
<1>6. WriterInv' /\ RepliesInv /\ TakenInv
  BY <1>4, LiveParts DEF WriterInv
<1>7. phase # "read" /\ phase' # "read"
  BY <1>2
<1>8. QED
  BY <1>1, <1>2, <1>3, <1>5, <1>6, <1>7, StillOrder

(* Its Sleep leaves nothing on the way.                                    *)
LEMMA SleepOrder ==
  ASSUME PinsInv, Live, Sleep
  PROVE  InOrder'
<1>1. PICK l \in Levels, e \in Situations : Steady(l, e)
  BY LiveParts
<1>2. /\ phase = "sleep" /\ phase' = "start" /\ steps' = Tail(steps)
      /\ UNCHANGED <<count, g_currentSSState, commands, replies, pins, received, out>>
  BY DEF Sleep, StepDone, ft2232h, isd2100
<1>3. PICK m \in {"new", "high"} : Does(Rest', l, m)
  BY <1>1, <1>2 DEF Steady, Rest
<1>4. Noted(l)'
  BY <1>1, <1>2 DEF Steady, Noted
<1>5. WriterInv' /\ RepliesInv /\ TakenInv
  BY <1>2, LiveParts DEF WriterInv
<1>6. phase # "read" /\ phase' # "read"
  BY <1>2
<1>7. QED
  BY <1>1, <1>2, <1>3, <1>4, <1>5, <1>6, StillOrder

(* A transfer sees that the chip is selected.                              *)
LEMMA PrepareOrder ==
  ASSUME PinsInv, Live, Prepare
  PROVE  InOrder'
<1>1. PICK l \in Levels, e \in Situations : Steady(l, e)
  BY LiveParts
<1>2. /\ steps # <<>> /\ Head(steps).op \in {"transfer", "command"} /\ phase = "start"
      /\ phase' = "write" /\ steps' = steps /\ ssState' = g_currentSSState
      /\ UNCHANGED <<count, g_currentSSState, commands, replies, pins, received, out>>
  BY DEF Prepare, Doing, ft2232h, isd2100
<1>3. PICK m \in {"new", "high"} : Does(Rest', l, m) /\ Does(steps, l, m)
  BY <1>1, <1>2 DEF Steady, Rest
<1>4. l = "low"
  <2>1. PICK k \in Levels : Allowed(Head(steps), l, k)
    BY <1>2, <1>3, NextLevel DEF PinsInv, PinsTyped
  <2>2. QED
    BY <1>2, <2>1 DEF Allowed
<1>5. g_currentSSState = FALSE
  BY <1>1, <1>2, <1>4 DEF Steady, PinsInv, PinsTyped, Noted
<1>6. Noted(l)'
  BY <1>2, <1>4, <1>5 DEF Doing, Noted
<1>7. WriterInv' /\ RepliesInv /\ TakenInv
  BY <1>2, <1>5, LiveParts DEF WriterInv
<1>8. phase # "read" /\ phase' # "read"
  BY <1>2
<1>9. QED
  BY <1>1, <1>2, <1>3, <1>6, <1>7, <1>8, StillOrder

(* The status is fine.                                                     *)
LEMMA StatusOrder ==
  ASSUME PinsInv, Live, CheckStatus
  PROVE  InOrder'
<1>1. PICK l \in Levels, e \in Situations : Steady(l, e)
  BY LiveParts
<1>2. /\ steps # <<>> /\ Head(steps).op = "status" /\ phase' = "start" /\ steps' = Tail(steps)
      /\ UNCHANGED <<count, g_currentSSState, commands, replies, pins, received, out>>
  BY DEF CheckStatus, StepDone, Doing, ft2232h, isd2100
<1>3. phase = "start"
  BY <1>2 DEF PinsInv, PhaseInv, PinsTyped, Doing
<1>4. PICK m \in {"new", "high"} : Does(steps, l, m)
  BY <1>1, <1>3 DEF Steady, Rest
<1>5. Does(Rest', l, m)
  <2>1. PICK k \in Levels : Allowed(Head(steps), l, k) /\ Does(Tail(steps), k, m)
    BY <1>2, <1>4, NextLevel DEF PinsInv, PinsTyped
  <2>2. k = l
    BY <1>2, <2>1 DEF Allowed
  <2>3. QED
    BY <1>2, <2>1, <2>2 DEF Rest
<1>6. Noted(l)'
  BY <1>1, <1>2, <1>3 DEF Steady, Noted
<1>7. WriterInv' /\ RepliesInv /\ TakenInv
  BY <1>2, LiveParts DEF WriterInv
<1>8. phase # "read" /\ phase' # "read"
  BY <1>2, <1>3
<1>9. QED
  BY <1>1, <1>2, <1>5, <1>6, <1>7, <1>8, StillOrder

(* The chip is deselected where nothing is worked.                         *)
LEMMA DeinitSelectOrder ==
  ASSUME PinsInv, Live, DeinitSelect, steps = <<>>
  PROVE  InOrder'
<1>1. PICK l \in Levels, e \in Situations : Steady(l, e)
  BY LiveParts
<1>2. /\ steps' = <<>> /\ phase = "start" /\ phase' = "start" /\ g_currentSSState' = TRUE
      /\ UNCHANGED <<count, commands, replies, pins, received, out>>
  BY DEF DeinitSelect, worker, ft2232h, isd2100, PinsInv, PhaseInv
<1>3. PICK m \in {"new", "high"} : Does(Rest', l, m) /\ Does(<<>>, l, m)
  BY <1>1, <1>2 DEF Steady, Rest
<1>4. l # "low"
  BY <1>3, PathNil DEF Does
<1>5. Noted(l)'
  BY <1>2, <1>4 DEF Noted
<1>6. WriterInv' /\ RepliesInv /\ TakenInv
  BY <1>2, LiveParts DEF WriterInv
<1>7. phase # "read" /\ phase' # "read"
  BY <1>2
<1>8. QED
  BY <1>1, <1>2, <1>3, <1>5, <1>6, <1>7, StillOrder

(* A list with replies to nobody.                                          *)
LEMMA NoReplies ==
  ASSUME replies' = <<>>
  PROVE  RepliesInv'
<1>1. Len(replies') = 0
  BY EmptySeq
<1>2. \A i \in 1 .. Len(replies') : FALSE
  BY <1>1
<1>3. QED
  BY <1>2 DEF RepliesInv

(* SPI_Select sets the pin.                                                *)
LEMMA WritePinsOrder ==
  ASSUME PinsInv, Live, WritePins
  PROVE  InOrder'
<1>1. PICK l \in Levels, e \in Situations : Steady(l, e)
  BY LiveParts
<1> DEFINE high == Head(steps).high
           c == SetPins(1, None, high)
<1>2. /\ steps # <<>> /\ Head(steps).op = "select" /\ phase = "write" /\ phase' = "sleep"
      /\ steps' = steps /\ UNCHANGED <<g_currentSSState, replies, pins, received, out>>
      /\ count' = IF high THEN count ELSE 0
  BY DEF WritePins, Doing, isd2100
<1>3. high \in BOOLEAN
  BY <1>2, FrontOf DEF PinsInv
<1>4. g_currentSSState = high
  <2>1. g_currentSSState <=> high
    BY <1>1, <1>2 DEF Steady, Doing, Noted
  <2>2. g_currentSSState \in BOOLEAN
    BY DEF PinsInv, PinsTyped
  <2>3. QED
    BY <1>3, <2>1, <2>2
<1>5. commands' = commands \o <<c>>
  BY <1>4, LiveParts DEF WritePins, FT_Write
<1>6. PICK m \in {"new", "high"} : Does(steps, l, m)
  BY <1>1, <1>2 DEF Steady, Rest
<1>7. PICK k \in Levels : Allowed(Head(steps), l, k) /\ Does(Tail(steps), k, m)
  BY <1>2, <1>6, NextLevel DEF PinsInv, PinsTyped
<1>8. /\ high => k = IF l = "new" THEN "new" ELSE "high"
      /\ ~high => l # "low" /\ k = "low"
  BY <1>2, <1>7 DEF Allowed
<1>9. /\ e.left = 0 /\ e.pins.sk = 1 /\ (e.pins.ss <=> l # "low")
      /\ l # "new" => e.bits = count * ByteBits
  <2>1. SentBytes = count
    BY <1>2 DEF SentBytes, PinsInv, PinsTyped
  <2>2. QED
    BY <1>1, <2>1 DEF Steady
<1>10. /\ c \in Orders /\ c.op = "set" /\ c.pins \in PinStates /\ c.pins.sk = 1
       /\ c.pins.ss = high
  <2>1. 1 \in 0 .. 1 /\ None \in Labels
    BY DEF Labels
  <2> HIDE DEF high
  <2>2. c \in Orders /\ c.pins \in PinStates
    BY <1>3, <2>1, OrderParts, Zenon
  <2>3. c.op = "set" /\ c.pins.sk = 1 /\ c.pins.ss = high
    BY DEF SetPins
  <2>4. QED
    BY <2>2, <2>3
<1> HIDE DEF high, c
<1>11. PICK d \in Situations :
          /\ d.pins = c.pins /\ d.left = 0 /\ d.bits = IF high THEN e.bits ELSE 0
          /\ d.out = IF high THEN e.out ELSE 0
  <2> DEFINE b == IF high THEN e.bits ELSE 0
             o == IF high THEN e.out ELSE 0
             x == Situation(c.pins, b, o, 0)
  <2>1. x.pins = c.pins /\ x.left = 0 /\ x.bits = b /\ x.out = o
    BY DEF Situation
  <2>2. b \in Nat /\ o \in Nat /\ 0 \in Nat
    BY SituationParts
  <2> HIDE DEF b, o
  <2>3. x \in Situations
    BY <1>10, <2>2, SituationParts, Zenon
  <2> HIDE DEF x
  <2>4. QED
    BY <2>1, <2>3 DEF b, o
<1>12. d.left = 0 /\ d.pins.sk = 1 /\ (d.pins.ss <=> k # "low")
  BY <1>3, <1>8, <1>10, <1>11
<1>13. Pinned(c.pins, e, d)
  BY <1>3, <1>8, <1>9, <1>10, <1>11 DEF Pinned
<1>14. Runs(Asked', commands', Now', d)
  <2>1. Now' = Now
    <3>1. Due = 0 /\ Due' = 0
      BY <1>2 DEF Due
    <3>2. QED
      BY <1>2, <3>1 DEF Now
  <2>2. Runs(Asked', commands, Now, e)
    <3>1. phase # "read"
      BY <1>2
    <3>2. QED
      BY <1>1, <3>1, StillRuns, Zenon
  <2>3. Runs(Asked', <<c>>, e, d)
    BY <1>10, <1>11, <1>13, RunsSet
  <2>4. Runs(Asked', commands \o <<c>>, Now, d)
    BY <2>2, <2>3, RunsConcat
  <2>5. QED
    BY <1>5, <2>1, <2>4
<1>15. SentBytes' = count'
  BY <1>2 DEF SentBytes, PinsInv, PinsTyped
<1>16. Does(Rest', k, m)
  BY <1>2, <1>7 DEF Rest
<1>17. g_currentSSState' <=> k # "low"
  BY <1>2, <1>3, <1>4, <1>8
<1>18. /\ k # "new" => d.bits = count' * ByteBits
       /\ k = "low" => d.out = count' * ByteBits
  <2>1. ByteBits \in Nat
    BY PinsAssumption
  <2>2. 0 * ByteBits = 0
    BY <2>1
  <2>3. CASE high
    BY <1>2, <1>8, <1>9, <1>11, <2>3
  <2>4. CASE ~high
    BY <1>2, <1>8, <1>11, <2>2, <2>4
  <2>5. QED
    BY <2>3, <2>4
<1>19. Steady(k, d)'
  BY <1>2, <1>7, <1>12, <1>14, <1>15, <1>16, <1>17, <1>18 DEF Steady, Noted
<1>20. RepliesInv'
  <2>1. replies = <<>>
    BY <1>2, LiveParts DEF RepliesInv
  <2>2. QED
    BY <1>2, <2>1, NoReplies
<1>21. TakenInv' /\ WriterInv'
  BY <1>2, LiveParts DEF TakenInv, WriterInv
<1>22. QED
  BY <1>19, <1>20, <1>21 DEF InOrder

(* What the driver writes for a transfer or a command.                     *)
LEMMA WriteParts ==
  ASSUME PinsInv, Live, SPI_Write
  PROVE  \E l \in Levels, e \in Situations, m \in {"new", "high"} :
           /\ l = "low" /\ Steady(l, e) /\ Does(steps, l, m) /\ Does(Tail(steps), l, m)
           /\ steps # <<>> /\ Head(steps).n \in Nat \ {0} /\ phase = "write"
           /\ ssState = FALSE /\ replies = <<>> /\ g_currentSSState = FALSE
           /\ e.left = 0 /\ e.pins.sk = 1 /\ ~e.pins.ss
           /\ e.bits = count * ByteBits /\ e.out = count * ByteBits
           /\ commands' = commands \o Waveform(Head(steps).n, Doing("transfer"))
           /\ Doing("transfer") => phase' = "read" /\ steps' = steps /\ count' = count
           /\ ~Doing("transfer") => /\ phase' = "start" /\ steps' = Tail(steps)
                                    /\ count' = count + Head(steps).n
           /\ UNCHANGED <<g_currentSSState, replies, pins, received, out>>
<1>1. PICK l \in Levels, e \in Situations : Steady(l, e)
  BY LiveParts
<1>2. /\ steps # <<>> /\ Head(steps).op \in {"transfer", "command"} /\ phase = "write"
      /\ commands' = commands \o Waveform(Head(steps).n, Doing("transfer"))
      /\ Doing("transfer") => phase' = "read" /\ steps' = steps /\ count' = count
      /\ ~Doing("transfer") => /\ phase' = "start" /\ steps' = Tail(steps)
                               /\ count' = count + Head(steps).n
      /\ UNCHANGED <<g_currentSSState, replies, pins, received, out>>
  BY LiveParts DEF SPI_Write, Doing, FT_Write, StepDone, isd2100
<1>3. Head(steps).n \in Nat \ {0}
  BY <1>2, FrontOf DEF PinsInv
<1>4. PICK m \in {"new", "high"} : Does(steps, l, m)
  BY <1>1, <1>2 DEF Steady, Rest
<1>5. PICK k \in Levels : Allowed(Head(steps), l, k) /\ Does(Tail(steps), k, m)
  BY <1>2, <1>4, NextLevel DEF PinsInv, PinsTyped
<1>6. l = "low" /\ k = "low"
  BY <1>2, <1>5 DEF Allowed
<1>7. ssState = FALSE /\ replies = <<>>
  BY <1>2, LiveParts DEF WriterInv, RepliesInv, Doing
<1>8. SentBytes = count
  BY <1>2 DEF SentBytes, PinsInv, PinsTyped
<1>9. /\ e.left = 0 /\ e.pins.sk = 1 /\ ~e.pins.ss
      /\ e.bits = count * ByteBits /\ e.out = count * ByteBits
  BY <1>1, <1>6, <1>8 DEF Steady
<1>10. g_currentSSState = FALSE
  <2>1. ~g_currentSSState
    BY <1>1, <1>2, <1>6 DEF Steady, Doing, Noted
  <2>2. QED
    BY <2>1 DEF PinsInv, PinsTyped
<1>11. QED
  BY <1>1, <1>2, <1>3, <1>4, <1>5, <1>6, <1>7, <1>9, <1>10, Zenon

(* A transfer: its bytes go out, and a reply is due for each bit.          *)
LEMMA TransferOrder ==
  ASSUME PinsInv, Live, SPI_Write, Doing("transfer")
  PROVE  InOrder'
<1> DEFINE n == Head(steps).n
           w == Transfers(count * ByteBits, n * ByteBits)
<1>1. PICK l \in Levels, e \in Situations, m \in {"new", "high"} :
           /\ l = "low" /\ Steady(l, e) /\ Does(steps, l, m)
           /\ n \in Nat \ {0} /\ phase = "write"
           /\ ssState = FALSE /\ replies = <<>> /\ g_currentSSState = FALSE
           /\ e.left = 0 /\ e.pins.sk = 1 /\ ~e.pins.ss
           /\ e.bits = count * ByteBits /\ e.out = count * ByteBits
           /\ commands' = commands \o Waveform(n, TRUE)
           /\ phase' = "read" /\ steps' = steps /\ count' = count
           /\ UNCHANGED <<g_currentSSState, replies, pins, received, out>>
  <2>1. TRUE = Doing("transfer")
    BY DEF Doing
  <2>2. QED
    BY <2>1, WriteParts
<1>2. count \in Nat /\ ByteBits \in Nat
  BY PinsAssumption DEF PinsInv, PinsTyped
<1>3. Doing("transfer")' /\ ~Doing("wait")' /\ ~Doing("select")'
  BY <1>1 DEF Doing
<1>4. Wanted' = n * ByteBits /\ Asked' = w
  BY <1>1, <1>3 DEF Wanted, Asked
<1>5. n * ByteBits \in Nat
  BY <1>1, <1>2
<1> DEFINE a == Situation(e.pins, e.bits, e.out, n * ByteBits)
<1>6. a \in Situations
  BY <1>5, SituationParts
<1>7. /\ a.pins.sk = 1 /\ ~a.pins.ss /\ a.left = n * ByteBits
      /\ a.bits = count * ByteBits /\ a.out = count * ByteBits
  BY <1>1 DEF Situation
<1> HIDE DEF a, n, w
<1>8. PICK b \in Situations :
        /\ Runs(w, Waveform(n, TRUE), a, b) /\ b.pins.sk = 1 /\ ~b.pins.ss /\ b.left = 0
        /\ b.bits = (count + n) * ByteBits /\ b.out = (count + n) * ByteBits
  BY <1>1, <1>2, <1>6, <1>7, WaveformRuns DEF w
<1>9. Now' = Situation(pins, Len(received), out, n * ByteBits)
  <2>1. Len(replies') = 0
    BY <1>1, EmptySeq
  <2>2. Due' = n * ByteBits
    BY <1>1, <1>4, <1>5, <2>1 DEF Due
  <2>3. QED
    BY <1>1, <2>2 DEF Now
<1>10. Runs(Asked', commands', Now', b)
  <2>1. phase # "read"
    BY <1>1
  <2>2. Runs(w, commands, Situation(pins, Len(received), out, n * ByteBits), a)
    BY <1>1, <1>5, <2>1, StillRuns, Zenon DEF a
  <2>3. Runs(w, commands \o Waveform(n, TRUE), Now', b)
    BY <1>8, <1>9, <2>2, RunsConcat
  <2>4. QED
    BY <1>1, <1>4, <2>3
<1>11. SentBytes' = count + n
  BY <1>1, <1>3 DEF SentBytes, n
<1>12. Does(Rest', l, m)
  BY <1>1 DEF Rest
<1>13. Steady(l, b)'
  BY <1>1, <1>3, <1>8, <1>10, <1>11, <1>12 DEF Steady, Noted
<1>14. RepliesInv'
  BY <1>1, NoReplies
<1>15. TakenInv' /\ WriterInv'
  BY <1>1, LiveParts DEF TakenInv, WriterInv
<1>16. QED
  BY <1>13, <1>14, <1>15 DEF InOrder

(* A command: its bytes go out, and nobody waits.                          *)
LEMMA CommandOrder ==
  ASSUME PinsInv, Live, SPI_Write, ~Doing("transfer")
  PROVE  InOrder'
<1> DEFINE n == Head(steps).n
           w == Transfers(count * ByteBits, n * ByteBits)
<1>1. PICK l \in Levels, e \in Situations, m \in {"new", "high"} :
           /\ l = "low" /\ Steady(l, e) /\ Does(Tail(steps), l, m)
           /\ n \in Nat \ {0} /\ phase = "write"
           /\ ssState = FALSE /\ replies = <<>> /\ g_currentSSState = FALSE
           /\ e.left = 0 /\ e.pins.sk = 1 /\ ~e.pins.ss
           /\ e.bits = count * ByteBits /\ e.out = count * ByteBits
           /\ commands' = commands \o Waveform(n, FALSE)
           /\ phase' = "start" /\ steps' = Tail(steps) /\ count' = count + n
           /\ UNCHANGED <<g_currentSSState, replies, pins, received, out>>
  <2>1. FALSE = Doing("transfer")
    BY DEF Doing
  <2>2. QED
    BY <2>1, WriteParts
<1>2. count \in Nat
  BY DEF PinsInv, PinsTyped
<1> HIDE DEF n, w
<1>3. PICK b \in Situations :
        /\ Runs(w, Waveform(n, FALSE), e, b) /\ b.pins.sk = 1 /\ ~b.pins.ss /\ b.left = 0
        /\ b.bits = (count + n) * ByteBits /\ b.out = (count + n) * ByteBits
  BY <1>1, <1>2, WaveformRuns DEF w
<1>4. Runs(Asked', Waveform(n, FALSE), e, b)
  BY <1>1, <1>3, RunsIdle, Zenon
<1>5. Runs(Asked', commands', Now', b)
  <2>1. phase # "read"
    BY <1>1
  <2>2. Runs(Asked', commands, Now, e)
    BY <1>1, <2>1, StillRuns, Zenon
  <2>3. Now' = Now
    <3>1. Due = 0 /\ Due' = 0
      BY <1>1 DEF Due
    <3>2. QED
      BY <1>1, <3>1 DEF Now
  <2>4. QED
    BY <1>1, <1>4, <2>2, <2>3, RunsConcat
<1>6. SentBytes' = count + n
  BY <1>1, <1>2 DEF SentBytes
<1>7. Does(Rest', l, m)
  BY <1>1 DEF Rest
<1>8. Steady(l, b)'
  BY <1>1, <1>3, <1>5, <1>6, <1>7 DEF Steady, Noted
<1>9. RepliesInv'
  BY <1>1, NoReplies
<1>10. TakenInv' /\ WriterInv'
  BY <1>1, LiveParts DEF TakenInv, WriterInv
<1>11. QED
  BY <1>8, <1>9, <1>10 DEF InOrder

(* A poll looks when all that was sent has been taken.                     *)
LEMMA PollOrder ==
  ASSUME PinsInv, Live, Poll
  PROVE  InOrder'
<1>1. PICK l \in Levels, e \in Situations : Steady(l, e)
  BY LiveParts
<1>2. /\ steps # <<>> /\ Head(steps).op = "wait" /\ phase = "start" /\ phase' = "read"
      /\ commands' = commands \o <<ReadPins>>
      /\ UNCHANGED <<steps, count, g_currentSSState, replies, pins, received, out>>
  BY LiveParts DEF Poll, Doing, FT_Write, isd2100
<1>3. PICK m \in {"new", "high"} : Does(steps, l, m)
  BY <1>1, <1>2 DEF Steady, Rest
<1>4. l # "new"
  <2>1. PICK k \in Levels : Allowed(Head(steps), l, k)
    BY <1>2, <1>3, NextLevel DEF PinsInv, PinsTyped
  <2>2. QED
    BY <1>2, <2>1 DEF Allowed
<1>5. SentBytes = count /\ SentBytes' = count
  BY <1>2 DEF SentBytes, Doing, PinsInv, PinsTyped
<1>6. e.bits = count * ByteBits /\ e.left = 0
  BY <1>1, <1>4, <1>5 DEF Steady
<1> DEFINE w == Wait(count * ByteBits)
           a == Situation(e.pins, e.bits, e.out, 1)
<1>7. Doing("wait")' /\ ~Doing("transfer")' /\ ~Doing("select")'
  BY <1>2 DEF Doing
<1>8. Asked' = w /\ Wanted' = 1
  BY <1>2, <1>7 DEF Asked, Wanted
<1>9. Runs(w, <<ReadPins>>, a, e)
  <2>1. a \in Situations
    BY SituationParts
  <2>2. a.left = 1 /\ a.bits = e.bits /\ a.pins = e.pins /\ a.out = e.out
    BY DEF Situation
  <2>3. e = Situation(a.pins, a.bits, a.out, a.left - 1)
    <3>1. e = Situation(e.pins, e.bits, e.out, e.left) /\ 1 - 1 = 0
      BY SituationParts
    <3>2. QED
      BY <1>6, <2>2, <3>1
  <2>4. w.wait = TRUE /\ w.base = count * ByteBits
    BY DEF Wait
  <2> HIDE DEF a, w
  <2>5. Looked(w, a, e)
    BY <1>6, <2>2, <2>3, <2>4 DEF Looked
  <2>6. QED
    BY <2>1, <2>5, RunsRead
<1>10. Now' = Situation(pins, Len(received), out, 1)
  <2>1. replies' = <<>>
    BY <1>2, LiveParts DEF RepliesInv
  <2>2. Len(replies') = 0
    BY <2>1, EmptySeq
  <2>3. Due' = 1
    BY <1>2, <1>8, <2>2 DEF Due
  <2>4. QED
    BY <1>2, <2>3 DEF Now
<1>11. Runs(Asked', commands', Now', e)
  <2>1. phase # "read" /\ 1 \in Nat
    BY <1>2
  <2>2. Runs(w, commands, Situation(pins, Len(received), out, 1), a)
    BY <1>1, <2>1, StillRuns, Zenon
  <2> HIDE DEF a, w
  <2>3. Runs(w, commands \o <<ReadPins>>, Situation(pins, Len(received), out, 1), e)
    BY <1>9, <2>2, RunsConcat
  <2>4. QED
    BY <1>2, <1>8, <1>10, <2>3
<1>12. Does(Rest', l, m)
  BY <1>2, <1>3 DEF Rest
<1>13. Steady(l, e)'
  BY <1>1, <1>2, <1>5, <1>7, <1>11, <1>12 DEF Steady, Noted
<1>14. RepliesInv'
  BY <1>2, LiveParts, NoReplies DEF RepliesInv
<1>15. TakenInv' /\ WriterInv'
  BY <1>2, LiveParts DEF TakenInv, WriterInv
<1>16. QED
  BY <1>13, <1>14, <1>15 DEF InOrder

(* What is read is all that there is.                                      *)
LEMMA ReadOrder ==
  ASSUME PinsInv, Live, FT_Read
  PROVE  InOrder'
<1>1. PICK l \in Levels, e \in Situations : Steady(l, e)
  BY LiveParts
<1>2. /\ phase = "read" /\ Len(replies) >= Wanted /\ phase' = "start"
      /\ replies' = SubSeq(replies, Wanted + 1, Len(replies))
      /\ steps' \in {steps, Tail(steps)}
      /\ count' = IF Doing("transfer") THEN count + Head(steps).n ELSE count
      /\ UNCHANGED <<g_currentSSState, commands, pins, received, out>>
  BY DEF FT_Read, StepDone, isd2100
<1>3. steps # <<>> /\ (Head(steps).op = "transfer" \/ Head(steps).op = "wait")
  BY <1>2 DEF PinsInv, PhaseInv, Doing
<1>4. Wanted \in Nat \ {0}
  BY <1>2, WantedIs DEF PinsInv
<1>5. Runs(Asked, commands, Now, e)
  BY <1>1 DEF Steady
<1>6. Due = 0 /\ Len(replies) = Wanted
  <2>1. Now \in Situations
    BY <1>5, PathTyped DEF Runs
  <2>2. Now.left = Due
    BY DEF Now, Situation
  <2>3. Due \in Nat
    BY <2>1, <2>2 DEF Situations
  <2>4. Due = Wanted - Len(replies) /\ Len(replies) \in Nat
    BY <1>2 DEF Due, PinsInv, PinsTyped
  <2>5. QED
    BY <1>2, <1>4, <2>3, <2>4
<1>7. replies' = <<>>
  BY <1>2, <1>4, <1>6 DEF PinsInv, PinsTyped
<1>8. Runs(Asked', commands', Now', e)
  <2>1. Now.left = 0
    BY <1>6 DEF Now, Situation
  <2>2. Now' = Now
    <3>1. Due' = Due
      BY <1>2, <1>6 DEF Due
    <3>2. QED
      BY <1>2, <3>1 DEF Now
  <2>3. Runs(Asked', commands, Now, e)
    BY <1>5, <2>1, RunsIdle, Zenon
  <2>4. QED
    BY <1>2, <2>2, <2>3
<1>9. SentBytes' = SentBytes
  <2>1. SentBytes' = count'
    <3>1. count' \in Nat
      BY <1>2, <1>3, FrontOf DEF PinsInv, PinsTyped, Doing
    <3>2. QED
      BY <1>2, <3>1 DEF SentBytes
  <2>2. SentBytes = count'
    BY <1>2, <1>3 DEF SentBytes, Doing, PinsInv, PinsTyped
  <2>3. QED
    BY <2>1, <2>2
<1>10. PICK m \in {"new", "high"} : Does(steps, l, m)
  BY <1>1, <1>2 DEF Steady, Rest
<1>11. Does(Tail(steps), l, m)
  <2>1. PICK k \in Levels : Allowed(Head(steps), l, k) /\ Does(Tail(steps), k, m)
    BY <1>3, <1>10, NextLevel DEF PinsInv, PinsTyped
  <2>2. k = l
    BY <1>3, <2>1 DEF Allowed
  <2>3. QED
    BY <2>1, <2>2
<1>12. Does(Rest', l, m)
  BY <1>2, <1>10, <1>11 DEF Rest
<1>13. g_currentSSState' <=> l # "low"
  BY <1>1, <1>2 DEF Steady, Noted
<1>14. Steady(l, e)'
  BY <1>1, <1>2, <1>8, <1>9, <1>12, <1>13 DEF Steady, Noted
<1>15. RepliesInv'
  BY <1>7, NoReplies
<1>16. TakenInv' /\ WriterInv'
  BY <1>2, LiveParts DEF TakenInv, WriterInv
<1>17. QED
  BY <1>14, <1>15, <1>16 DEF InOrder

(* A channel that was opened is at rest.                                   *)
LEMMA OpenOrder ==
  ASSUME PinsInv, FTDI_AutoInitialize, g_ftHandle'
  PROVE  InOrder'
<1>1. /\ steps' = <<>> /\ phase' = phase /\ g_currentSSState' = TRUE
      /\ pins' = IdlePins /\ commands' = <<>> /\ replies' = <<>>
      /\ UNCHANGED <<received, out>>
  BY DEF FTDI_AutoInitialize, FT_SetBitMode, FT_Purge, worker, isd2100
<1>2. phase' = "start"
  BY <1>1 DEF FTDI_AutoInitialize, PinsInv, PhaseInv
<1>3. Now' \in Situations /\ Now'.left = 0 /\ Now'.pins = IdlePins
  <2>1. Due' = 0
    BY <1>2 DEF Due
  <2>2. Len(received) \in Nat /\ out \in Nat
    BY DEF PinsInv, PinsTyped
  <2>3. Now' = Situation(IdlePins, Len(received), out, 0)
    BY <1>1, <2>1 DEF Now
  <2>4. QED
    BY <2>2, <2>3, IdleTyped, SituationParts
<1>4. Runs(Asked', commands', Now', Now')
  BY <1>1, <1>3, PathNil DEF Runs
<1>5. Does(Rest', "new", "new") /\ "new" \in Levels /\ "new" \in {"new", "high"}
  <2>1. "new" \in Levels
    BY DEF Levels
  <2>2. Does(<<>>, "new", "new")
    BY <2>1, PathNil DEF Does
  <2>3. QED
    BY <1>1, <1>2, <2>1, <2>2 DEF Rest
<1>6. IdlePins.sk = 1 /\ IdlePins.ss = TRUE
  BY DEF IdlePins
<1>7. PICK d \in Situations : d = Now'
  BY <1>3
<1>8. Steady("new", d)'
  BY <1>1, <1>2, <1>3, <1>4, <1>5, <1>6, <1>7 DEF Steady, Noted
<1>9. RepliesInv'
  BY <1>1, NoReplies
<1>10. TakenInv' /\ WriterInv'
  BY <1>1, <1>2, <1>6 DEF TakenInv, WriterInv
<1>11. QED
  BY <1>5, <1>8, <1>9, <1>10 DEF InOrder

(* Nothing is worked on: FTDI_DEINIT deselects the chip.                   *)
LEMMA DeinitWriteOrder ==
  ASSUME PinsInv, Live, DeinitWritePins
  PROVE  InOrder'
<1>1. PICK l \in Levels, e \in Situations : Steady(l, e)
  BY LiveParts
<1> DEFINE c == SetPins(1, None, TRUE)
<1>2. /\ steps = <<>> /\ phase = "start"
      /\ UNCHANGED <<steps, phase, ssState, count, g_currentSSState, replies, pins, received, out>>
  <2>1. steps = <<>>
    BY LiveParts DEF DeinitWritePins
  <2>2. QED
    BY <2>1 DEF DeinitWritePins, PinsInv, PhaseInv, worker, isd2100
<1>3. PICK m \in {"new", "high"} : Does(Rest, l, m) /\ Does(<<>>, l, m)
  BY <1>1, <1>2 DEF Steady, Rest
<1>4. l # "low"
  BY <1>3, PathNil DEF Does
<1>5. g_currentSSState = TRUE
  <2>1. g_currentSSState <=> TRUE
    BY <1>1, <1>2, <1>4 DEF Steady, Noted
  <2>2. QED
    BY <2>1 DEF PinsInv, PinsTyped
<1>6. commands' = commands \o <<c>>
  BY <1>5, LiveParts DEF DeinitWritePins, FT_Write
<1>7. /\ c \in Orders /\ c.op = "set" /\ c.pins \in PinStates /\ c.pins.sk = 1 /\ c.pins.ss
  <2>1. 1 \in 0 .. 1 /\ None \in Labels /\ TRUE \in BOOLEAN
    BY DEF Labels
  <2>2. c \in Orders /\ c.pins \in PinStates
    BY <2>1, OrderParts, Zenon
  <2>3. c.op = "set" /\ c.pins.sk = 1 /\ c.pins.ss
    BY DEF SetPins
  <2>4. QED
    BY <2>2, <2>3
<1> HIDE DEF c
<1>8. PICK d \in Situations : d.pins = c.pins /\ d.left = 0 /\ d.bits = e.bits /\ d.out = e.out
  <2> DEFINE x == Situation(c.pins, e.bits, e.out, 0)
  <2>1. x.pins = c.pins /\ x.left = 0 /\ x.bits = e.bits /\ x.out = e.out
    BY DEF Situation
  <2>2. x \in Situations
    BY <1>7, SituationParts
  <2> HIDE DEF x
  <2>3. QED
    BY <2>1, <2>2
<1>9. e.left = 0
  BY <1>1 DEF Steady
<1>10. Pinned(c.pins, e, d)
  BY <1>7, <1>8, <1>9 DEF Pinned
<1>11. Runs(Asked', commands', Now', d)
  <2>1. Now' = Now
    <3>1. Due = 0 /\ Due' = 0
      BY <1>2 DEF Due
    <3>2. QED
      BY <1>2, <3>1 DEF Now
  <2>2. Runs(Asked', commands, Now, e)
    <3>1. phase # "read"
      BY <1>2
    <3>2. QED
      BY <1>1, <3>1, StillRuns, Zenon
  <2>3. Runs(Asked', <<c>>, e, d)
    BY <1>7, <1>8, <1>10, RunsSet
  <2>4. QED
    BY <1>6, <2>1, <2>2, <2>3, RunsConcat
<1>12. SentBytes' = SentBytes /\ Rest' = Rest
  BY <1>2 DEF SentBytes, Rest, Doing
<1>13. g_currentSSState'
  BY <1>2, <1>5
<1>14. Steady(l, d)'
  BY <1>1, <1>2, <1>3, <1>4, <1>7, <1>8, <1>11, <1>12, <1>13 DEF Steady, Noted
<1>15. RepliesInv'
  BY <1>2, LiveParts, NoReplies DEF RepliesInv
<1>16. TakenInv' /\ WriterInv'
  BY <1>2, LiveParts DEF TakenInv, WriterInv
<1>17. QED
  BY <1>14, <1>15, <1>16 DEF InOrder

(* The FT2232H does the next command, and the chip what that makes it do.  *)
LEMMA ExecuteOrder ==
  ASSUME PinsInv, Live, Execute
  PROVE  InOrder'
<1>1. PICK l \in Levels, e \in Situations : Steady(l, e)
  BY LiveParts
<1> DEFINE c == Head(commands)
<1>2. /\ commands # <<>> /\ commands' = Tail(commands)
      /\ UNCHANGED <<steps, phase, ssState, count, g_currentSSState>>
  BY DEF Execute, worker
<1>3. Runs(Asked, commands, Now, e)
  BY <1>1 DEF Steady
<1>4. c \in Orders
  BY <1>2, <1>3, PathFirst DEF Runs
<1>5. PICK t \in Situations : <<c, Now, t>> \in Moves(Asked) /\ Runs(Asked, commands', t, e)
  BY <1>2, <1>3, PathFirst DEF Runs
<1>6. /\ Now.pins = pins /\ Now.bits = Len(received) /\ Now.out = out /\ Now.left = Due
      /\ Now \in Situations
  <2>1. Now \in Situations
    BY <1>3, PathTyped DEF Runs
  <2>2. QED
    BY <2>1 DEF Now, Situation
<1>7. \/ c.op = "set" /\ Pinned(c.pins, Now, t)
      \/ c.op = "read" /\ Looked(Asked, Now, t)
  BY <1>5 DEF Moves
<1>8. /\ received \in Seq(Labels) /\ Len(received) \in Nat /\ out \in Nat
      /\ replies \in Seq(Answers) /\ Len(replies) \in Nat /\ count \in Nat /\ ByteBits \in Nat
  BY PinsAssumption DEF PinsInv, PinsTyped
<1>9. RepliesInv /\ TakenInv /\ WriterInv
  BY LiveParts
<1>10. UNCHANGED <<Wanted, Asked, Rest, SentBytes, Doing("wait"), Doing("transfer"), Doing("select")>>
  BY <1>2 DEF Wanted, Asked, Rest, SentBytes, Doing
<1> HIDE DEF c
<1>11. CASE c.op = "set"
  <2>1. Pinned(c.pins, Now, t) /\ c.pins \in PinStates
    BY <1>4, <1>7, <1>11 DEF Orders
  <2>2. pins' = c.pins /\ ClockChip(c.pins) /\ replies' = replies
    BY <1>11 DEF Execute, c
  <2>3. Due' = Due
    BY <1>2, <1>10, <2>2 DEF Due
  <2>4. RepliesInv'
    BY <1>2, <1>9, <1>10, <2>2 DEF RepliesInv
  <2>5. t.bits = Len(received') /\ t.out = out' /\ TakenInv'
    <3> DEFINE p == c.pins
    <3>1. /\ t.pins = p
          /\ IF pins.ss /\ ~p.ss THEN t.bits = 0 /\ t.out = 0
             ELSE IF p.ss THEN t.bits = Len(received) /\ t.out = out
             ELSE IF pins.sk = 1 /\ p.sk = 0 THEN t.bits = Len(received) /\ t.out = out + 1
             ELSE IF pins.sk = 0 /\ p.sk = 1
             THEN /\ t.bits = Len(received) + 1 /\ t.out = out
                  /\ p.mosi = pins.mosi /\ p.mosi = NthBit(t.bits)
             ELSE t.bits = Len(received) /\ t.out = out
      BY <1>6, <2>1 DEF Pinned
    <3> HIDE DEF p
    <3>2. ClockChip(p) /\ pins' = p
      BY <2>2 DEF p
    <3>3. CASE pins.ss /\ ~p.ss
      <4>1. received' = <<>> /\ out' = 0 /\ Len(received') = 0
        BY <3>2, <3>3, EmptySeq DEF ClockChip
      <4>2. QED
        BY <3>1, <3>3, <4>1 DEF TakenInv
    <3>4. CASE ~(pins.ss /\ ~p.ss) /\ p.ss
      <4>1. received' = received /\ out' = out
        BY <3>2, <3>4 DEF ClockChip, isd2100
      <4>2. QED
        BY <3>1, <3>2, <3>4, <4>1 DEF TakenInv
    <3>5. CASE ~pins.ss /\ ~p.ss
      <4>1. \A n \in 1 .. Len(received) : received[n] = NthBit(n)
        BY <1>9, <3>5 DEF TakenInv
      <4>2. CASE pins.sk = 1 /\ p.sk = 0
        <5>1. received' = received /\ out' = out + 1
          BY <3>2, <3>5, <4>2 DEF ClockChip
        <5>2. QED
          BY <3>1, <3>5, <4>1, <4>2, <5>1 DEF TakenInv
      <4>3. CASE ~(pins.sk = 1 /\ p.sk = 0) /\ pins.sk = 0 /\ p.sk = 1
        <5>1. /\ t.bits = Len(received) + 1 /\ t.out = out /\ p.mosi = pins.mosi
              /\ p.mosi = NthBit(t.bits)
          BY <3>1, <3>5, <4>3
        <5>2. received' = Append(received, p.mosi) /\ out' = out
          BY <3>2, <3>5, <4>3, <5>1 DEF ClockChip
        <5>3. /\ Len(received') = Len(received) + 1
              /\ \A n \in 1 .. Len(received) : received'[n] = received[n]
              /\ received'[Len(received) + 1] = p.mosi
          BY <1>8, <5>2
        <5>4. ASSUME NEW n \in 1 .. Len(received') PROVE received'[n] = NthBit(n)
          <6>1. n \in 1 .. Len(received) \/ n = Len(received) + 1
            BY <1>8, <5>3
          <6>2. QED
            BY <4>1, <5>1, <5>3, <6>1
        <5>5. QED
          BY <5>1, <5>2, <5>3, <5>4 DEF TakenInv
      <4>4. CASE ~(pins.sk = 1 /\ p.sk = 0) /\ ~(pins.sk = 0 /\ p.sk = 1)
        <5>1. received' = received /\ out' = out
          BY <3>2, <3>5, <4>4 DEF ClockChip, isd2100
        <5>2. QED
          BY <3>1, <3>5, <4>1, <4>4, <5>1 DEF TakenInv
      <4>5. QED
        BY <4>2, <4>3, <4>4
    <3>6. QED
      BY <3>3, <3>4, <3>5
  <2>6. Now' = t
    <3>1. t.pins = pins' /\ t.left = Due'
      BY <1>6, <2>1, <2>2, <2>3 DEF Pinned
    <3>2. t = Situation(t.pins, t.bits, t.out, t.left)
      BY SituationParts
    <3>3. QED
      BY <2>5, <3>1, <3>2 DEF Now
  <2>7. Runs(Asked', commands', Now', e)
    BY <1>5, <1>10, <2>6
  <2>8. Steady(l, e)'
    BY <1>1, <1>2, <1>10, <2>7 DEF Steady, Noted
  <2>9. WriterInv'
    BY <1>2, <1>9, <1>10 DEF WriterInv
  <2>10. QED
    BY <2>4, <2>5, <2>8, <2>9 DEF InOrder
<1>12. CASE c.op = "read"
  <2>1. Looked(Asked, Now, t)
    BY <1>7, <1>12
  <2>2. PICK ready \in BOOLEAN :
          replies' = Append(replies, [miso |-> IF pins.ss \/ out = 0 THEN None ELSE NthBit(out),
                                      rdy  |-> ready, at |-> Len(received)])
    BY <1>12 DEF Execute, c
  <2>3. UNCHANGED <<pins, received, out>>
    BY <1>12 DEF Execute, c, isd2100
  <2>4. Due > 0 /\ t = Situation(pins, Len(received), out, Due - 1)
    BY <1>6, <2>1 DEF Looked
  <2>5. phase = "read" /\ Due = Wanted - Len(replies)
    BY <2>4 DEF Due
  <2>6. Wanted \in Nat \ {0} /\ (Doing("wait") <=> ~Doing("transfer"))
    BY <2>5, WantedIs DEF PinsInv
  <2> DEFINE r == [miso |-> IF pins.ss \/ out = 0 THEN None ELSE NthBit(out),
                   rdy  |-> ready, at |-> Len(received)]
  <2>7. /\ Len(replies') = Len(replies) + 1
        /\ \A i \in 1 .. Len(replies) : replies'[i] = replies[i]
        /\ replies'[Len(replies) + 1] = r
    <3> HIDE DEF r
    <3>1. replies' = Append(replies, r)
      BY <2>2 DEF r
    <3>2. QED
      BY <1>8, <3>1
  <2>8. Now' = t
    <3>1. Due' = Due - 1
      BY <1>2, <1>8, <1>10, <2>5, <2>6, <2>7 DEF Due
    <3>2. QED
      BY <2>3, <2>4, <3>1 DEF Now
  <2>9. Runs(Asked', commands', Now', e)
    BY <1>5, <1>10, <2>8
  <2>10. Steady(l, e)'
    BY <1>1, <1>2, <1>10, <2>9 DEF Steady, Noted
  <2>11. WriterInv' /\ TakenInv'
    BY <1>2, <1>9, <1>10, <2>3 DEF WriterInv, TakenInv
  <2>12. \A i \in 1 .. Len(replies') : i \in 1 .. Len(replies) \/ i = Len(replies) + 1
    BY <1>8, <2>7
  <2>13. CASE Doing("wait")
    <3>1. Asked = Wait(count * ByteBits)
      BY <2>13 DEF Asked
    <3>2. r.at = count * ByteBits
      BY <1>6, <2>1, <3>1 DEF Looked, Wait
    <3>3. \A i \in 1 .. Len(replies) : replies[i].at = count * ByteBits
      BY <1>9, <2>13 DEF RepliesInv
    <3> HIDE DEF r
    <3>4. \A i \in 1 .. Len(replies') : replies'[i].at = count * ByteBits
      BY <2>7, <2>12, <3>2, <3>3
    <3>5. RepliesInv'
      BY <1>2, <1>10, <2>5, <2>6, <2>13, <3>4 DEF RepliesInv
    <3>6. QED
      BY <2>10, <2>11, <3>5 DEF InOrder
  <2>14. CASE Doing("transfer")
    <3>1. Asked = Transfers(count * ByteBits, Wanted)
      BY <2>6, <2>14 DEF Asked
    <3>2. ~pins.ss /\ out = count * ByteBits + (Wanted - Due) + 1
      BY <1>6, <2>1, <3>1 DEF Looked, Transfers
    <3>3. out = count * ByteBits + (Len(replies) + 1) /\ out # 0
      <4>1. count * ByteBits \in Nat
        BY <1>8
      <4>2. QED
        BY <1>8, <2>5, <2>6, <3>2, <4>1
    <3>4. r.miso = NthBit(count * ByteBits + (Len(replies) + 1))
      BY <3>2, <3>3
    <3>5. \A i \in 1 .. Len(replies) : replies[i].miso = NthBit(count * ByteBits + i)
      BY <1>9, <2>14 DEF RepliesInv
    <3> HIDE DEF r
    <3>6. \A i \in 1 .. Len(replies') : replies'[i].miso = NthBit(count * ByteBits + i)
      BY <2>7, <2>12, <3>4, <3>5
    <3>7. RepliesInv'
      BY <1>2, <1>10, <2>5, <2>6, <2>14, <3>6 DEF RepliesInv
    <3>8. QED
      BY <2>10, <2>11, <3>7 DEF InOrder
  <2>15. QED
    BY <2>6, <2>13, <2>14
<1>13. QED
  BY <1>7, <1>11, <1>12

(* A step of somebody else.                                                *)
LEMMA StutterOrder ==
  ASSUME PinsInv, Live, UNCHANGED pinsVars
  PROVE  InOrder'
<1>1. PICK l \in Levels, e \in Situations : Steady(l, e)
  BY LiveParts
<1>2. UNCHANGED <<steps, phase, ssState, count, g_currentSSState, commands, replies, pins, received,
                  out>>
  BY DEF pinsVars, worker, ft2232h, isd2100
<1>3. UNCHANGED <<Wanted, Rest, SentBytes, Doing("wait"), Doing("transfer"), Doing("select")>>
  BY <1>2 DEF Wanted, Rest, SentBytes, Doing
<1>4. UNCHANGED <<Asked, Now>>
  BY <1>2, <1>3 DEF Asked, Now, Due
<1>5. Steady(l, e)'
  BY <1>1, <1>2, <1>3, <1>4 DEF Steady, Noted
<1>6. RepliesInv' /\ TakenInv' /\ WriterInv'
  BY <1>2, <1>3, LiveParts DEF RepliesInv, TakenInv, WriterInv
<1>7. QED
  BY <1>5, <1>6 DEF InOrder

(* What is in use stays in order.                                          *)
LEMMA BusKeeps == PinsInv /\ [PinsNext]_pinsVars => BusInv'
<1> SUFFICES ASSUME PinsInv, [PinsNext]_pinsVars, Live' PROVE InOrder'
  BY DEF BusInv
<1>1. g_ftHandle'
  BY DEF Live
<1>2. CASE FTDI_AutoInitialize
  BY <1>1, <1>2, OpenOrder
<1>3. CASE Live
  <2>1. CASE Call
    BY <1>3, <2>1, CallOrder
  <2>2. CASE SelectState
    BY <1>3, <2>2, SelectOrder
  <2>3. CASE WritePins
    BY <1>3, <2>3, WritePinsOrder
  <2>4. CASE Sleep
    BY <1>3, <2>4, SleepOrder
  <2>5. CASE Prepare
    BY <1>3, <2>5, PrepareOrder
  <2>6. CASE SPI_Write
    BY <1>3, <2>6, TransferOrder, CommandOrder
  <2>7. CASE Poll
    BY <1>3, <2>7, PollOrder
  <2>8. CASE FT_Read
    BY <1>3, <2>8, ReadOrder
  <2>9. CASE ReadNothing
    BY <1>3, <2>9 DEF ReadNothing, Live
  <2>10. CASE CheckStatus
    BY <1>3, <2>10, StatusOrder
  <2>11. CASE DeinitSelect
    <3>1. closing' = "select" /\ cut' = (cut \/ steps # <<>>)
      BY <2>11 DEF DeinitSelect
    <3>2. steps = <<>>
      BY <3>1 DEF Live
    <3>3. QED
      BY <1>3, <2>11, <3>2, DeinitSelectOrder
  <2>12. CASE DeinitWritePins
    BY <1>3, <2>12, DeinitWriteOrder
  <2>13. CASE DeinitClose
    BY <1>1, <2>13 DEF DeinitClose
  <2>14. CASE Execute
    BY <1>3, <2>14, ExecuteOrder
  <2>15. CASE UNCHANGED pinsVars
    BY <1>3, <2>15, StutterOrder
  <2>16. QED
    BY <1>2, <2>1, <2>2, <2>3, <2>4, <2>5, <2>6, <2>7, <2>8, <2>9, <2>10, <2>11, <2>12, <2>13, <2>14,
       <2>15 DEF PinsNext, Worker
<1>4. QED
  BY <1>2, <1>3, LiveBefore

(* The channel is closed at first.                                         *)
LEMMA PinsStart == PinsInit => PinsInv
<1> SUFFICES ASSUME PinsInit PROVE PinsInv
  OBVIOUS
<1>1. PinsTyped
  <2>1. <<>> \in Seq(Ops) /\ <<>> \in Seq(Orders) /\ <<>> \in Seq(Answers) /\ <<>> \in Seq(Labels)
    BY EmptySeq
  <2>2. QED
    BY <2>1, IdleTyped DEF PinsInit, PinsTyped
<1>2. PhaseInv /\ OwnedInv /\ BusInv
  BY DEF PinsInit, PhaseInv, OwnedInv, BusInv, Live
<1>3. QuietInv
  BY EmptySeq DEF PinsInit, QuietInv
<1>4. AnswerInv
  <2>1. answer.bytes = <<>> /\ answer.ready = -1 /\ Len(answer.bytes) = 0
    BY DEF PinsInit, NoAnswer
  <2>2. Right(answer, count)
    BY <2>1 DEF Right
  <2>3. QED
    BY <2>2 DEF AnswerInv
<1>5. QED
  BY <1>1, <1>2, <1>3, <1>4 DEF PinsInv

LEMMA PinsStep == PinsInv /\ [PinsNext]_pinsVars => PinsInv'
<1> SUFFICES ASSUME PinsInv, [PinsNext]_pinsVars PROVE PinsInv'
  OBVIOUS
<1>1. PinsTyped /\ PhaseInv
  BY DEF PinsInv
<1>2. PinsTyped' /\ PhaseInv'
  <2>1. CASE Call \/ Worker
    BY <1>1, <2>1, WorkerTyped
  <2>2. CASE FTDI_AutoInitialize \/ DeinitSelect \/ DeinitWritePins \/ DeinitClose \/ Execute
    BY <1>1, <2>2, OtherTyped
  <2>3. CASE UNCHANGED pinsVars
    BY <1>1, <2>3 DEF pinsVars, worker, ft2232h, isd2100, PinsTyped, PhaseInv, Doing
  <2>4. QED
    BY <2>1, <2>2, <2>3 DEF PinsNext
<1>3. OwnedInv' /\ QuietInv' /\ AnswerInv' /\ BusInv'
  BY OwnedKeeps, QuietKeeps, AnswerKeeps, BusKeeps
<1>4. QED
  BY <1>2, <1>3 DEF PinsInv

LEMMA PinsAlways == PinsSpec => []PinsInv
<1>1. QED
  BY PinsStart, PinsStep, PTL DEF PinsSpec

(* For exports of any length, bytes of any width and polls of any number:  *)
(* while the ISD2100 is selected it has the bits of the bytes SPI_Transfer, *)
(* SPI_SendCommand, SPI_SendPacket and SPI_ReadPacket send, each once and  *)
(* in order, and has all of them once the FT2232H is idle - with whatever  *)
(* FTDI_DEINIT closes the channel before, and whenever it is opened again. *)
THEOREM FramesTheorem == PinsSpec => []FramesExact
<1>1. ASSUME PinsInv PROVE FramesExact
  <2>1. SUFFICES ASSUME g_ftHandle, ~cut, ~pins.ss
                 PROVE  /\ \A n \in 1 .. Len(received) : received[n] = NthBit(n)
                        /\ commands = <<>> => Len(received) = ByteBits * SentBytes
    BY DEF FramesExact, Uncut
  <2>2. Live
    BY <2>1 DEF Live
  <2>3. \A n \in 1 .. Len(received) : received[n] = NthBit(n)
    BY <1>1, <2>1, <2>2, LiveParts DEF TakenInv
  <2>4. ASSUME commands = <<>> PROVE Len(received) = ByteBits * SentBytes
    <3>1. PICK l \in Levels, e \in Situations : Steady(l, e)
      BY <1>1, <2>2, LiveParts
    <3>2. Now = e
      BY <2>4, <3>1, PathNil DEF Steady, Runs
    <3>3. e.pins = pins /\ e.bits = Len(received)
      BY <3>2 DEF Now, Situation
    <3>4. e.bits = SentBytes * ByteBits
      BY <2>1, <3>1, <3>3 DEF Steady
    <3>5. SentBytes \in Int /\ ByteBits \in Nat
      <4>1. Doing("transfer") => Head(steps).n \in Nat
        BY <1>1, FrontOf DEF Doing, PinsInv
      <4>2. QED
        BY <1>1, <4>1, PinsAssumption DEF SentBytes, PinsInv, PinsTyped
    <3>6. QED
      BY <3>3, <3>4, <3>5
  <2>5. QED
    BY <2>3, <2>4
<1>2. QED
  BY <1>1, PinsAlways, PTL

(* What SPI_Transfer and SPI_ReadPacket return are the bits the chip put   *)
(* out for their bytes, and WaitForReady looks at RDY when the chip has    *)
(* taken all that was sent before, for exports of any length, bytes of any *)
(* width and polls of any number: no read of the channel ever takes the    *)
(* reply to another command, whoever closed the channel before.            *)
THEOREM RepliesTheorem == PinsSpec => []RepliesExact
<1>1. ASSUME PinsInv PROVE RepliesExact
  BY <1>1 DEF PinsInv, AnswerInv, Right, RepliesExact, Uncut
<1>2. QED
  BY <1>1, PinsAlways, PTL

(* FT_Read has no time-out in ISD2100.cpp: while the channel is open and   *)
(* nobody closes it, the commands before a read cause as many replies as   *)
(* it asks for, and none that it would leave for the next one.             *)
ReadsAnswered ==
  g_ftHandle /\ closing = "no" /\ phase = "read" /\ commands = <<>> => Len(replies) = Wanted

(* No read of SPI_Transfer, SPI_ReadPacket or WaitForReady waits for what  *)
(* nobody sends: the part of ExportsReturn that is a matter of safety.     *)
THEOREM AnswersTheorem == PinsSpec => []ReadsAnswered
<1>1. ASSUME PinsInv PROVE ReadsAnswered
  <2>1. SUFFICES ASSUME g_ftHandle, closing = "no", phase = "read", commands = <<>>
                 PROVE  Len(replies) = Wanted
    BY DEF ReadsAnswered
  <2>2. Live
    BY <2>1 DEF Live
  <2>3. PICK l \in Levels, e \in Situations : Steady(l, e)
    BY <1>1, <2>2, LiveParts
  <2>4. Now = e /\ e.left = 0
    BY <2>1, <2>3, PathNil DEF Steady, Runs
  <2>5. Due = 0
    BY <2>4 DEF Now, Situation
  <2>6. Wanted \in Nat /\ Len(replies) \in Nat
    BY <1>1, <2>1, WantedIs DEF PinsInv, PinsTyped
  <2>7. QED
    BY <2>1, <2>5, <2>6 DEF Due
<1>2. QED
  BY <1>1, PinsAlways, PTL

===============================================================================
