----------------------------- MODULE NandReadProofs -----------------------------
(***************************************************************************)
(* Theorems about what a read returns, in both builds: for every size of   *)
(* page and batch, every delay and limit, and a NAND that takes any time.  *)
(***************************************************************************)
EXTENDS NandRead, TLAPS

Commands == {Address(p) : p \in Nat} \cup {LoadPage, Wait, Rewind, NextWord}

(* What the proofs need of the types.                                      *)
DataOK ==
  /\ NAND_FAST_READ \in BOOLEAN
  /\ pc \in {"idle", "loop", "reply", "poll", "process"}
  /\ start \in Nat /\ end \in 0 .. NumPages /\ words \in 1 .. PageWords
  /\ page \in Nat /\ start <= page /\ start <= end /\ polls \in 0 .. PollLimit
  /\ out \in Seq(Nat \X Nat) /\ queue \in Seq(Commands)
  /\ address \in Nat /\ loading \in Nat /\ remaining \in Nat
  /\ buf \in Nat /\ ptr \in 0 .. PageWords
  /\ remaining = 0 => loading = NoPage

(* Every word of a punctual page is in its place.                          *)
WordsExact ==
  /\ \A k \in DOMAIN out : PageAt(k) \notin slow => out[k] = Word(PageAt(k), Offset(k))
  /\ NAND_FAST_READ => \A k \in DOMAIN out : out[k][2] = Offset(k)

\* The first page of the range that is not asked for yet.
NextPage == Minimum(page, end)

(* Between requests the chip has nothing to do and the buffer has the      *)
(* pages asked for.                                                        *)
LoopInv ==
  /\ NAND_FAST_READ => pc \in {"idle", "loop", "reply"}
  /\ ~NAND_FAST_READ => page <= end
  /\ pc \in {"idle", "loop"} => queue = <<>>
  /\ pc = "loop" => Len(out) = (NextPage - start) * words
  /\ pc = "idle" /\ ret = 0 => Len(out) = (end - start) * words

\* Commands of a page: address, load, delay and pointer come before the words.
Size == words + 4

(* The chip has executed o of the commands of page p: the rest of them and *)
(* those of the pages after it are in the queue ...                        *)
QueueFrom(p, o) ==
  /\ start <= p /\ p <= NextPage /\ o < Size /\ (p = NextPage => o = 0)
  /\ Len(queue) = (NextPage - p) * Size - o
  /\ \A k \in 1 .. Len(queue) :
       queue[k] = PageCommands(p + ((o + k - 1) \div Size))[((o + k - 1) % Size) + 1]

(* ... the words of the pages before it are in the buffer, and a punctual  *)
(* page is the one being loaded, then the one in the buffer.               *)
At(p, o) ==
  /\ Len(out) = (p - start) * words + IF o < 4 THEN 0 ELSE o - 4
  /\ o = 1 => address = p
  /\ o >= 4 => ptr = o - 4
  /\ p \notin slow => /\ o = 2 => loading = p /\ remaining <= Delay
                      /\ o >= 3 => buf = p /\ remaining = 0

FastInv ==
  NAND_FAST_READ /\ pc = "reply" => \E p, o \in Nat : QueueFrom(p, o) /\ At(p, o)

(* The same page by page: a punctual page is loaded before the polls end.  *)
PollInv ==
  pc = "poll" =>
    /\ page < end /\ Len(out) = (page - start) * words
    /\ \/ queue = <<Address(page), LoadPage>> /\ polls = 0
       \/ queue = <<LoadPage>> /\ polls = 0 /\ address = page
       \/ /\ queue = <<>>
          /\ page \notin slow => loading = page /\ remaining <= PollLimit + 1 - polls

ProcessInv ==
  pc = "process" =>
    /\ page < end /\ Len(out) = (page - start) * words
    /\ queue \in {<<Rewind>>, <<>>}
    /\ page \notin slow => buf = page /\ remaining = 0 /\ (queue = <<>> => ptr = 0)

WordsInv ==
  pc = "reply" /\ ~NAND_FAST_READ =>
    /\ start < page /\ Len(queue) <= words
    /\ Len(out) = (page - 1 - start) * words + (words - Len(queue))
    /\ \A k \in 1 .. Len(queue) : queue[k] = NextWord
    /\ page - 1 \notin slow => buf = page - 1 /\ remaining = 0 /\ ptr = words - Len(queue)

IInv == DataOK /\ WordsExact /\ LoopInv /\ FastInv /\ PollInv /\ ProcessInv /\ WordsInv

-------------------------------------------------------------------------------
(* Quotients.                                                              *)

(* Division is monotonic.                                                  *)
LEMMA QuotientAtLeast ==
  ASSUME NEW a \in Nat, NEW b \in Nat, NEW k \in Nat \ {0}, k * b <= a
  PROVE  b <= a \div k
<1> DEFINE d == a \div k
<1>1. d \in Nat /\ a < k * d + k
  OBVIOUS
<1>2. ASSUME d + 1 <= b PROVE FALSE
  <2>1. PICK x \in Nat : b = d + 1 + x
    <3>1. b - (d + 1) \in Nat /\ b = d + 1 + (b - (d + 1))
      BY <1>1, <1>2
    <3>2. QED
      BY <3>1
  <2>2. k * b = k * d + k + k * x
    BY <1>1, <2>1
  <2>3. k * x \in Nat /\ k * d \in Nat /\ k * b \in Nat
    BY <1>1, <2>1
  <2>4. QED
    BY <1>1, <2>2, <2>3
<1>3. QED
  BY <1>1, <1>2

(* A quotient is the only number whose multiple is that near.              *)
LEMMA QuotientIs ==
  ASSUME NEW a \in Nat, NEW b \in Nat, NEW k \in Nat \ {0}, k * b <= a, a < k * b + k
  PROVE  a \div k = b
<1> DEFINE d == a \div k
<1>1. d \in Nat /\ k * d <= a
  OBVIOUS
<1>2. b <= d
  BY QuotientAtLeast
<1>3. k * (b + 1) = k * b + k /\ k * b \in Nat /\ k * (b + 1) \in Nat
  OBVIOUS
<1>4. ASSUME b + 1 <= d PROVE FALSE
  <2>1. PICK x \in Nat : d = b + 1 + x
    <3>1. d - (b + 1) \in Nat /\ d = b + 1 + (d - (b + 1))
      BY <1>1, <1>4
    <3>2. QED
      BY <3>1
  <2>2. k * d = k * b + k + k * x /\ k * x \in Nat
    BY <2>1
  <2>3. QED
    BY <1>1, <1>3, <2>2
<1>5. QED
  BY <1>1, <1>2, <1>4

(* A number is told apart by its quotient and its rest.                    *)
LEMMA QuotientAndRest ==
  ASSUME NEW q \in Nat, NEW k \in Nat \ {0}, NEW i \in 0 .. (k - 1)
  PROVE  (k * q + i) \div k = q /\ (k * q + i) % k = i
<1> DEFINE a == k * q + i
<1>1. k * q \in Nat /\ a \in Nat /\ k * q <= a /\ a < k * q + k
  OBVIOUS
<1>2. a \div k = q
  BY <1>1, QuotientIs
<1>3. a = k * (a \div k) + (a % k)
  BY <1>1
<1>4. a % k \in 0 .. (k - 1)
  BY <1>1
<1>5. QED
  BY <1>1, <1>2, <1>3, <1>4

(* The next multiple has the next quotient and the same rest.              *)
LEMMA QuotientOfNext ==
  ASSUME NEW a \in Nat, NEW k \in Nat \ {0}
  PROVE  (a + k) \div k = (a \div k) + 1 /\ (a + k) % k = a % k
<1>1. PICK q \in Nat, i \in 0 .. (k - 1) : a = k * q + i
  <2>1. a \div k \in Nat /\ a % k \in 0 .. (k - 1) /\ a = k * (a \div k) + (a % k)
    OBVIOUS
  <2>2. QED
    BY <2>1
<1>2. a + k = k * (q + 1) + i
  BY <1>1
<1>3. (k * q + i) \div k = q /\ (k * q + i) % k = i
  BY QuotientAndRest
<1>4. q + 1 \in Nat
  OBVIOUS
<1>5. (k * (q + 1) + i) \div k = q + 1 /\ (k * (q + 1) + i) % k = i
  BY <1>4, QuotientAndRest
<1>6. QED
  BY <1>1, <1>2, <1>3, <1>5

-------------------------------------------------------------------------------
(* The queue.                                                              *)

(* The commands of a page, one by one.                                     *)
LEMMA PageCommandsAre ==
  ASSUME words \in Nat \ {0}, NEW p \in Nat
  PROVE  /\ Len(PageCommands(p)) = Size
         /\ PageCommands(p)[1] = Address(p) /\ PageCommands(p)[2] = LoadPage
         /\ PageCommands(p)[3] = Wait /\ PageCommands(p)[4] = Rewind
         /\ \A i \in 5 .. Size : PageCommands(p)[i] = NextWord
<1> DEFINE head == <<Address(p), LoadPage, Wait, Rewind>>
           tail == [w \in 1 .. words |-> NextWord]
<1>1. head \in Seq(Commands) /\ Len(head) = 4
  BY DEF Commands
<1>2. tail \in Seq(Commands) /\ Len(tail) = words
  BY DEF Commands
<1>3. Len(head \o tail) = words + 4
  BY <1>1, <1>2
<1>4. \A i \in 1 .. words + 4 : (head \o tail)[i] = IF i <= 4 THEN head[i] ELSE NextWord
  BY <1>1, <1>2
<1>5. QED
  BY <1>3, <1>4 DEF PageCommands, Size

(* A command is one of a page's.                                           *)
LEMMA CommandTyped ==
  ASSUME words \in Nat \ {0}, NEW p \in Nat, NEW i \in 1 .. Size
  PROVE  PageCommands(p)[i] \in Commands
<1>1. i \in {1, 2, 3, 4} \/ i \in 5 .. Size
  BY DEF Size
<1>2. QED
  BY <1>1, PageCommandsAre DEF Commands

(* The request of a batch begins with the first command of its first page. *)
LEMMA BatchFrom ==
  ASSUME DataOK, page < end, NEW p \in Nat, p = page,
         queue' = Batch(page, Minimum(end - page, NAND_READ_BATCH_PAGES)),
         page' = page + NAND_READ_BATCH_PAGES, UNCHANGED <<start, end, words>>
  PROVE  queue' \in Seq(Commands) /\ QueueFrom(p, 0)'
<1> DEFINE n == Minimum(end - page, NAND_READ_BATCH_PAGES)
<1>1. /\ words \in Nat \ {0} /\ page \in Nat /\ end \in Nat /\ start \in Nat /\ start <= page
      /\ NAND_READ_BATCH_PAGES \in Nat \ {0} /\ Size \in Nat \ {0} /\ PerPage = Size
  BY NandReadAssumption, PageCommandsAre DEF DataOK, Size, PerPage
<1>2. n \in Nat \ {0} /\ NextPage' = page + n
  BY <1>1 DEF Minimum, NextPage
<1>3. n * Size \in Nat
  BY <1>1, <1>2
<1>4. \A k \in 1 .. n * Size : queue'[k] = PageCommands(page + ((k - 1) \div Size))[((k - 1) % Size) + 1]
  BY <1>1 DEF Batch
<1>5. ASSUME NEW k \in 1 .. n * Size
      PROVE  PageCommands(page + ((k - 1) \div Size))[((k - 1) % Size) + 1] \in Commands
  <2>1. (k - 1) \div Size \in Nat /\ ((k - 1) % Size) + 1 \in 1 .. Size
    BY <1>1, <1>3
  <2>2. QED
    BY <1>1, <2>1, CommandTyped
<1>6. queue' \in Seq(Commands) /\ Len(queue') = n * Size
  BY <1>1, <1>3, <1>4, <1>5 DEF Batch
<1>7. Size' = Size
  BY DEF Size
<1>8. \A k \in 1 .. Len(queue') :
        queue'[k] = PageCommands(p + ((0 + k - 1) \div Size))[((0 + k - 1) % Size) + 1]
  BY <1>3, <1>4, <1>6
<1>9. \A q : PageCommands(q)' = PageCommands(q)
  BY DEF PageCommands
<1>10. QED
  BY <1>1, <1>2, <1>3, <1>6, <1>7, <1>8, <1>9 DEF QueueFrom

(* The command the chip takes next, and what is left behind it.            *)
LEMMA QueueMoves ==
  ASSUME DataOK, NEW p \in Nat, NEW o \in Nat, QueueFrom(p, o),
         queue # <<>>, queue' = Tail(queue), UNCHANGED <<start, end, words, page>>
  PROVE  /\ p < NextPage /\ Head(queue) = PageCommands(p)[o + 1]
         /\ o + 1 < Size => QueueFrom(p, o + 1)'
         /\ o + 1 = Size => QueueFrom(p + 1, 0)'
<1>1. /\ words \in Nat \ {0} /\ Size \in Nat \ {0} /\ Size = words + 4 /\ NextPage \in Nat
      /\ Len(queue) \in Nat \ {0} /\ o < Size
  BY DEF DataOK, Size, NextPage, Minimum, QueueFrom
<1>2. /\ start <= p /\ p <= NextPage /\ (p = NextPage => o = 0)
      /\ Len(queue) = (NextPage - p) * Size - o
  BY DEF QueueFrom
<1>3. p < NextPage
  BY <1>1, <1>2
<1>4. \A k \in 1 .. Len(queue) :
        queue[k] = PageCommands(p + ((o + k - 1) \div Size))[((o + k - 1) % Size) + 1]
  BY DEF QueueFrom
<1>5. o \div Size = 0 /\ o % Size = o
  BY <1>1
<1>6. Head(queue) = PageCommands(p)[o + 1]
  <2>1. queue[1] = PageCommands(p + (o \div Size))[(o % Size) + 1]
    BY <1>1, <1>4
  <2>2. Head(queue) = queue[1]
    BY DEF DataOK
  <2>3. p + (o \div Size) = p
    BY <1>5
  <2>4. QED
    BY <1>5, <2>1, <2>2, <2>3
<1>7. Len(queue') = Len(queue) - 1 /\ \A k \in 1 .. Len(queue') : queue'[k] = queue[k + 1]
  BY <1>1 DEF DataOK
<1>8. NextPage' = NextPage /\ Size' = Size /\ start' = start
  BY DEF NextPage, Size
<1>9. \A q : PageCommands(q)' = PageCommands(q)
  BY DEF PageCommands
<1>10. \A k \in 1 .. Len(queue') :
         queue'[k] = PageCommands(p + ((o + k) \div Size))[((o + k) % Size) + 1]
  <2>1. ASSUME NEW k \in 1 .. Len(queue') PROVE k + 1 \in 1 .. Len(queue) /\ o + (k + 1) - 1 = o + k
    BY <1>1, <1>7
  <2>2. QED
    BY <1>4, <1>7, <2>1
<1>11. o + 1 < Size => QueueFrom(p, o + 1)'
  <2>1. \A k \in 1 .. Len(queue') : (o + 1) + k - 1 = o + k
    BY <1>1, <1>7
  <2>2. QED
    BY <1>1, <1>2, <1>3, <1>7, <1>8, <1>9, <1>10, <2>1 DEF QueueFrom
<1>12. ASSUME o + 1 = Size PROVE QueueFrom(p + 1, 0)'
  <2>1. (NextPage - p) * Size = (NextPage - (p + 1)) * Size + Size
    BY <1>1, <1>3
  <2>2. Len(queue') = (NextPage - (p + 1)) * Size - 0
    BY <1>1, <1>2, <1>3, <1>7, <1>12, <2>1
  <2>3. ASSUME NEW k \in 1 .. Len(queue')
        PROVE  /\ p + ((o + k) \div Size) = (p + 1) + ((0 + k - 1) \div Size)
               /\ (o + k) % Size = (0 + k - 1) % Size
    <3>1. k - 1 \in Nat /\ o + k = (k - 1) + Size /\ 0 + k - 1 = k - 1
      BY <1>1, <1>7, <1>12
    <3>2. /\ ((k - 1) + Size) \div Size = ((k - 1) \div Size) + 1
          /\ ((k - 1) + Size) % Size = (k - 1) % Size
      BY <1>1, <3>1, QuotientOfNext
    <3>3. (k - 1) \div Size \in Nat
      BY <1>1, <3>1
    <3>4. QED
      BY <3>1, <3>2, <3>3
  <2>4. \A k \in 1 .. Len(queue') :
          queue'[k] = PageCommands((p + 1) + ((0 + k - 1) \div Size))[((0 + k - 1) % Size) + 1]
    BY <1>10, <2>3
  <2>5. start <= p + 1 /\ p + 1 <= NextPage
    BY <1>1, <1>2, <1>3 DEF DataOK
  <2>6. Len(queue') = (NextPage' - (p + 1)) * Size' - 0
    BY <1>8, <2>2
  <2>7. \A k \in 1 .. Len(queue') :
          queue'[k] = (PageCommands((p + 1) + ((0 + k - 1) \div Size))[((0 + k - 1) % Size) + 1])'
    BY <1>8, <1>9, <2>4
  <2>8. start' <= p + 1 /\ p + 1 <= NextPage' /\ 0 < Size'
    BY <1>1, <1>8, <2>5
  <2>9. QED
    BY <2>6, <2>7, <2>8 DEF QueueFrom
<1>13. QED
  BY <1>3, <1>6, <1>11, <1>12

-------------------------------------------------------------------------------
(* The buffer.                                                             *)

(* What a sequence is with one more element.                               *)
LEMMA OneMore ==
  ASSUME NEW S, NEW s \in Seq(S), NEW v \in S
  PROVE  /\ Append(s, v) \in Seq(S) /\ Len(Append(s, v)) = Len(s) + 1 /\ Len(s) \in Nat
         /\ \A k \in 1 .. Len(s) : Append(s, v)[k] = s[k]
         /\ Append(s, v)[Len(s) + 1] = v
OBVIOUS

(* The next word of a page comes to its place.                             *)
LEMMA WordComes ==
  ASSUME DataOK, WordsExact, NEW p \in Nat, start <= p, NEW i \in 0 .. (words - 1),
         Len(out) = (p - start) * words + i,
         NEW v \in Nat \X Nat, p \notin slow => v = Word(p, i), NAND_FAST_READ => v[2] = i,
         out' = Append(out, v), UNCHANGED <<range, slow>>
  PROVE  WordsExact' /\ out' \in Seq(Nat \X Nat) /\ Len(out') = Len(out) + 1
<1>1. /\ words \in Nat \ {0} /\ start \in Nat /\ out \in Seq(Nat \X Nat)
      /\ words' = words /\ start' = start /\ NAND_FAST_READ' = NAND_FAST_READ /\ slow' = slow
  BY DEF DataOK, range
<1>2. /\ out' \in Seq(Nat \X Nat) /\ Len(out') = Len(out) + 1
      /\ \A k \in 1 .. Len(out) : out'[k] = out[k]
      /\ out'[Len(out) + 1] = v
  <2>1. /\ Append(out, v) \in Seq(Nat \X Nat) /\ Len(Append(out, v)) = Len(out) + 1
        /\ \A k \in 1 .. Len(out) : Append(out, v)[k] = out[k]
        /\ Append(out, v)[Len(out) + 1] = v
    <3>1. out \in Seq(Nat \X Nat)
      BY <1>1
    <3>2. QED
      BY ONLY <3>1, v \in Nat \X Nat, OneMore
  <2>2. out' = Append(out, v)
    OBVIOUS
  <2>3. QED
    BY ONLY <2>1, <2>2
<1>3. PageAt(Len(out) + 1) = p /\ Offset(Len(out) + 1) = i
  <2>1. p - start \in Nat /\ Len(out) + 1 - 1 = words * (p - start) + i
    BY <1>1
  <2>2. (words * (p - start) + i) \div words = p - start /\ (words * (p - start) + i) % words = i
    BY <1>1, <2>1, QuotientAndRest
  <2>3. QED
    BY <1>1, <2>1, <2>2 DEF PageAt, Offset
<1>4. \A k : PageAt(k)' = PageAt(k) /\ Offset(k)' = Offset(k)
  BY <1>1 DEF PageAt, Offset
<1>5. ASSUME NEW k \in DOMAIN out'
      PROVE  /\ PageAt(k) \notin slow => out'[k] = Word(PageAt(k), Offset(k))
             /\ NAND_FAST_READ => out'[k][2] = Offset(k)
  <2>1. k \in 1 .. Len(out) \/ k = Len(out) + 1
    BY <1>1, <1>2
  <2>2. CASE k \in 1 .. Len(out)
    <3>1. k \in DOMAIN out /\ out'[k] = out[k]
      BY <1>1, <1>2, <2>2
    <3>2. QED
      BY <3>1, Zenon DEF WordsExact
  <2>3. CASE k = Len(out) + 1
    BY <1>2, <1>3, <2>3
  <2>4. QED
    BY <2>1, <2>2, <2>3
<1>6. QED
  BY <1>1, <1>2, <1>4, <1>5 DEF WordsExact, Word

(* Words that are not touched stay right when more pages come late.        *)
LEMMA WordsStay ==
  ASSUME WordsExact, UNCHANGED <<out, range>>, slow \subseteq slow'
  PROVE  WordsExact'
BY DEF WordsExact, PageAt, Offset, range, Word

(* Ticks pass: a page that is due is in the buffer.                        *)
LEMMA TicksPass ==
  ASSUME DataOK, NEW d \in Nat, Elapse(d)
  PROVE  /\ remaining' \in Nat /\ loading' \in Nat /\ buf' \in Nat
         /\ remaining' = 0 => loading' = NoPage
         /\ remaining = 0 => remaining' = 0 /\ buf' = buf
         /\ remaining <= d /\ loading # NoPage => remaining' = 0 /\ buf' = loading
         /\ remaining > d => remaining' = remaining - d /\ loading' = loading /\ buf' = buf
BY NandReadAssumption DEF DataOK, Elapse, NoPage

-------------------------------------------------------------------------------
(* The chip.                                                               *)

(* A command is one of the five.                                           *)
LEMMA CommandOps ==
  /\ \A q : Address(q).op = "address" /\ Address(q).page = q
  /\ LoadPage.op = "load" /\ Wait.op = "delay" /\ Rewind.op = "rewind" /\ NextWord.op = "word"
BY DEF Address, LoadPage, Wait, Rewind, NextWord

(* Whatever the chip executes, the variables keep their types.             *)
LEMMA ExecuteTyped ==
  ASSUME DataOK, Execute
  PROVE  /\ DataOK' /\ slow \subseteq slow' /\ queue' = Tail(queue) /\ queue # <<>>
         /\ UNCHANGED <<pc, range, page, polls, ret>>
<1>1. /\ queue' = Tail(queue) /\ queue # <<>> /\ UNCHANGED <<pc, range, page, polls, ret>>
      /\ queue' \in Seq(Commands) /\ Head(queue) \in Commands
  BY DEF Execute, DataOK
<1>2. Delay \in Nat /\ LoadTimes \subseteq Nat \ {0} /\ PageWords \in Nat \ {0} /\ NoPage \in Nat
  BY NandReadAssumption DEF NoPage
<1>3. SUFFICES /\ out' \in Seq(Nat \X Nat) /\ address' \in Nat /\ loading' \in Nat
               /\ remaining' \in Nat /\ buf' \in Nat /\ ptr' \in 0 .. PageWords
               /\ remaining' = 0 => loading' = NoPage
               /\ slow \subseteq slow'
  BY <1>1 DEF DataOK, range
<1> DEFINE c == Head(queue)
<1>4. CASE c.op = "address"
  <2>1. address' = c.page /\ UNCHANGED <<ptr, out, slow>> /\ \E d \in {0, 1} : Elapse(d)
    BY <1>4, CommandOps DEF Execute
  <2>2. c.page \in Nat
    BY <1>1, <1>4, CommandOps DEF Commands
  <2>3. QED
    BY <2>1, <2>2, TicksPass DEF DataOK
<1>5. CASE c.op = "load"
  <2>1. ExecuteLoad
    BY <1>5 DEF Execute
  <2>2. QED
    BY <1>2, <2>1 DEF ExecuteLoad, DataOK
<1>6. CASE c.op = "delay"
  <2>1. Elapse(Delay) /\ UNCHANGED <<ptr, address, out, slow>>
    BY <1>6 DEF Execute
  <2>2. QED
    BY <1>2, <2>1, TicksPass DEF DataOK
<1>7. CASE c.op = "rewind"
  <2>1. address' = 0 /\ ptr' = 0 /\ UNCHANGED <<out, slow>> /\ \E d \in {0, 1} : Elapse(d)
    BY <1>7 DEF Execute
  <2>2. QED
    BY <1>2, <2>1, TicksPass DEF DataOK
<1>8. CASE c.op = "word"
  <2>1. ExecuteWord
    BY <1>8 DEF Execute
  <2>2. PICK p \in {buf} \cup (IF remaining > 0 THEN {loading} ELSE {}) : out' = Append(out, WordAt(p))
    BY <2>1 DEF ExecuteWord
  <2>3. WordAt(p) \in Nat \X Nat
    BY <1>2, <2>2 DEF WordAt, Word, Past, DataOK
  <2>4. out' \in Seq(Nat \X Nat)
    BY <2>2, <2>3 DEF DataOK
  <2>5. ptr' \in 0 .. PageWords /\ address' = address /\ slow' = slow /\ \E d \in {0, 1} : Elapse(d)
    BY <1>2, <2>1 DEF ExecuteWord, DataOK, Minimum
  <2>6. QED
    BY <2>4, <2>5, TicksPass DEF DataOK
<1>9. QED
  BY <1>1, <1>4, <1>5, <1>6, <1>7, <1>8, CommandOps DEF Commands

(* The chip works through a page of a batch: the place of the words does   *)
(* not depend on the NAND, and a page that comes within the delay is there *)
(* for all of them.                                                        *)
LEMMA ChipMoves ==
  ASSUME DataOK, WordsExact, NAND_FAST_READ, NEW p \in Nat, NEW o \in Nat, o < Size,
         start <= p, p < NoPage, At(p, o), Head(queue) = PageCommands(p)[o + 1], Execute
  PROVE  /\ WordsExact'
         /\ o + 1 < Size => At(p, o + 1)'
         /\ o + 1 = Size => At(p + 1, 0)'
<1>1. /\ DataOK' /\ slow \subseteq slow' /\ UNCHANGED <<range, start, words>> /\ words \in Nat \ {0}
      /\ start \in Nat /\ Size = words + 4 /\ Size' = Size /\ Len(out) \in Nat /\ Delay \in Nat
      /\ words <= PageWords
  <2>1. DataOK' /\ slow \subseteq slow' /\ UNCHANGED range
    BY ExecuteTyped
  <2>2. UNCHANGED <<start, words>> /\ Size' = Size /\ Size = words + 4
    BY <2>1 DEF range, Size
  <2>3. words \in 1 .. PageWords /\ start \in Nat /\ out \in Seq(Nat \X Nat)
    BY DEF DataOK
  <2>4. PageWords \in Nat /\ Delay \in Nat
    BY NandReadAssumption
  <2>5. QED
    BY <2>1, <2>2, <2>3, <2>4
<1>2. PageCommands(p)[1] = Address(p) /\ PageCommands(p)[2] = LoadPage
      /\ PageCommands(p)[3] = Wait /\ PageCommands(p)[4] = Rewind
      /\ \A i \in 5 .. Size : PageCommands(p)[i] = NextWord
  BY <1>1, PageCommandsAre
<1>3. CASE o = 0
  <2>1. address' = p /\ UNCHANGED <<out, slow>>
    BY <1>2, <1>3, CommandOps DEF Execute
  <2>2. At(p, 1)'
    BY <1>1, <1>3, <2>1 DEF At
  <2>3. QED
    BY <1>1, <1>3, <2>1, <2>2, WordsStay
<1>4. CASE o = 1
  <2>1. ExecuteLoad
    BY <1>2, <1>4, CommandOps DEF Execute
  <2>2. out' = out /\ address = p
    BY <1>4, <2>1 DEF ExecuteLoad, At
  <2>3. p \notin slow' => loading' = p /\ remaining' <= Delay
    BY <2>1, <2>2, NandReadAssumption DEF ExecuteLoad, Patience
  <2>4. At(p, 2)'
    BY <1>1, <1>4, <2>2, <2>3 DEF At
  <2>5. QED
    BY <1>1, <1>4, <2>2, <2>4, WordsStay
<1>5. CASE o = 2
  <2>1. Elapse(Delay) /\ UNCHANGED <<out, slow>>
    BY <1>2, <1>5, CommandOps DEF Execute
  <2>2. p \notin slow => buf' = p /\ remaining' = 0
    BY <1>1, <1>5, <2>1, TicksPass DEF At
  <2>3. At(p, 3)'
    BY <1>1, <1>5, <2>1, <2>2 DEF At
  <2>4. QED
    BY <1>1, <1>5, <2>1, <2>3, WordsStay
<1>6. CASE o = 3
  <2>1. ptr' = 0 /\ UNCHANGED <<out, slow>> /\ \E d \in {0, 1} : Elapse(d)
    BY <1>2, <1>6, CommandOps DEF Execute
  <2>2. p \notin slow => buf' = p /\ remaining' = 0
    BY <1>1, <1>6, <2>1, TicksPass DEF At
  <2>3. At(p, 4)'
    BY <1>1, <1>6, <2>1, <2>2 DEF At
  <2>4. QED
    BY <1>1, <1>6, <2>1, <2>3, WordsStay
<1>7. CASE o >= 4
  <2>1. o + 1 \in 5 .. Size /\ ExecuteWord /\ ptr = o - 4 /\ o - 4 \in 0 .. (words - 1)
        /\ Len(out) = (p - start) * words + (o - 4)
    BY <1>1, <1>2, <1>7, CommandOps DEF Execute, At
  <2>2. PICK q \in {buf} \cup (IF remaining > 0 THEN {loading} ELSE {}) : out' = Append(out, WordAt(q))
    BY <2>1 DEF ExecuteWord
  <2>3. WordAt(q) = Word(q, o - 4) /\ q \in Nat /\ WordAt(q) \in Nat \X Nat /\ ptr' = (o - 4) + 1
    <3>1. q \in Nat /\ ptr \in Nat /\ ptr < PageWords /\ PageWords \in Nat
      <4>1. buf \in Nat /\ loading \in Nat /\ words \in 1 .. PageWords /\ PageWords \in Nat
        BY NandReadAssumption DEF DataOK
      <4>2. q = buf \/ q = loading
        BY <2>2
      <4>3. QED
        BY <2>1, <4>1, <4>2
    <3>2. WordAt(q) = Word(q, ptr)
      BY <3>1 DEF WordAt
    <3>3. ptr' = ptr + 1
      BY <2>1, <3>1 DEF ExecuteWord, Minimum
    <3>4. QED
      BY <2>1, <3>1, <3>2, <3>3 DEF Word
  <2>4. p \notin slow => q = p
    BY <1>7, <2>2 DEF At
  <2>5. WordAt(q)[2] = o - 4 /\ slow' = slow
    BY <2>1, <2>3 DEF Word, ExecuteWord
  <2>6. WordsExact' /\ Len(out') = Len(out) + 1
    BY <1>1, <2>1, <2>2, <2>3, <2>4, <2>5, WordComes
  <2>7. p \notin slow => buf' = p /\ remaining' = 0
    BY <1>7, <2>1, TicksPass DEF At, ExecuteWord
  <2>8. o + 1 < Size => At(p, o + 1)'
    BY <1>1, <1>7, <2>1, <2>3, <2>5, <2>6, <2>7 DEF At
  <2>9. ASSUME o + 1 = Size PROVE At(p + 1, 0)'
    <3>1. (p + 1 - start) * words = (p - start) * words + words
      BY <1>1
    <3>2. Len(out') = (p + 1 - start) * words
      BY <1>1, <2>1, <2>6, <2>9, <3>1
    <3>3. QED
      BY <1>1, <3>2 DEF At
  <2>10. QED
    BY <2>6, <2>8, <2>9
<1>8. QED
  BY <1>3, <1>4, <1>5, <1>6, <1>7

-------------------------------------------------------------------------------
(* The steps.                                                              *)

(* The invariant holds before the first call.                              *)
LEMMA InitInvariant == Init => IInv
<1> SUFFICES ASSUME Init PROVE IInv
  OBVIOUS
<1>1. NoPage \in Nat /\ PageWords \in Nat \ {0} /\ PollLimit \in Nat
  BY NandReadAssumption DEF NoPage
<1>2. DataOK
  BY <1>1, NandReadAssumption DEF Init, DataOK
<1>3. WordsExact
  BY DEF Init, WordsExact
<1>4. LoopInv /\ FastInv /\ PollInv /\ ProcessInv /\ WordsInv
  BY DEF Init, LoopInv, FastInv, PollInv, ProcessInv, WordsInv
<1>5. QED
  BY <1>2, <1>3, <1>4 DEF IInv

(* Every step of the chip keeps it, in the batched build ...               *)
LEMMA ExecuteFast ==
  ASSUME IInv, Execute, NAND_FAST_READ
  PROVE  IInv'
<1>1. DataOK /\ WordsExact /\ LoopInv /\ FastInv
  BY DEF IInv
<1>2. /\ DataOK' /\ slow \subseteq slow' /\ queue' = Tail(queue) /\ queue # <<>>
      /\ UNCHANGED <<pc, range, page, polls, ret>>
  BY <1>1, ExecuteTyped
<1>3. UNCHANGED <<pc, NAND_FAST_READ, start, end, words, page>>
  BY <1>2 DEF range
<1>4. pc = "reply"
  BY <1>1, <1>2 DEF LoopInv
<1>5. PICK p \in Nat, o \in Nat : QueueFrom(p, o) /\ At(p, o)
  BY <1>1, <1>4 DEF FastInv
<1>6. /\ p < NextPage /\ Head(queue) = PageCommands(p)[o + 1]
      /\ o + 1 < Size => QueueFrom(p, o + 1)'
      /\ o + 1 = Size => QueueFrom(p + 1, 0)'
  BY <1>1, <1>2, <1>3, <1>5, QueueMoves
<1>7. o < Size /\ start <= p
  BY <1>5 DEF QueueFrom
<1>8. p < NoPage
  BY <1>1, <1>6, NandReadAssumption DEF NextPage, Minimum, NoPage, DataOK
<1>9. /\ WordsExact'
      /\ o + 1 < Size => At(p, o + 1)'
      /\ o + 1 = Size => At(p + 1, 0)'
  BY <1>1, <1>5, <1>6, <1>7, <1>8, ChipMoves
<1>10. \E q, i \in Nat : QueueFrom(q, i)' /\ At(q, i)'
  <2>1. o + 1 < Size \/ o + 1 = Size
    BY <1>1, <1>7 DEF Size, DataOK
  <2>2. CASE o + 1 < Size
    <3>1. QueueFrom(p, o + 1)' /\ At(p, o + 1)' /\ o + 1 \in Nat
      BY <1>6, <1>9, <2>2
    <3>2. QED
      BY <3>1
  <2>3. CASE o + 1 = Size
    <3>1. QueueFrom(p + 1, 0)' /\ At(p + 1, 0)' /\ p + 1 \in Nat
      BY <1>6, <1>9, <2>3
    <3>2. QED
      BY <3>1
  <2>4. QED
    BY <2>1, <2>2, <2>3
<1>11. FastInv'
  BY <1>10 DEF FastInv
<1>12. LoopInv'
  BY <1>3, <1>4, <1>1 DEF LoopInv
<1>13. PollInv' /\ ProcessInv' /\ WordsInv'
  BY <1>3, <1>4, <1>1 DEF PollInv, ProcessInv, WordsInv, LoopInv
<1>14. QED
  BY <1>2, <1>9, <1>11, <1>12, <1>13 DEF IInv

(* ... and in the other, where it is sent the load, the pointer and the    *)
(* words apart.                                                            *)
LEMMA ExecutePaged ==
  ASSUME IInv, Execute, ~NAND_FAST_READ
  PROVE  IInv'
<1>1. DataOK /\ WordsExact /\ LoopInv /\ PollInv /\ ProcessInv /\ WordsInv
  BY DEF IInv
<1>2. /\ DataOK' /\ slow \subseteq slow' /\ queue' = Tail(queue) /\ queue # <<>>
      /\ UNCHANGED <<pc, range, page, polls, ret>>
  BY <1>1, ExecuteTyped
<1>3. UNCHANGED <<pc, NAND_FAST_READ, start, end, words, page, polls, ret>>
  BY <1>2 DEF range
<1>4. /\ start \in Nat /\ words \in Nat \ {0} /\ words <= PageWords /\ PageWords \in Nat
      /\ page \in Nat /\ end \in Nat /\ NoPage \in Nat /\ PollLimit \in Nat
      /\ end <= NoPage /\ Len(out) \in Nat /\ Len(queue) \in Nat
  BY <1>1, NandReadAssumption DEF DataOK, NoPage
<1>5. pc \in {"poll", "process", "reply"}
  BY <1>1, <1>2 DEF DataOK, LoopInv
<1>6. FastInv' /\ LoopInv'
  BY <1>1, <1>3, <1>5 DEF FastInv, LoopInv
<1>7. CASE pc = "poll"
  <2>1. WordsInv' /\ ProcessInv'
    BY <1>3, <1>7 DEF WordsInv, ProcessInv
  <2>2. CASE queue = <<Address(page), LoadPage>> /\ polls = 0
    <3>1. address' = page /\ out' = out /\ queue' = <<LoadPage>>
      BY <1>2, <2>2, CommandOps DEF Execute
    <3>2. PollInv'
      BY <1>1, <1>3, <1>7, <2>2, <3>1 DEF PollInv
    <3>3. QED
      BY <1>2, <1>1, <1>6, <2>1, <3>1, <3>2, WordsStay DEF IInv
  <2>3. CASE queue = <<LoadPage>> /\ polls = 0 /\ address = page
    <3>1. ExecuteLoad /\ queue' = <<>>
      BY <1>2, <2>3, CommandOps DEF Execute
    <3>2. out' = out /\ (page \notin slow' => loading' = page /\ remaining' <= PollLimit + 1)
      BY <2>3, <3>1, NandReadAssumption DEF ExecuteLoad, Patience
    <3>3. PollInv'
      BY <1>1, <1>3, <1>4, <1>7, <2>3, <3>1, <3>2 DEF PollInv
    <3>4. QED
      BY <1>2, <1>1, <1>6, <2>1, <3>2, <3>3, WordsStay DEF IInv
  <2>4. QED
    BY <1>1, <1>2, <1>7, <2>2, <2>3 DEF PollInv
<1>8. CASE pc = "process"
  <2>1. WordsInv' /\ PollInv'
    BY <1>3, <1>8 DEF WordsInv, PollInv
  <2>2. queue = <<Rewind>> /\ queue' = <<>>
    <3>1. queue = <<Rewind>>
      BY <1>1, <1>2, <1>8 DEF ProcessInv
    <3>2. QED
      BY <1>2, <3>1
  <2>3. ptr' = 0 /\ UNCHANGED <<out, slow>> /\ \E d \in {0, 1} : Elapse(d)
    BY <2>2, CommandOps DEF Execute
  <2>4. page \notin slow => buf' = page /\ remaining' = 0
    BY <1>1, <1>8, <2>3, TicksPass DEF ProcessInv
  <2>5. ProcessInv'
    BY <1>1, <1>3, <1>8, <2>2, <2>3, <2>4 DEF ProcessInv
  <2>6. QED
    BY <1>2, <1>1, <1>6, <2>1, <2>3, <2>5, WordsStay DEF IInv
<1>9. CASE pc = "reply"
  <2>1. ProcessInv' /\ PollInv'
    BY <1>3, <1>9 DEF ProcessInv, PollInv
  <2> DEFINE i == words - Len(queue)
             p == page - 1
  <2>2. /\ p \in Nat /\ start <= p /\ p < NoPage /\ i \in 0 .. (words - 1)
        /\ Len(out) = (p - start) * words + i /\ Head(queue) = NextWord
        /\ p \notin slow => buf = p /\ remaining = 0 /\ ptr = i
    <3>1. Len(queue) \in 1 .. words /\ Head(queue) = queue[1] /\ 1 \in 1 .. Len(queue)
      BY <1>1, <1>2, <1>4, <1>9 DEF WordsInv, DataOK
    <3>2. /\ start < page /\ page <= end /\ Len(out) = (page - 1 - start) * words + i
          /\ \A k \in 1 .. Len(queue) : queue[k] = NextWord
          /\ p \notin slow => buf = p /\ remaining = 0 /\ ptr = i
      BY <1>1, <1>9 DEF WordsInv, LoopInv
    <3>3. page - 1 - start = p - start
      BY <1>4
    <3>4. QED
      BY <1>4, <3>1, <3>2, <3>3
  <2>3. ExecuteWord
    BY <2>2, CommandOps DEF Execute
  <2>4. PICK q \in {buf} \cup (IF remaining > 0 THEN {loading} ELSE {}) : out' = Append(out, WordAt(q))
    BY <2>3 DEF ExecuteWord
  <2>5. WordAt(q) \in Nat \X Nat /\ (p \notin slow => WordAt(q) = Word(p, i)) /\ slow' = slow
    <3>1. q \in Nat /\ ptr \in Nat /\ NoPage \in Nat
      BY <1>1, <1>4, <2>4 DEF DataOK
    <3>2. WordAt(q) \in Nat \X Nat
      BY <1>4, <3>1 DEF WordAt, Word, Past
    <3>3. p \notin slow => q = p
      BY <2>2, <2>4
    <3>4. QED
      BY <1>4, <2>2, <2>3, <3>2, <3>3 DEF WordAt, ExecuteWord
  <2>6. WordsExact' /\ Len(out') = Len(out) + 1
    BY <1>1, <1>2, <2>2, <2>4, <2>5, WordComes
  <2>7. p \notin slow => buf' = p /\ remaining' = 0 /\ ptr' = i + 1
    <3>1. ptr' = Minimum(ptr + 1, PageWords) /\ \E d \in {0, 1} : Elapse(d)
      BY <2>3 DEF ExecuteWord
    <3>2. remaining = 0 => remaining' = 0 /\ buf' = buf
      BY <1>1, <3>1, TicksPass
    <3>3. i < PageWords => Minimum(i + 1, PageWords) = i + 1
      BY <1>4 DEF Minimum
    <3>4. i < PageWords
      BY <1>1, <1>4, <2>2 DEF DataOK
    <3>5. QED
      BY <2>2, <3>1, <3>2, <3>3, <3>4
  <2>8. Len(queue') = Len(queue) - 1 /\ \A k \in 1 .. Len(queue') : queue'[k] = queue[k + 1]
    <3>1. queue \in Seq(Commands) /\ Len(queue) \in Nat \ {0}
      BY <1>1, <1>2 DEF DataOK
    <3>2. QED
      BY <1>2, <3>1
  <2>9. WordsInv'
    <3>1. start < page /\ Len(queue) <= words /\ \A k \in 1 .. Len(queue) : queue[k] = NextWord
      BY <1>1, <1>9 DEF WordsInv
    <3>2. \A k \in 1 .. Len(queue') : queue'[k] = NextWord
      BY <1>4, <2>8, <3>1
    <3>3. (page - 1 - start) * words = (p - start) * words
      BY <1>4
    <3>4. Len(out') = (page - 1 - start) * words + (words - Len(queue'))
      BY <1>4, <2>2, <2>6, <2>8, <3>3
    <3>5. QED
      BY <1>3, <1>4, <2>5, <2>7, <2>8, <3>1, <3>2, <3>4 DEF WordsInv
  <2>10. QED
    BY <1>2, <1>6, <2>1, <2>6, <2>9 DEF IInv
<1>10. QED
  BY <1>5, <1>7, <1>8, <1>9

(* The ticks of a poll bring the page in time or count as one.             *)
LEMMA PollKeeps ==
  ASSUME IInv, Poll
  PROVE  IInv'
<1>1. DataOK /\ WordsExact /\ LoopInv /\ PollInv
  BY DEF IInv
<1>2. /\ pc = "poll" /\ queue = <<>> /\ Elapse(1)
      /\ UNCHANGED <<range, page, out, ret, address, ptr, slow>>
  BY DEF Poll
<1>3. UNCHANGED <<NAND_FAST_READ, start, end, words>>
  BY <1>2 DEF range
<1>4. ~NAND_FAST_READ /\ page <= end /\ page < end /\ Len(out) = (page - start) * words
  BY <1>1, <1>2 DEF LoopInv, PollInv
<1>5. PollLimit \in Nat /\ NoPage \in Nat /\ page # NoPage /\ polls \in 0 .. PollLimit
  BY <1>1, <1>4, NandReadAssumption DEF NoPage, DataOK
<1>6. page \notin slow => loading = page /\ remaining <= PollLimit + 1 - polls
  BY <1>1, <1>2 DEF PollInv
<1>7. /\ remaining' \in Nat /\ loading' \in Nat /\ buf' \in Nat
      /\ remaining' = 0 => loading' = NoPage
      /\ remaining <= 1 /\ loading # NoPage => remaining' = 0 /\ buf' = loading
      /\ remaining > 1 => remaining' = remaining - 1 /\ loading' = loading
      /\ remaining \in Nat
  BY <1>1, <1>2, TicksPass DEF DataOK
<1>8. /\ pc' \in {"poll", "process"} /\ polls' \in 0 .. PollLimit
      /\ queue' \in {<<>>, <<Rewind>>}
  BY <1>2, <1>5 DEF Poll
<1>9. queue' \in Seq(Commands)
  <2>1. <<>> \in Seq(Commands)
    OBVIOUS
  <2>2. Rewind \in Commands
    BY DEF Commands
  <2>3. <<Rewind>> \in Seq(Commands)
    BY <2>2
  <2>4. QED
    BY <1>8, <2>1, <2>3
<1>10. DataOK'
  BY <1>1, <1>2, <1>3, <1>7, <1>8, <1>9 DEF DataOK
<1>11. WordsExact'
  BY <1>1, <1>2, WordsStay
<1>12. LoopInv' /\ FastInv' /\ WordsInv'
  BY <1>2, <1>3, <1>4, <1>8 DEF LoopInv, FastInv, WordsInv
<1>13. ASSUME pc' = "poll" PROVE PollInv'
  <2>1. queue' = <<>> /\ remaining' # 0 /\ polls' = polls + 1 /\ polls < PollLimit
    BY <1>2, <1>13 DEF Poll
  <2>2. page \notin slow => loading' = page /\ remaining' <= PollLimit + 1 - polls'
    BY <1>5, <1>6, <1>7, <2>1
  <2>3. QED
    BY <1>2, <1>3, <1>4, <2>1, <2>2 DEF PollInv
<1>14. ASSUME pc' = "process" PROVE ProcessInv'
  <2>1. CASE remaining' = 0
    <3>1. queue' = <<Rewind>>
      BY <2>1 DEF Poll
    <3>2. page \notin slow => buf' = page
      BY <1>5, <1>6, <1>7, <2>1
    <3>3. <<Rewind>> # <<>>
      OBVIOUS
    <3>4. QED
      BY <1>2, <1>3, <1>4, <2>1, <3>1, <3>2, <3>3 DEF ProcessInv
  <2>2. CASE remaining' # 0
    <3>1. polls = PollLimit
      BY <1>2, <1>5, <1>14, <2>2 DEF Poll
    <3>2. page \in slow
      BY <1>5, <1>6, <1>7, <2>2, <3>1
    <3>3. QED
      BY <1>2, <1>3, <1>4, <1>8, <3>2 DEF ProcessInv
  <2>3. QED
    BY <2>1, <2>2
<1>15. PollInv' /\ ProcessInv'
  BY <1>8, <1>13, <1>14 DEF PollInv, ProcessInv
<1>16. QED
  BY <1>10, <1>11, <1>12, <1>15 DEF IInv

(* The read command of a page, and the words of one that was waited for.   *)
LEMMA PagedKeeps ==
  ASSUME IInv, ReadStart \/ ReadProcess
  PROVE  IInv'
<1>1. DataOK /\ WordsExact /\ LoopInv /\ ProcessInv
  BY DEF IInv
<1>2. UNCHANGED <<range, out, ret, controller, slow>>
  BY DEF ReadStart, ReadProcess
<1>3. UNCHANGED <<NAND_FAST_READ, start, end, words, address, loading, remaining, buf, ptr>>
  BY <1>2 DEF range, controller
<1>4. WordsExact'
  BY <1>1, <1>2, WordsStay
<1>5. /\ start \in Nat /\ words \in Nat \ {0} /\ page \in Nat /\ end \in Nat /\ PollLimit \in Nat
      /\ Len(out) \in Nat
  BY <1>1, NandReadAssumption DEF DataOK
<1>6. CASE ReadStart
  <2>1. /\ pc = "loop" /\ page < end /\ ~NAND_FAST_READ /\ pc' = "poll" /\ page' = page
        /\ queue' = <<Address(page), LoadPage>> /\ polls' = 0
    BY <1>6 DEF ReadStart
  <2>2. queue' \in Seq(Commands)
    BY <1>5, <2>1 DEF Commands
  <2>3. DataOK'
    BY <1>1, <1>2, <1>3, <1>5, <2>1, <2>2 DEF DataOK
  <2>4. Len(out) = (page - start) * words
    BY <1>1, <1>5, <2>1 DEF LoopInv, NextPage, Minimum
  <2>5. PollInv'
    BY <1>2, <1>3, <2>1, <2>4 DEF PollInv
  <2>6. LoopInv' /\ FastInv' /\ ProcessInv' /\ WordsInv'
    BY <1>1, <1>3, <2>1 DEF LoopInv, FastInv, ProcessInv, WordsInv
  <2>7. QED
    BY <1>4, <2>3, <2>5, <2>6 DEF IInv
<1>7. CASE ReadProcess
  <2>1. /\ pc = "process" /\ queue = <<>> /\ pc' = "reply" /\ page' = page + 1 /\ polls' = polls
        /\ queue' = [w \in 1 .. words |-> NextWord]
    BY <1>7 DEF ReadProcess
  <2>2. queue' \in Seq(Commands) /\ Len(queue') = words /\ \A k \in 1 .. words : queue'[k] = NextWord
    BY <1>5, <2>1 DEF Commands
  <2>3. DataOK'
    BY <1>1, <1>2, <1>3, <1>5, <2>1, <2>2 DEF DataOK
  <2>4. /\ ~NAND_FAST_READ /\ page < end /\ Len(out) = (page - start) * words
        /\ page \notin slow => buf = page /\ remaining = 0 /\ ptr = 0
    BY <1>1, <2>1 DEF LoopInv, ProcessInv
  <2>5. page' - 1 = page /\ start < page' /\ page' <= end /\ words - Len(queue') = 0
    BY <1>1, <1>5, <2>1, <2>2, <2>4 DEF DataOK
  <2>6. Len(out) = (page' - 1 - start) * words + (words - Len(queue'))
    BY <1>5, <2>4, <2>5
  <2>7. WordsInv'
    BY <1>2, <1>3, <1>5, <2>2, <2>4, <2>5, <2>6 DEF WordsInv
  <2>8. LoopInv' /\ FastInv' /\ ProcessInv' /\ PollInv'
    BY <1>3, <2>1, <2>4, <2>5 DEF LoopInv, FastInv, ProcessInv, PollInv
  <2>9. QED
    BY <1>4, <2>3, <2>7, <2>8 DEF IInv
<1>8. QED
  BY <1>6, <1>7

(* A batch, and its end.                                                   *)
LEMMA BatchKeeps ==
  ASSUME IInv, ReadBatch \/ ReplyComplete
  PROVE  IInv'
<1>1. DataOK /\ WordsExact /\ LoopInv /\ FastInv /\ WordsInv
  BY DEF IInv
<1>2. UNCHANGED <<range, polls, out, ret, controller, slow>>
  BY DEF ReadBatch, ReplyComplete
<1>3. UNCHANGED <<NAND_FAST_READ, start, end, words, address, loading, remaining, buf, ptr>>
  BY <1>2 DEF range, controller
<1>4. WordsExact'
  BY <1>1, <1>2, WordsStay
<1>5. /\ start \in Nat /\ words \in Nat \ {0} /\ page \in Nat /\ end \in Nat
      /\ NAND_READ_BATCH_PAGES \in Nat \ {0} /\ Len(out) \in Nat /\ Size = words + 4
      /\ NextPage \in Nat /\ start <= page
  BY <1>1, NandReadAssumption DEF DataOK, Size, NextPage, Minimum
<1>6. CASE ReadBatch
  <2>1. /\ pc = "loop" /\ page < end /\ NAND_FAST_READ /\ pc' = "reply"
        /\ page' = page + NAND_READ_BATCH_PAGES
        /\ queue' = Batch(page, Minimum(end - page, NAND_READ_BATCH_PAGES))
    BY <1>6 DEF ReadBatch
  <2>2. PICK p \in Nat : p = page
    BY <1>5
  <2>3. queue' \in Seq(Commands) /\ QueueFrom(p, 0)'
    BY <1>1, <1>3, <2>1, <2>2, BatchFrom
  <2>4. DataOK'
    BY <1>1, <1>2, <1>3, <1>5, <2>1, <2>3 DEF DataOK
  <2>5. Len(out) = (p - start) * words
    BY <1>1, <1>5, <2>1, <2>2 DEF LoopInv, NextPage, Minimum
  <2>6. At(p, 0)'
    BY <1>2, <1>3, <1>5, <2>2, <2>5 DEF At
  <2>7. \E q, i \in Nat : QueueFrom(q, i)' /\ At(q, i)'
    BY <2>3, <2>6
  <2>8. FastInv'
    BY <2>7 DEF FastInv
  <2>9. LoopInv' /\ PollInv' /\ ProcessInv' /\ WordsInv'
    BY <1>3, <2>1 DEF LoopInv, PollInv, ProcessInv, WordsInv
  <2>10. QED
    BY <1>4, <2>4, <2>8, <2>9 DEF IInv
<1>7. CASE ReplyComplete
  <2>1. pc = "reply" /\ queue = <<>> /\ pc' = "loop" /\ page' = page /\ queue' = queue
    BY <1>7 DEF ReplyComplete
  <2>2. DataOK'
    BY <1>1, <1>2, <1>3, <2>1 DEF DataOK
  <2>3. Len(out) = (NextPage - start) * words
    <3>1. CASE NAND_FAST_READ
      <4>1. PICK p \in Nat, o \in Nat : QueueFrom(p, o) /\ At(p, o)
        BY <1>1, <2>1, <3>1 DEF FastInv
      <4>2. 0 = (NextPage - p) * Size - o /\ o < Size /\ p <= NextPage /\ (p = NextPage => o = 0)
        BY <2>1, <4>1 DEF QueueFrom
      <4>3. ASSUME p < NextPage PROVE FALSE
        <5>1. (NextPage - p) * Size = (NextPage - p - 1) * Size + Size /\ (NextPage - p - 1) * Size \in Nat
          BY <1>5, <4>3
        <5>2. QED
          BY <1>5, <4>2, <5>1
      <4>4. p = NextPage /\ o = 0
        BY <1>5, <4>2, <4>3
      <4>5. QED
        BY <1>5, <4>1, <4>4 DEF At
    <3>2. CASE ~NAND_FAST_READ
      <4>1. start < page /\ page <= end /\ Len(out) = (page - 1 - start) * words + words
        BY <1>1, <1>5, <2>1, <3>2 DEF WordsInv, LoopInv
      <4>2. (page - start) * words = (page - 1 - start) * words + words
        BY <1>5, <4>1
      <4>3. NextPage = page
        BY <1>5, <4>1 DEF NextPage, Minimum
      <4>4. QED
        BY <4>1, <4>2, <4>3
    <3>3. QED
      BY <3>1, <3>2
  <2>4. NextPage' = NextPage
    BY <1>3, <2>1 DEF NextPage
  <2>5. LoopInv'
    BY <1>1, <1>2, <1>3, <2>1, <2>3, <2>4 DEF LoopInv
  <2>6. FastInv' /\ PollInv' /\ ProcessInv' /\ WordsInv'
    BY <2>1 DEF FastInv, PollInv, ProcessInv, WordsInv
  <2>7. QED
    BY <1>4, <2>2, <2>5, <2>6 DEF IInv
<1>8. QED
  BY <1>6, <1>7

(* A call begins with nothing in the buffer of the program ...             *)
LEMMA BeginKeeps ==
  ASSUME IInv, NEW s \in 0 .. NumPages, NEW n \in 0 .. NumPages, NEW w \in WordCounts, Begin(s, n, w)
  PROVE  IInv'
<1>1. DataOK /\ LoopInv
  BY DEF IInv
<1>2. /\ pc' = "loop" /\ queue' = <<>> /\ out' = <<>> /\ slow' = {} /\ page' = s /\ start' = s
      /\ end' = s + n /\ words' = w /\ polls' = 0 /\ loading' = NoPage /\ remaining' = 0
      /\ UNCHANGED <<NAND_FAST_READ, address, buf, ptr>> /\ s + n <= NumPages
  BY DEF Begin
<1>3. /\ NumPages \in Nat /\ NoPage \in Nat /\ PollLimit \in Nat /\ w \in 1 .. PageWords
      /\ s \in Nat /\ n \in Nat
  BY NandReadAssumption DEF NoPage
<1>4. DataOK'
  BY <1>1, <1>2, <1>3 DEF DataOK
<1>5. NextPage' = s
  BY <1>2, <1>3 DEF NextPage, Minimum
<1>6. Len(out') = (NextPage' - start') * words'
  BY <1>2, <1>3, <1>5
<1>7. WordsExact'
  BY <1>2 DEF WordsExact
<1>8. LoopInv'
  BY <1>2, <1>3, <1>6 DEF LoopInv
<1>9. FastInv' /\ PollInv' /\ ProcessInv' /\ WordsInv'
  BY <1>2 DEF FastInv, PollInv, ProcessInv, WordsInv
<1>10. QED
  BY <1>4, <1>7, <1>8, <1>9 DEF IInv

(* ... and ends with its range, or with the exception.                     *)
LEMMA EndKeeps ==
  ASSUME IInv, LoopEnds \/ Lost
  PROVE  IInv'
<1>1. DataOK /\ WordsExact /\ LoopInv
  BY DEF IInv
<1>2. pc' = "idle" /\ queue' \in {queue, <<>>} /\ UNCHANGED <<range, page, polls, out, controller, slow>>
  BY DEF LoopEnds, Lost, Return
<1>3. UNCHANGED <<NAND_FAST_READ, start, end, words, address, loading, remaining, buf, ptr>>
  BY <1>2 DEF range, controller
<1>4. queue' \in Seq(Commands)
  <2>1. <<>> \in Seq(Commands) /\ queue \in Seq(Commands)
    BY <1>1 DEF DataOK
  <2>2. QED
    BY <1>2, <2>1
<1>5. DataOK'
  BY <1>1, <1>2, <1>3, <1>4 DEF DataOK
<1>6. WordsExact'
  BY <1>1, <1>2, WordsStay
<1>7. queue' = <<>> /\ (ret' = 0 => Len(out') = (end' - start') * words')
  <2>1. CASE LoopEnds
    <3>1. pc = "loop" /\ page >= end /\ queue' = queue
      BY <2>1 DEF LoopEnds
    <3>2. NextPage = end
      BY <1>1, <3>1 DEF NextPage, Minimum, DataOK
    <3>3. QED
      BY <1>1, <1>2, <1>3, <3>1, <3>2 DEF LoopInv
  <2>2. CASE Lost
    BY <2>2 DEF Lost, Return
  <2>3. QED
    BY <2>1, <2>2
<1>8. LoopInv'
  BY <1>1, <1>2, <1>3, <1>7 DEF LoopInv
<1>9. FastInv' /\ PollInv' /\ ProcessInv' /\ WordsInv'
  BY <1>2 DEF FastInv, PollInv, ProcessInv, WordsInv
<1>10. QED
  BY <1>5, <1>6, <1>8, <1>9 DEF IInv

(* Every step keeps the invariant.                                         *)
LEMMA StepInvariant == IInv /\ [Next]_vars => IInv'
<1> SUFFICES ASSUME IInv, [Next]_vars PROVE IInv'
  OBVIOUS
<1>1. CASE Starting
  BY <1>1, BeginKeeps DEF Starting
<1>2. CASE ReadBatch \/ ReplyComplete
  BY <1>2, BatchKeeps
<1>3. CASE ReadStart \/ ReadProcess
  BY <1>3, PagedKeeps
<1>4. CASE Poll
  BY <1>4, PollKeeps
<1>5. CASE LoopEnds \/ Lost
  BY <1>5, EndKeeps
<1>6. CASE Execute
  BY <1>6, ExecuteFast, ExecutePaged
<1>7. CASE UNCHANGED vars
  <2>1. /\ UNCHANGED <<pc, range, NAND_FAST_READ, start, end, words, page, polls, out, ret, queue>>
        /\ UNCHANGED <<address, loading, remaining, buf, ptr, slow>>
    BY <1>7 DEF vars, range, controller
  <2>2. DataOK'
    BY <2>1 DEF IInv, DataOK
  <2>3. WordsExact'
    BY <2>1, WordsStay DEF IInv
  <2>4. LoopInv' /\ PollInv' /\ ProcessInv' /\ WordsInv'
    BY <2>1 DEF IInv, LoopInv, NextPage, PollInv, ProcessInv, WordsInv
  <2>5. FastInv'
    <3>1. NextPage' = NextPage /\ Size' = Size /\ \A q : PageCommands(q)' = PageCommands(q)
      BY <2>1 DEF NextPage, Size, PageCommands
    <3>2. \A p, o : (QueueFrom(p, o) => QueueFrom(p, o)') /\ (At(p, o) => At(p, o)')
      BY <2>1, <3>1 DEF QueueFrom, At
    <3>3. QED
      BY <2>1, <3>2 DEF IInv, FastInv
  <2>6. QED
    BY <2>2, <2>3, <2>4, <2>5 DEF IInv
<1>8. QED
  BY <1>1, <1>2, <1>3, <1>4, <1>5, <1>6, <1>7 DEF Next, Driver

(* A read returns every page the NAND had ready in time, whole and in its  *)
(* place, in both builds: whatever size a batch has, however many pages    *)
(* before it came late, and whatever calls came before.                    *)
THEOREM PunctualTheorem == Spec => []PunctualPagesExact
<1>1. IInv => PunctualPagesExact
  BY DEF IInv, WordsExact, LoopInv, PunctualPagesExact
<1>2. QED
  BY InitInvariant, StepInvariant, <1>1, PTL DEF Spec

===============================================================================
