-------------------------------- MODULE IsdPins --------------------------------
(***************************************************************************)
(* The bit-banged bus of ISD2100.cpp.  The functions SPI_* write commands  *)
(* that set or read the pins of the FT2232H one by one; the FT2232H works  *)
(* through them while the driver goes on, and the driver takes the pin     *)
(* states that come back.  FTDI_DEINIT_IMMEDIATELY may close the channel   *)
(* from another thread between any two steps.                              *)
(*                                                                         *)
(* Data is where it comes from: bit k of byte j of the current selection   *)
(* is <<j, k>>, on either line.  The ISD2100 (external) takes MOSI when    *)
(* the clock rises, moves MISO when it falls, and says when it is ready.   *)
(***************************************************************************)
EXTENDS Integers, SequencesExt

CONSTANTS
  ByteBits,             \* bits of a byte, 8
  Addressed,            \* bytes of a command with an address, 4
  DataBytes,            \* bytes read with one command, 16
  Word,                 \* bytes written with one command, 4
  PollLimit             \* polls of WaitForReady before it gives up

ASSUME PinsAssumption ==
  /\ ByteBits \in Nat \ {0} /\ Addressed \in Nat \ {0} /\ DataBytes \in Nat \ {0} /\ Word \in Nat \ {0}
  /\ PollLimit \in Nat

VARIABLES
  \* the worker: what its export has still to do, where it is in the first
  \* of that, ssState of that function, polls, bytes since the last selection
  steps, phase, ssState, polls, count,
  g_currentSSState, g_ftHandle,  \* is SS to be high; is the handle not NULL?
  closing,              \* how far FTDI_DEINIT is
  commands, replies, pins,       \* the FT2232H: to execute, to be read, what it drives
  received, out,        \* the ISD2100: bits taken and bits put out since selected
  answer,               \* what the last function read
  cut                   \* history: has the channel been closed under the worker?

worker  == <<steps, phase, ssState, polls, count>>
ft2232h == <<commands, replies, pins>>
isd2100 == <<received, out>>

pinsVars ==
  <<worker, g_currentSSState, g_ftHandle, closing, ft2232h, isd2100, answer, cut>>

None == <<>>
NoAnswer == [ready |-> -1, bytes |-> <<>>]
Bit(j, k) == <<j, k>>

(* The n-th bit of a selection, high bit first.                            *)
NthBit(n) == Bit(1 + ((n - 1) \div ByteBits), ByteBits - 1 - ((n - 1) % ByteBits))

IdlePins == [sk |-> 1, mosi |-> None, ss |-> TRUE]

\* The commands 0x80 and 0x81.
SetPins(sk, mosi, ss) == [op |-> "set", pins |-> [sk |-> sk, mosi |-> mosi, ss |-> ss]]
ReadPins              == [op |-> "read"]

-------------------------------------------------------------------------------
(* The exports, as the functions they call.                                *)

Select(high)   == <<[op |-> "select", high |-> high]>>
Transfer       == <<[op |-> "transfer", n |-> 1]>>
SendCommand(n) == <<[op |-> "command", n |-> n]>>
ReadPacket(n)  == <<[op |-> "transfer", n |-> n]>>
WaitForReady   == <<[op |-> "wait"]>>
ReadStatus     == <<[op |-> "status"]>>

Times(n, s) == FlattenSeq([i \in 1 .. n |-> s])
Frame(s)    == Select(FALSE) \o s \o Select(TRUE)

ISD_Init == Select(TRUE) \o Frame(Transfer) \o WaitForReady \o Frame(Times(3, Transfer)) \o ReadStatus

ISD2100_PowerDown == Select(TRUE) \o Frame(Transfer)

ReadChunk == Frame(WaitForReady \o SendCommand(Addressed) \o Times(DataBytes, WaitForReady \o Transfer))
Sampled   == Frame(WaitForReady \o SendCommand(Addressed) \o WaitForReady \o Times(Word, Transfer))

ISD_EraseMass == Frame(Times(2, WaitForReady \o Transfer)) \o WaitForReady
Play          == Frame(Times(3, WaitForReady \o Transfer))

Packet     == Frame(SendCommand(Addressed + Word))
Checkpoint == Packet \o Frame(WaitForReady \o ReadPacket(Addressed + Word))

(* A loop of an export is its body any number of times.                    *)
Exports == {ISD_Init, ISD2100_PowerDown, ReadChunk, Sampled, ISD_EraseMass, Play, Packet, Checkpoint}

-------------------------------------------------------------------------------
(* The driver.                                                             *)

Look(look) == IF look THEN <<ReadPins>> ELSE <<>>

BitLooksEarly(bit, look) ==
  <<SetPins(1, bit, ssState)>> \o Look(look) \o <<SetPins(0, bit, ssState), SetPins(1, bit, ssState)>>

BitLateData(bit, look) ==
  <<SetPins(0, None, ssState)>> \o Look(look) \o <<SetPins(1, bit, ssState)>>

(* One bit: MOSI while the clock is high, the clock low, perhaps a look at *)
(* MISO, the clock high.  Mutants: the look comes before the falling edge; *)
(* MOSI changes with the rising edge.                                      *)
ClockBit(bit, look) ==
  <<SetPins(1, bit, ssState), SetPins(0, bit, ssState)>> \o Look(look) \o <<SetPins(1, bit, ssState)>>

(* The commands that clock the next n bytes.                               *)
Waveform(n, look) ==
  FlattenSeq([i \in 1 .. n * ByteBits |-> ClockBit(NthBit(count * ByteBits + i), look)])

(* FT_Write; without a handle it does nothing.                             *)
FT_Write(s) == commands' = IF g_ftHandle THEN commands \o s ELSE commands

Doing(op) == steps # <<>> /\ Head(steps).op = op

StepDone ==
  /\ steps' = Tail(steps)
  /\ phase' = "start"

Call ==
  /\ steps = <<>>
  /\ steps' \in Exports
  /\ cut' = (cut \/ closing # "no")
  /\ UNCHANGED <<phase, ssState, polls, count, g_currentSSState, g_ftHandle, closing, ft2232h,
                 isd2100, answer>>

(* SPI_Select: the global, then the pins, then Sleep(1).                   *)
SelectState ==
  /\ Doing("select") /\ phase = "start"
  /\ g_currentSSState' = Head(steps).high
  /\ phase' = "write"
  /\ UNCHANGED <<steps, ssState, polls, count, g_ftHandle, closing, ft2232h, isd2100, answer, cut>>

WritePins ==
  /\ Doing("select") /\ phase = "write"
  /\ FT_Write(<<SetPins(1, None, g_currentSSState)>>)
  /\ phase' = "sleep"
  /\ count' = IF Head(steps).high THEN count ELSE 0
  /\ cut' = (cut /\ (Head(steps).high \/ ~g_ftHandle \/ closing # "no"))
  /\ answer' = NoAnswer
  /\ UNCHANGED <<steps, ssState, polls, g_currentSSState, g_ftHandle, closing, replies, pins,
                 isd2100>>

(* A millisecond is enough for what has been written before.               *)
Sleep ==
  /\ Doing("select") /\ phase = "sleep"
  /\ commands = <<>>
  /\ StepDone
  /\ UNCHANGED <<ssState, polls, count, g_currentSSState, g_ftHandle, closing, ft2232h,
                 isd2100, answer, cut>>

(* SPI_Transfer, SPI_SendCommand, SPI_SendPacket and SPI_ReadPacket look   *)
(* at g_currentSSState once ...                                            *)
Prepare ==
  /\ Doing("transfer") \/ Doing("command")
  /\ phase = "start"
  /\ ssState' = g_currentSSState
  /\ phase' = "write"
  /\ UNCHANGED <<steps, polls, count, g_currentSSState, g_ftHandle, closing, ft2232h, isd2100,
                 answer, cut>>

(* ... and write all commands at once.                                     *)
SPI_Write ==
  /\ Doing("transfer") \/ Doing("command")
  /\ phase = "write"
  /\ FT_Write(Waveform(Head(steps).n, Doing("transfer")))
  /\ IF Doing("transfer")
     THEN phase' = "read" /\ UNCHANGED <<steps, count>>
     ELSE StepDone /\ count' = count + Head(steps).n
  /\ answer' = NoAnswer
  /\ UNCHANGED <<ssState, polls, g_currentSSState, g_ftHandle, closing, replies, pins, isd2100,
                 cut>>

Poll ==
  /\ Doing("wait") /\ phase = "start"
  /\ FT_Write(<<ReadPins>>)
  /\ phase' = "read"
  /\ answer' = NoAnswer
  /\ UNCHANGED <<steps, ssState, polls, count, g_currentSSState, g_ftHandle, closing, replies,
                 pins, isd2100, cut>>

WantedOneMore == IF Doing("wait") THEN 2 ELSE Head(steps).n * ByteBits + 1

(* What FT_Read is asked for.                                              *)
Wanted == IF Doing("wait") THEN 1 ELSE Head(steps).n * ByteBits

SampleReversed(states, b, bit) == states[b * ByteBits + bit + 1].miso

(* readData[7 - bit] of byte b.                                            *)
Sample(states, b, bit) == states[b * ByteBits + ByteBits - bit].miso

Bytes(states) ==
  [b \in 1 .. Head(steps).n |-> [bit \in 0 .. ByteBits - 1 |-> Sample(states, b - 1, bit)]]

(* FT_Read returns with all it was asked for.                              *)
FT_Read ==
  /\ phase = "read"
  /\ Len(replies) >= Wanted
  /\ replies' = SubSeq(replies, Wanted + 1, Len(replies))
  /\ LET states == SubSeq(replies, 1, Wanted)
         again  == Doing("wait") /\ ~states[1].rdy /\ polls < PollLimit
     IN  /\ answer' = IF Doing("wait") THEN [NoAnswer EXCEPT !.ready = states[1].at]
                      ELSE [NoAnswer EXCEPT !.bytes = Bytes(states)]
         /\ IF again THEN phase' = "start" /\ steps' = steps ELSE StepDone
         /\ polls' = IF again THEN polls + 1 ELSE 0
  /\ count' = IF Doing("transfer") THEN count + Head(steps).n ELSE count
  /\ UNCHANGED <<ssState, g_currentSSState, g_ftHandle, closing, commands, pins, isd2100, cut>>

(* Without a handle FT_Read returns with nothing, and with one that is     *)
(* closed meanwhile.                                                       *)
ReadNothing ==
  /\ phase = "read"
  /\ ~g_ftHandle
  /\ StepDone
  /\ polls' = 0
  /\ answer' = NoAnswer
  /\ UNCHANGED <<ssState, count, g_currentSSState, g_ftHandle, closing, ft2232h, isd2100, cut>>

(* The end of ISD_INIT: the handle is closed when the status is bad.       *)
CheckStatus ==
  /\ Doing("status")
  /\ StepDone
  /\ \E ok \in BOOLEAN : g_ftHandle' = (g_ftHandle /\ ok)
  /\ UNCHANGED <<ssState, polls, count, g_currentSSState, closing, ft2232h, isd2100, answer, cut>>

-------------------------------------------------------------------------------
(* Opening and closing.                                                    *)

KeepReplies == commands' = <<>> /\ UNCHANGED replies

FT_Purge == commands' = <<>> /\ replies' = <<>>

(* The reset of the FT2232H lets the pins go to their idle state.          *)
FT_SetBitMode == pins' = IdlePins

(* Opening, and MPSSE_Init; a channel that is open cannot be opened again. *)
FTDI_AutoInitialize ==
  /\ steps = <<>> /\ closing = "no"
  /\ g_ftHandle' \in {FALSE, ~g_ftHandle}
  /\ g_currentSSState' = TRUE
  /\ IF g_ftHandle' THEN FT_SetBitMode /\ FT_Purge ELSE UNCHANGED ft2232h
  /\ UNCHANGED <<worker, closing, isd2100, answer, cut>>

(* FTDI_DEINIT, called on any thread at any time: SPI_Select in its two    *)
(* steps, then the channel is reset, purged and closed.                    *)
DeinitSelect ==
  /\ closing = "no" /\ g_ftHandle
  /\ closing' = "select"
  /\ g_currentSSState' = TRUE
  /\ cut' = (cut \/ steps # <<>>)
  /\ UNCHANGED <<worker, g_ftHandle, ft2232h, isd2100, answer>>

DeinitWritePins ==
  /\ closing = "select"
  /\ closing' = "sleep"
  /\ FT_Write(<<SetPins(1, None, g_currentSSState)>>)
  /\ UNCHANGED <<worker, g_currentSSState, g_ftHandle, replies, pins, isd2100, answer, cut>>

DeinitClose ==
  /\ closing = "sleep"
  /\ closing' = "no"
  /\ g_currentSSState' = TRUE
  /\ g_ftHandle' = FALSE
  /\ IF g_ftHandle THEN FT_SetBitMode /\ FT_Purge ELSE UNCHANGED ft2232h
  /\ UNCHANGED <<worker, isd2100, answer, cut>>

-------------------------------------------------------------------------------
(* The FT2232H and the chip.                                               *)

ClockChip(new) ==
  IF pins.ss /\ ~new.ss THEN received' = <<>> /\ out' = 0
  ELSE IF new.ss THEN UNCHANGED isd2100
  ELSE IF pins.sk = 1 /\ new.sk = 0 THEN out' = out + 1 /\ UNCHANGED received
  ELSE IF pins.sk = 0 /\ new.sk = 1
  THEN /\ received' = Append(received, IF new.mosi = pins.mosi THEN new.mosi ELSE None)
       /\ UNCHANGED out
  ELSE UNCHANGED isd2100

Execute ==
  /\ commands # <<>>
  /\ commands' = Tail(commands)
  /\ IF Head(commands).op = "set"
     THEN /\ pins' = Head(commands).pins
          /\ ClockChip(Head(commands).pins)
          /\ UNCHANGED replies
     ELSE /\ \E ready \in BOOLEAN :
               replies' = Append(replies,
                                 [miso |-> IF pins.ss \/ out = 0 THEN None ELSE NthBit(out),
                                  rdy  |-> ready, at |-> Len(received)])
          /\ UNCHANGED <<pins, isd2100>>
  /\ UNCHANGED <<worker, g_currentSSState, g_ftHandle, closing, answer, cut>>

PinsInit ==
  /\ steps = <<>> /\ phase = "start" /\ ssState = TRUE /\ polls = 0 /\ count = 0
  /\ g_currentSSState = TRUE /\ g_ftHandle = FALSE /\ closing = "no"
  /\ commands = <<>> /\ replies = <<>> /\ pins = IdlePins
  /\ received = <<>> /\ out = 0 /\ answer = NoAnswer /\ cut = FALSE

Worker ==
  \/ SelectState \/ WritePins \/ Sleep \/ Prepare \/ SPI_Write \/ Poll \/ FT_Read
  \/ ReadNothing \/ CheckStatus

PinsNext ==
  \/ Call \/ Worker \/ FTDI_AutoInitialize \/ DeinitSelect \/ DeinitWritePins \/ DeinitClose
  \/ Execute

PinsSpec == PinsInit /\ [][PinsNext]_pinsVars

(* The worker goes on, and the FT2232H with what it has been sent.         *)
PinsFairSpec == PinsSpec /\ WF_pinsVars(Worker) /\ WF_pinsVars(Execute)

-------------------------------------------------------------------------------
(* What the bus promises.                                                  *)

Uncut == g_ftHandle /\ ~cut

SentBytes == count + IF Doing("transfer") /\ phase = "read" THEN Head(steps).n ELSE 0

(* The chip takes the bits of the bytes the driver sends, each once and in *)
(* order, and once the FT2232H is idle it has taken all of them - in the   *)
(* first selection after the channel was closed under a worker and opened  *)
(* again as well.                                                          *)
FramesExact ==
  Uncut /\ ~pins.ss =>
    /\ \A n \in 1 .. Len(received) : received[n] = NthBit(n)
    /\ commands = <<>> => Len(received) = ByteBits * SentBytes

(* Every byte that is returned has the bits the chip put out for it, and a *)
(* wait has looked at RDY when all that was sent before had been taken: no *)
(* reply is ever taken for that of another command.                        *)
RepliesExact ==
  Uncut =>
    /\ \A b \in 1 .. Len(answer.bytes), k \in 0 .. ByteBits - 1 :
         answer.bytes[b][k] = Bit(count - Len(answer.bytes) + b, k)
    /\ answer.ready \in {-1, ByteBits * count}

(* Every export returns: FT_Read, which has no time-out, is never asked    *)
(* for more replies than the commands before it cause.                     *)
ExportsReturn == steps # <<>> ~> steps = <<>>
===============================================================================
