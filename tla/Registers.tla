------------------------------- MODULE Registers -------------------------------
(***************************************************************************)
(* Register accesses (XSPI.cpp) as the FT2232H sees them.  The drivers     *)
(* (XNAND.cpp, XeMMC.cpp) queue accesses in byOutputBuffer as MPSSE        *)
(* commands (wrapper_spi.cpp), send the buffer, and ask for as many bytes  *)
(* as the reads among them bring.  The chip executes what it got, command  *)
(* by command, while the driver goes on; an access reaches the flash       *)
(* controller when the chip select goes up again.                          *)
(*                                                                         *)
(* Here the bytes of a request arrive whole and in order; what happens     *)
(* when they do not is the subject of Transport.  The chip is external.    *)
(***************************************************************************)
EXTENDS Integers, Sequences, SequencesExt

CONSTANTS
  Words,                \* sets of data words a write may carry
  PageWords,            \* words of a page or block, 0x84 or 128
  Pages,                \* pages of a batch, NAND_READ_BATCH_PAGES
  DelayBytes,           \* NAND_READ_DELAY_BYTES
  OUTPUT_BUFFER_SIZE,
  UsbRoom               \* bytes D2XX and the chip hold before FT_Write waits

ASSUME RegistersAssumption ==
  /\ Words \subseteq [1 .. 4 -> 0 .. 255]
  /\ PageWords \in Nat \ {0} /\ Pages \in Nat \ {0} /\ DelayBytes \in Nat
  /\ OUTPUT_BUFFER_SIZE \in Nat \ {0} /\ UsbRoom \in Nat

(* A batch of pages fits in the buffer, with the byte that makes the answer *)
(* come at once: 157249 of 524288 bytes in XNANDReadBatch.  One command     *)
(* clocks out a delay.                                                     *)
ASSUME BatchFits ==
  /\ DelayBytes <= 256 * 256
  /\ Pages * (48 + (IF DelayBytes = 0 THEN 0 ELSE 3 + DelayBytes) + 34 * PageWords) + 1
       <= OUTPUT_BUFFER_SIZE

VARIABLES
  steps,                \* what is left of the driver function that runs
  byOutputBuffer,
  dwLowPinsValue,       \* chip select high? levels of the GPIO lines
  \* the chip: bytes it has yet to execute, its pins, what it has clocked out
  \* and in since the chip select went down, reply bytes not yet read
  usb, pins, out, in, rx,
  entered,              \* has XSPIEnterFlashMode run on this device?
  \* history: accesses queued and not sent, sent and not executed; was one
  \* executed that was not the first of those? were bytes dropped?
  queued, sent, strange, dropped

chip    == <<usb, pins, out, in, rx>>
history == <<queued, sent, strange, dropped>>
vars    == <<steps, byOutputBuffer, dwLowPinsValue, chip, entered, history>>

Minimum(a, b) == IF a < b THEN a ELSE b

Zero     == <<0, 0, 0, 0>>
Byte(d)  == <<d, 0, 0, 0>>

Write(r, d) == [reg |-> r, data |-> d, in |-> 0]
Read(r, n)  == [reg |-> r, data |-> <<>>, in |-> n]

-------------------------------------------------------------------------------
(* MPSSE commands.                                                         *)

SET_LOW_BYTE_DATA_BITS == 128
CLK_DATA_BYTES_OUT     == 25
CLK_DATA_BITS_OUT      == 27
CLK_DATA_BYTES_IN      == 45
CLK_DATA_BITS_IN       == 47
SEND_IMMEDIATE         == 135

(* Directions of the pins: 0xFB with every access, 0x3E when they are set. *)
AccessPins == 251
LinePins   == 62

(* The whole bytes but the last, then the last one bit by bit.             *)
AddWriteOutBuffer(bits, data) ==
  LET whole == (bits - 1) \div 8
      rest  == (bits - 1) % 8 IN
  IF bits <= 1 THEN <<>>
  ELSE (IF whole = 0 THEN <<>>
        ELSE <<CLK_DATA_BYTES_OUT, (whole - 1) % 256, ((whole - 1) \div 256) % 256>>
             \o SubSeq(data, 1, whole))
       \o (IF rest = 0 THEN <<>> ELSE <<CLK_DATA_BITS_OUT, rest, data[whole + 1]>>)

AddReadNoRest(bits) == <<CLK_DATA_BYTES_IN, ((bits - 1) \div 8) - 1, 0>>

AddReadOutBuffer(bits) ==
  LET whole == (bits - 1) \div 8
      rest  == (bits - 1) % 8 IN
  (IF whole = 0 THEN <<>>
   ELSE <<CLK_DATA_BYTES_IN, (whole - 1) % 256, ((whole - 1) \div 256) % 256>>)
  \o (IF rest = 0 THEN <<>> ELSE <<CLK_DATA_BITS_IN, rest>>)

SelectOnly(high) ==
  <<SET_LOW_BYTE_DATA_BITS, [high |-> high, lines |-> <<FALSE, FALSE>>], AccessPins>>

(* EnableSPIChip and DisableSPIChip leave the other pins as they were.     *)
Select(high) ==
  <<SET_LOW_BYTE_DATA_BITS, [dwLowPinsValue EXCEPT !.high = high], AccessPins>>

FrameLeftSelected(a) ==
  Select(FALSE)
  \o (IF a.in = 0
      THEN AddWriteOutBuffer(40, <<((4 * a.reg) % 256) + 2>> \o a.data)
      ELSE AddWriteOutBuffer(16, <<((4 * a.reg) % 256) + 1, 255>>) \o AddReadOutBuffer(8 * a.in))

(* One access: EnableSPIChip, header and data, DisableSPIChip.             *)
Frame(a) ==
  Select(FALSE)
  \o (IF a.in = 0
      THEN AddWriteOutBuffer(40, <<((4 * a.reg) % 256) + 2>> \o a.data)
      ELSE AddWriteOutBuffer(16, <<((4 * a.reg) % 256) + 1, 255>>) \o AddReadOutBuffer(8 * a.in))
  \o Select(TRUE)

DelayFrameOneMore(n) ==
  <<CLK_DATA_BYTES_OUT, n % 256, (n \div 256) % 256>> \o [k \in 1 .. n + 1 |-> 0]

(* XNANDQueueReadDelay: bytes clocked out while the chip is not selected.  *)
DelayFrame(n) ==
  IF n = 0 THEN <<>>
  ELSE <<CLK_DATA_BYTES_OUT, (n - 1) % 256, ((n - 1) \div 256) % 256>> \o [k \in 1 .. n |-> 0]

-------------------------------------------------------------------------------
(* The functions of the drivers, as the steps they take.                   *)

Clear    == <<[op |-> "clear"]>>
Queue(a) == <<[op |-> "queue", access |-> a]>>
Delay(n) == <<[op |-> "delay", n |-> n]>>
Fast     == <<[op |-> "fast"]>>
Send     == <<[op |-> "send"]>>
Get(n)   == <<[op |-> "get", n |-> n]>>
Line(l)  == <<[op |-> "lines", lines |-> l]>>
CS(high) == <<[op |-> "cs", high |-> high]>>

Times(n, s) == [k \in 1 .. n * Len(s) |-> s[((k - 1) % Len(s)) + 1]]

ReadNow(r, n) == Clear \o Queue(Read(r, n)) \o Fast \o Send \o Get(n)

XSPIReadBYTE_(r)  == ReadNow(r, 1)
XSPIReadWORD_(r)  == ReadNow(r, 2)
XSPIReadDWORD_(r) == ReadNow(r, 4)
XSPIRead_sync(r)  == ReadNow(r, 4)

XSPIWriteWORD_(r, d)  == Clear \o Queue(Write(r, d)) \o Send
XSPIWrite_sync(r, d)  == Clear \o Queue(Write(r, d)) \o Send

XSPIEnterFlashMode ==
  Line(<<FALSE, TRUE>>) \o CS(TRUE) \o Line(<<FALSE, FALSE>>) \o CS(FALSE) \o Line(<<TRUE, TRUE>>)

XNANDClearStatus(d) == XSPIRead_sync(4) \o XSPIWrite_sync(4, d)

CommandsFirst(d, codes) ==
  Clear \o FlattenSeq([k \in DOMAIN codes |-> Queue(Write(8, Byte(codes[k])))])
        \o XSPIWriteWORD_(12, d) \o Send

(* The address goes out on its own; the codes of the command follow.       *)
Commands(d, codes) ==
  Clear \o XSPIWriteWORD_(12, d)
        \o FlattenSeq([k \in DOMAIN codes |-> Queue(Write(8, Byte(codes[k])))]) \o Send

XNANDWriteStart == Clear \o Queue(Write(12, Zero)) \o Send

XNANDReadProcessUncounted(n) ==
  Clear \o Times(n, Queue(Write(8, Zero)) \o Queue(Read(16, 4))) \o Fast \o Send \o Get(n)

XNANDReadProcess(n) ==
  Clear \o Times(n, Queue(Write(8, Zero)) \o Queue(Read(16, 4))) \o Fast \o Send \o Get(4 * n)

XNANDWriteProcess(n, d) ==
  Clear \o Times(n, Queue(Write(16, d)) \o Queue(Write(8, Byte(1)))) \o Send

XNANDReadBatch(pages, n, d) ==
  Clear
  \o Times(pages, Queue(Write(12, d)) \o Queue(Write(8, Byte(3))) \o Delay(DelayBytes)
                  \o Queue(Write(12, Zero))
                  \o Times(n, Queue(Write(8, Zero)) \o Queue(Read(16, 4))))
  \o Fast \o Send \o Get(4 * pages * n)

xbox_emmc_execute(d) ==
  XSPIWriteWORD_(48, d) \o XSPIWriteWORD_(4, d) \o XSPIWriteWORD_(8, d) \o XSPIWriteWORD_(12, d)

XSPIReadBlock_(n) == Clear \o Times(n, Queue(Read(32, 4))) \o Fast \o Send \o Get(4 * n)

(* The data of xbox_emmc_write_block.                                      *)
WriteBlock(n, d) == Clear \o Times(n, Queue(Write(32, d))) \o Fast \o Send

(* Between two of these the drivers do nothing to the buffer; the order in *)
(* which they come does not matter here.                                   *)
Functions(d) ==
  {XSPIReadBYTE_(4), XSPIReadWORD_(48), XSPIReadDWORD_(44), XSPIWriteWORD_(44, d),
   XNANDClearStatus(d), Commands(d, <<3>>), Commands(d, <<170, 85, 5>>),
   Commands(d, <<85, 170, 4>>), XNANDWriteStart, XNANDReadProcess(PageWords),
   XNANDWriteProcess(PageWords, d), XNANDReadBatch(Pages, PageWords, d),
   xbox_emmc_execute(d), XSPIReadBlock_(PageWords), WriteBlock(PageWords, d)}

-------------------------------------------------------------------------------
(* The worker.                                                             *)

Idle == steps = <<>>

Step(o) == steps # <<>> /\ Head(steps).op = o /\ steps' = Tail(steps)

(* AddByteToOutputBuffer for each byte: what there is no room for is lost. *)
Stage(s) ==
  LET room == OUTPUT_BUFFER_SIZE - Len(byOutputBuffer) IN
  /\ byOutputBuffer' = byOutputBuffer \o SubSeq(s, 1, Minimum(room, Len(s)))
  /\ dropped' = (dropped \/ Len(s) > room)

(* FT_Write waits until there is room for the bytes; more than there ever  *)
(* is room for goes in once the chip has nothing else to do.               *)
FT_Write(s) ==
  /\ usb = <<>> \/ Len(usb) + Len(s) <= UsbRoom
  /\ usb' = usb \o s

(* spi_init on a new session.  What the last one left in the chip is gone, *)
(* dwLowPinsValue is not.                                                  *)
Open ==
  /\ Idle
  /\ steps' = XSPIEnterFlashMode
  /\ usb' = <<>>
  /\ pins' = [high |-> TRUE, lines |-> <<FALSE, FALSE>>]
  /\ out' = <<>> /\ in' = 0 /\ rx' = 0
  /\ entered' = TRUE
  /\ sent' = <<>>
  /\ UNCHANGED <<byOutputBuffer, dwLowPinsValue, queued, strange, dropped>>

Run ==
  /\ Idle /\ entered
  /\ \E d \in Words : steps' \in Functions(d)
  /\ UNCHANGED <<byOutputBuffer, dwLowPinsValue, chip, entered, history>>

ClearOutputBuffer ==
  /\ Step("clear")
  /\ byOutputBuffer' = <<>>
  /\ queued' = <<>>
  /\ UNCHANGED <<dwLowPinsValue, chip, entered, sent, strange, dropped>>

(* XSPIRead_, XSPIWrite_, XSPIWrite0_, XSPIWriteBYTE_, XSPIQueueBytes_.    *)
QueueAccess ==
  /\ Step("queue")
  /\ Stage(Frame(Head(steps).access))
  /\ dwLowPinsValue' = [dwLowPinsValue EXCEPT !.high = TRUE]
  /\ queued' = Append(queued, Head(steps).access)
  /\ UNCHANGED <<chip, entered, sent, strange>>

XNANDQueueReadDelay ==
  /\ Step("delay")
  /\ Stage(DelayFrame(Head(steps).n))
  /\ UNCHANGED <<dwLowPinsValue, chip, entered, queued, sent, strange>>

SetAnswerFast ==
  /\ Step("fast")
  /\ Stage(<<SEND_IMMEDIATE>>)
  /\ UNCHANGED <<dwLowPinsValue, chip, entered, queued, sent, strange>>

SendBytesAgain ==
  /\ Step("send")
  /\ FT_Write(byOutputBuffer)
  /\ sent' = sent \o queued
  /\ queued' = <<>>
  /\ UNCHANGED <<byOutputBuffer, dwLowPinsValue, pins, out, in, rx, entered, strange, dropped>>

SendBytesToDevice ==
  /\ Step("send")
  /\ FT_Write(byOutputBuffer)
  /\ byOutputBuffer' = <<>>
  /\ sent' = sent \o queued
  /\ queued' = <<>>
  /\ UNCHANGED <<dwLowPinsValue, pins, out, in, rx, entered, strange, dropped>>

GetDataFromDevice ==
  /\ Step("get")
  /\ rx >= Head(steps).n
  /\ rx' = rx - Head(steps).n
  /\ UNCHANGED <<byOutputBuffer, dwLowPinsValue, usb, pins, out, in, entered, history>>

(* Its exception ends the session.                                         *)
Throw ==
  /\ steps # <<>> /\ Head(steps).op = "get"
  /\ steps' = <<>>
  /\ entered' = FALSE
  /\ UNCHANGED <<byOutputBuffer, dwLowPinsValue, chip, history>>

(* spi_setGPIO and spi_SetCS use byOutputBuffer and write it themselves.   *)
SetPins(p) ==
  /\ dwLowPinsValue' = p
  /\ FT_Write(<<SET_LOW_BYTE_DATA_BITS, p, LinePins>>)
  /\ byOutputBuffer' = <<>>
  /\ queued' = <<>>
  /\ UNCHANGED <<pins, out, in, rx, entered, sent, strange, dropped>>

spi_setGPIO ==
  /\ Step("lines")
  /\ SetPins([dwLowPinsValue EXCEPT !.lines = Head(steps).lines])

spi_SetCS ==
  /\ Step("cs")
  /\ SetPins([dwLowPinsValue EXCEPT !.high = Head(steps).high])

-------------------------------------------------------------------------------
(* The chip and the controller.                                            *)

Length(n, m) == n + 256 * m + 1

(* What the controller makes of what it saw while it was selected.         *)
Decoded ==
  IF out[1] % 4 = 2 THEN [reg |-> out[1] \div 4, data |-> Tail(out), in |-> in]
  ELSE [reg |-> out[1] \div 4, data |-> SubSeq(out, 3, Len(out)), in |-> in]

(* An access is done when the chip select rises.                           *)
Pins ==
  /\ Head(usb) = SET_LOW_BYTE_DATA_BITS
  /\ usb' = SubSeq(usb, 4, Len(usb))
  /\ pins' = usb[2]
  /\ out' = <<>> /\ in' = 0
  /\ IF ~pins.high /\ usb[2].high /\ out # <<>>
     THEN /\ strange' = (strange \/ sent = <<>> \/ Decoded # Head(sent))
          /\ sent' = IF sent = <<>> THEN sent ELSE Tail(sent)
     ELSE UNCHANGED <<strange, sent>>
  /\ UNCHANGED rx

Clocked(n, s) ==
  /\ usb' = SubSeq(usb, n + 1, Len(usb))
  /\ out' = IF pins.high THEN out ELSE out \o s
  /\ UNCHANGED <<pins, in, rx, sent, strange>>

Sampled(n, k) ==
  /\ usb' = SubSeq(usb, n + 1, Len(usb))
  /\ in' = in + k
  /\ rx' = rx + k
  /\ UNCHANGED <<pins, out, sent, strange>>

(* Bits that are no whole byte are no byte of any register.                *)
Execute ==
  /\ usb # <<>>
  /\ \/ Pins
     \/ /\ Head(usb) = CLK_DATA_BYTES_OUT
        /\ Clocked(3 + Length(usb[2], usb[3]), SubSeq(usb, 4, 3 + Length(usb[2], usb[3])))
     \/ /\ Head(usb) = CLK_DATA_BITS_OUT
        /\ Clocked(3, IF usb[2] = 7 THEN <<usb[3]>> ELSE <<-1>>)
     \/ /\ Head(usb) = CLK_DATA_BYTES_IN
        /\ Sampled(3, Length(usb[2], usb[3]))
     \/ /\ Head(usb) = CLK_DATA_BITS_IN
        /\ Sampled(2, 1)
     \/ /\ Head(usb) = SEND_IMMEDIATE
        /\ Clocked(1, <<>>)
  /\ UNCHANGED <<steps, byOutputBuffer, dwLowPinsValue, entered, queued, dropped>>

Init ==
  /\ steps = <<>> /\ byOutputBuffer = <<>>
  /\ dwLowPinsValue = [high |-> FALSE, lines |-> <<FALSE, FALSE>>]
  /\ usb = <<>> /\ pins = [high |-> TRUE, lines |-> <<FALSE, FALSE>>]
  /\ out = <<>> /\ in = 0 /\ rx = 0
  /\ entered = FALSE
  /\ queued = <<>> /\ sent = <<>> /\ strange = FALSE
  /\ dropped = FALSE

Driver ==
  \/ ClearOutputBuffer \/ QueueAccess \/ XNANDQueueReadDelay \/ SetAnswerFast
  \/ SendBytesToDevice \/ GetDataFromDevice \/ spi_setGPIO \/ spi_SetCS

Next == Open \/ Run \/ Driver \/ Throw \/ Execute

Spec == Init /\ [][Next]_vars

(* The worker is scheduled and the chip works.                             *)
FairSpec == Spec /\ WF_vars(Driver) /\ WF_vars(Execute)

-------------------------------------------------------------------------------
(* Properties.                                                             *)

(* Every access the controller sees is the one that was queued, whole: the *)
(* right register, data and number of bytes, in the order of the queue.    *)
AccessesExact == ~strange

(* Nothing is left over: no access is dropped for want of room or still     *)
(* queued when the buffer is cleared or used for something else, none is    *)
(* missing when the chip has worked through what it was sent, and then no   *)
(* byte of a reply remains to be taken for another.                         *)
NothingLeft ==
  /\ ~dropped
  /\ steps # <<>> /\ Head(steps).op \in {"clear", "lines", "cs"} => queued = <<>>
  /\ usb = <<>> /\ entered => sent = <<>>
  /\ usb = <<>> /\ entered /\ Idle => rx = 0

(* The lines that hold the console in its flash mode move only with        *)
(* spi_setGPIO, never with an access.                                      *)
LinesHold ==
  [][Execute /\ usb[1] = SET_LOW_BYTE_DATA_BITS /\ usb[3] = AccessPins => pins'.lines = pins.lines]_vars

(* No driver function waits for more than the chip was asked for: each one *)
(* ends.                                                                   *)
FunctionsEnd == steps # <<>> ~> Idle

===============================================================================
