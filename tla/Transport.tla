------------------------------- MODULE Transport -------------------------------
(***************************************************************************)
(* One request to the flash over USB (wrapper_spi.cpp): bytes are staged   *)
(* in byOutputBuffer, SendBytesToDevice hands them to FT_Write in chunks,  *)
(* and GetDataFromDevice collects the reply with a bounded number of       *)
(* FT_Reads or throws.  Every register access of the drivers is such a     *)
(* request.                                                                *)
(*                                                                         *)
(* The D2XX driver and the chip are external: a write may be short or      *)
(* fail, and a reply comes byte by byte, late or never.  A chip that got a *)
(* part of a request takes the next one for the rest: from then on what it *)
(* answers is anything.                                                    *)
(***************************************************************************)
EXTENDS Integers, Sequences

CONSTANTS
  Requests,                   \* <<bytes to stage, bytes of the reply>>
  OUTPUT_BUFFER_SIZE,
  MAX_NUM_BYTES_USB_WRITE,
  TryCount                    \* try_count, 10

ASSUME TransportAssumption ==
  /\ Requests \subseteq Nat \X Nat
  /\ OUTPUT_BUFFER_SIZE \in Nat \ {0}
  /\ MAX_NUM_BYTES_USB_WRITE \in Nat \ {0}
  /\ TryCount \in Nat

VARIABLES
  pc,
  dwNumBytesToSend,           \* bytes staged
  dropped,                    \* bytes the guard of the buffer did not take
  dwTotalNumBytesSent,        \* bytes FT_Write took of them
  Status,                     \* was the last FT_Write successful?
  reply,                      \* bytes of the reply the caller waits for
  tx,                         \* which request this is, 0 and 1 in turn
  try_count, got,             \* FT_Reads left, and what they brought
  \* the chip: bytes it produced of this reply, those not yet read, and
  \* has it lost its place in the stream of requests?
  produced, rx, desync

request == <<reply, tx>>
staging == <<dwNumBytesToSend, dropped, dwTotalNumBytesSent, Status>>
reading == <<try_count, got>>
chip    == <<produced, rx, desync>>
vars    == <<pc, staging, request, reading, chip>>

Byte(t, k) == <<t, k>>
Stray      == <<2, 0>>

Whole(t, n) == [k \in 1 .. n |-> Byte(t, k)]

Minimum(a, b) == IF a < b THEN a ELSE b

-------------------------------------------------------------------------------
(* Sending.                                                                *)

(* ClearOutputBuffer and AddByteToOutputBuffer for each byte: the guard    *)
(* drops those the buffer has no room for.                                 *)
Stage(n, r) ==
  /\ pc = "idle"
  /\ pc' = "send"
  /\ dwNumBytesToSend' = Minimum(n, OUTPUT_BUFFER_SIZE)
  /\ dropped' = n - Minimum(n, OUTPUT_BUFFER_SIZE)
  /\ dwTotalNumBytesSent' = 0
  /\ Status' = TRUE
  /\ reply' = r
  /\ tx' = 1 - tx
  /\ try_count' = TryCount
  /\ got' = <<>>
  /\ produced' = 0
  /\ UNCHANGED <<rx, desync>>

Large == dwNumBytesToSend > MAX_NUM_BYTES_USB_WRITE

(* What the next FT_Write is asked to take.                                *)
Chunk ==
  IF ~Large THEN dwNumBytesToSend
  ELSE IF dwTotalNumBytesSent + MAX_NUM_BYTES_USB_WRITE <= dwNumBytesToSend
       THEN MAX_NUM_BYTES_USB_WRITE
       ELSE dwNumBytesToSend - dwTotalNumBytesSent

(* Nobody looks at the status any more: the caller goes on to its reply,   *)
(* if it wants one.                                                        *)
Sent == IF reply = 0 THEN "idle" ELSE "get"

(* One FT_Write.  Only a large request is continued after a short write,   *)
(* as long as the status is good.                                          *)
SendChunk ==
  /\ pc = "send"
  /\ Status' \in BOOLEAN
  /\ \E n \in 0 .. Chunk : dwTotalNumBytesSent' = dwTotalNumBytesSent + n
  /\ \/ /\ Large /\ Status' /\ dwTotalNumBytesSent' < dwNumBytesToSend
        /\ UNCHANGED <<pc, desync>>
     \/ /\ ~(Large /\ Status' /\ dwTotalNumBytesSent' < dwNumBytesToSend)
        /\ pc' = Sent
        /\ desync' = (desync \/ dropped > 0 \/ dwTotalNumBytesSent' < dwNumBytesToSend)
  /\ UNCHANGED <<dwNumBytesToSend, dropped, request, reading, produced, rx>>

-------------------------------------------------------------------------------
(* The reply.                                                              *)

GetWithoutLimit ==
  /\ pc = "get"
  /\ \E n \in 0 .. Minimum(Len(rx), reply - Len(got)) :
       /\ got' = got \o SubSeq(rx, 1, n)
       /\ rx' = SubSeq(rx, n + 1, Len(rx))
       /\ pc' = IF Len(got) + n < reply THEN "get" ELSE "idle"
  /\ UNCHANGED <<staging, request, try_count, produced, desync>>

GetOnce ==
  /\ pc = "get"
  /\ \E n \in 0 .. Minimum(Len(rx), reply - Len(got)) :
       /\ got' = got \o SubSeq(rx, 1, n)
       /\ rx' = SubSeq(rx, n + 1, Len(rx))
       /\ pc' = IF n = 0 THEN "thrown" ELSE "idle"
  /\ UNCHANGED <<staging, request, try_count, produced, desync>>

(* FT_Read gives what has come when its timeout is over, an error nothing. *)
(* The last of the reads leaves try_count at 0 even if it brings the rest. *)
GetDataFromDevice ==
  /\ pc = "get"
  /\ \E n \in 0 .. Minimum(Len(rx), reply - Len(got)) :
       /\ got' = got \o SubSeq(rx, 1, n)
       /\ rx' = SubSeq(rx, n + 1, Len(rx))
       /\ IF Len(got) + n < reply /\ try_count > 0
          THEN /\ try_count' = try_count - 1
               /\ UNCHANGED pc
          ELSE /\ try_count' = IF Len(got) + n < reply THEN try_count - 1 ELSE try_count
               /\ pc' = IF try_count' <= 0 THEN "thrown" ELSE "idle"
  /\ UNCHANGED <<staging, request, produced, desync>>

(* The chip executes commands as they arrive, and answers in their order.  *)
Produce ==
  /\ pc \in {"send", "get"}
  /\ produced < reply /\ dwTotalNumBytesSent > 0
  /\ produced' = produced + 1
  /\ rx' = Append(rx, IF desync THEN Stray ELSE Byte(tx, produced + 1))
  /\ UNCHANGED <<pc, staging, request, reading, desync>>

(* The exception has left the call; the next one opens the device anew.    *)
Reopen ==
  /\ pc = "thrown"
  /\ pc' = "idle"
  /\ got' = <<>>
  /\ reply' = 0
  /\ rx' = <<>>
  /\ produced' = 0
  /\ desync' = FALSE
  /\ UNCHANGED <<staging, tx, try_count>>

Init ==
  /\ pc = "idle"
  /\ dwNumBytesToSend = 0 /\ dropped = 0 /\ dwTotalNumBytesSent = 0 /\ Status = TRUE
  /\ reply = 0 /\ tx = 0
  /\ try_count = TryCount /\ got = <<>>
  /\ produced = 0 /\ rx = <<>> /\ desync = FALSE

Driver == SendChunk \/ GetDataFromDevice

Next ==
  \/ \E q \in Requests : Stage(q[1], q[2])
  \/ Driver \/ Produce \/ Reopen

Spec == Init /\ [][Next]_vars

(* Each FT_Write and FT_Read returns, and a large request that is not      *)
(* refused moves on: the driver takes some bytes of it in the end.  The    *)
(* chip owes nothing.                                                      *)
FairSpec == Spec /\ WF_vars(Driver)

-------------------------------------------------------------------------------
(* Properties.                                                             *)

(* A request that got all its bytes through returns its own reply, whole   *)
(* and in order: the reads never take a byte of another reply, never leave *)
(* one behind for the next request, and never return with less. Meanwhile  *)
(* what was read and what waits in the driver are together what the chip   *)
(* has produced of this reply so far.                                      *)
ReplyIsOwn ==
  ~desync =>
    /\ pc # "thrown" => got \o rx = Whole(tx, produced)
    /\ pc = "idle" => got = Whole(tx, reply) /\ rx = <<>>

(* A request ends, with its reply or with the exception, whatever the chip *)
(* does.                                                                   *)
RequestEnds == pc = "send" ~> pc \in {"idle", "thrown"}

(* What the exception of GetDataFromDevice says, "ERROR: NO DATA FROM      *)
(* DEVICE": bytes of the reply are missing when it is thrown.              *)
ThrownForMissingData == pc = "thrown" => Len(got) < reply

===============================================================================
