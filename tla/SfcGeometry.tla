------------------------------ MODULE SfcGeometry ------------------------------
(***************************************************************************)
(* SFC_init (sfc.cpp): the sizes of a NAND from its configuration word.    *)
(*                                                                         *)
(* The global Sfc outlives the call and a call need not assign every field *)
(* of it, so SFC_init maps the record it finds to the one it leaves.       *)
(* Sizes are counted in pages of 0x200 bytes.  A configuration word is the *)
(* controller's revision, its code for the size, and what a large-block    *)
(* NAND adds to the exponent of its size.                                  *)
(***************************************************************************)
EXTENDS Integers

CONSTANTS
  BlockPages,           \* pages of an erase block of 16, 128 and 256 KB: 32, 256, 512
  MB                    \* pages of a megabyte, 2048

ASSUME GeometryAssumption ==
  /\ BlockPages \in [1 .. 3 -> Nat \ {0}]
  /\ MB \in Nat \ {0}

Configs == [revision : 0 .. 3, size : 0 .. 3, shift : 0 .. 18]

(* Sfc before the first call: a static variable.                           *)
NoSfc == [Initialized |-> FALSE, LargeBlock |-> 0, BlockSize |-> 0, PageCountInBlock |-> 0,
          NandSizeDataPartition |-> 0, NandSize |-> 0, PagesCountInNand |-> 0]

Supported(c) == c.revision # 3 /\ (c.size = 0 => c.revision = 2)

Large(c) == c.revision \in {1, 2} /\ c.size \in {2, 3}

BlockSize(c) == BlockPages[IF Large(c) THEN c.size ELSE 1]

(* 0x1 << n, with n up to 41.  A shift of a 32-bit 1 by more than 31 is    *)
(* undefined; what is left of it is less than two pages.                   *)
ShiftedSizes(c) == IF c.shift <= 8 THEN {8 * MB * 2 ^ c.shift} ELSE {0, 1}

DataPartition(c, sfc) ==
  CASE c.revision = 0              -> 8 * MB * 2 ^ c.size
    [] Large(c)                    -> 64 * MB * (c.size - 1)
    [] c.size = 1                  -> IF c.revision = 1 THEN 16 * MB ELSE 64 * MB
    [] OTHER                       -> sfc.NandSizeDataPartition

NandSizes(c, sfc) ==
  IF Large(c) THEN ShiftedSizes(c)
  ELSE IF c.size = 0 THEN {16 * MB} ELSE {DataPartition(c, sfc)}

SFC_init_KeepsLargeBlock(c, sfc) ==
  IF Supported(c)
  THEN {[sfc EXCEPT !.Initialized      = TRUE,
                    !.LargeBlock       = IF Large(c) THEN c.size ELSE @,
                    !.BlockSize        = BlockSize(c),
                    !.PageCountInBlock = BlockSize(c),
                    !.NandSize         = n] : n \in NandSizes(c, sfc)}
  ELSE {sfc}

(* What SFC_init leaves, and with a NAND it does not support, for which it *)
(* answers -1 before anything is derived, what it has assigned until then. *)
SFC_init(c, sfc) ==
  IF Supported(c)
  THEN {[Initialized           |-> TRUE,
         LargeBlock            |-> IF Large(c) THEN c.size ELSE 0,
         BlockSize             |-> BlockSize(c),
         PageCountInBlock      |-> BlockSize(c),
         NandSizeDataPartition |-> DataPartition(c, sfc),
         NandSize              |-> n,
         PagesCountInNand      |-> DataPartition(c, sfc)] : n \in NandSizes(c, sfc)}
  ELSE {[sfc EXCEPT !.Initialized = FALSE,
                    !.LargeBlock  = 0,
                    !.BlockSize   = IF c.revision = 0 THEN BlockPages[1] ELSE @]}

===============================================================================
