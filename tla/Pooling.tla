------------------------------ MODULE Pooling ------------------------------
(***************************************************************************)
(* The shape arithmetic of the scoring model (classifier/model_cnn.py,     *)
(* classifier/spp.py, classifier/data.py): a request line of n characters  *)
(* is padded to a multiple of 32, embedded, convolved with kernel 64 and   *)
(* stride 32, and pooled by SPPLayer at levels 1..num_levels with          *)
(* kernel = stride = ceil(H / level) and padding                           *)
(* floor((kernel * level - H + 1) / 2).  The linear layer that follows     *)
(* expects cal_num_grids(num_levels) values per channel.  The detector    *)
(* (module Detector) asks whether Model.forward accepts a batch.           *)
(***************************************************************************)
EXTENDS Integers

CONSTANTS
    NumLevels,  \* spp_num_level (3 in the code)
    Block,      \* lineToTensor's block (32)
    Kernel,     \* conv1 kernel size (64)
    Stride      \* conv1 stride (32)

ASSUME /\ NumLevels \in Nat \ {0}
       /\ Block \in Nat \ {0} /\ Kernel \in Nat \ {0} /\ Stride \in Nat \ {0}

CeilDiv(a, b) == (a + b - 1) \div b
FloorDiv(a, b) == IF a >= 0 THEN a \div b ELSE -((-a + b - 1) \div b)

(* lineToTensor: length rounded up to the block. *)
PaddedLength(n) == CeilDiv(n, Block) * Block

(* Conv1d output length; PyTorch rejects an input shorter than the kernel. *)
ConvOk(lin) == lin >= Kernel
ConvLength(lin) == (lin - Kernel) \div Stride + 1

(* SPPLayer.forward, level `level` of a feature map of length h. *)
KernelSize(h, level) == CeilDiv(h, level)
Padding(h, level) == FloorDiv(KernelSize(h, level) * level - h + 1, 2)

(* max_pool1d requires the padding to be at most half the kernel.          *)
PoolOk(h, level) == 2 * Padding(h, level) <= KernelSize(h, level)
PoolLength(h, level) ==
    FloorDiv(h + 2 * Padding(h, level) - KernelSize(h, level),
             KernelSize(h, level)) + 1

(* SPPLayer.cal_num_grids: 1 + 2 + ... + level. *)
RECURSIVE CalNumGrids(_)
CalNumGrids(level) == IF level = 0 THEN 0 ELSE level + CalNumGrids(level - 1)

RECURSIVE SppWidth(_, _)
SppWidth(h, level) ==
    IF level = 0 THEN 0 ELSE PoolLength(h, level) + SppWidth(h, level - 1)

(* Model.forward accepts the line: every layer's precondition holds, and  *)
(* the pooled width is the one the linear layer was built for.            *)
Accepted(n) ==
    LET lin == PaddedLength(n)
    IN /\ ConvOk(lin)
       /\ \A level \in 1..NumLevels : PoolOk(ConvLength(lin), level)
       /\ SppWidth(ConvLength(lin), NumLevels) = CalNumGrids(NumLevels)
=============================================================================
