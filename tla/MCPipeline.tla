----------------------------- MODULE MCPipeline ------------------------------
(***************************************************************************)
(* Small instruction sets for the pipeline.  What matters for forwarding   *)
(* is where a value comes from (a response, the ALU, a jump's link), how   *)
(* many writes there are and what may come between a write and a read.     *)
(***************************************************************************)
EXTENDS Pipeline

I(k, d, r) == [kind |-> k, rd |-> d, reads |-> r]

Load       == I("mem", "r", FALSE)
LinkJump   == I("control", "r", FALSE)
Branch     == I("control", "none", TRUE)
WriteOther == I("alu", "another", FALSE)
Use        == I("alu", "none", TRUE)

\* Values that come late or at once, readers, jumps taken or not, and writes of
\* other registers.
Program == {Load, LinkJump, Branch, WriteOther}

\* A program that never jumps.
StraightLine == {Load, WriteOther, Use}

=============================================================================
