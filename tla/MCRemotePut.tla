---------------------------- MODULE MCRemotePut -----------------------------
(***************************************************************************)
(* RemotePut with the widths of the source: 4096 words, bursts of 16.      *)
(***************************************************************************)
EXTENDS RemotePut

Put(c, core, address, length) == [from |-> c, to |-> core, dest |-> address, len |-> length]

\* Two cores write to overlapping places of one of them, one of them round
\* the end of the memory and with an address that is not that of a word.
OverlappingCalls == {[c \in {0, 1} |-> IF c = 0 THEN <<Put(0, 0, 16380, 3)>> ELSE <<k>>] :
                       k \in {Put(1, 0, 16382, 2), Put(1, 1, 0, 1)}}

\* A core calls twice: to different cores or the same, with the greatest length
\* and with one that bsp_put refuses.
CallsInSequence == {[c \in {0, 1} |-> IF c = 0 THEN <<k, l>> ELSE <<>>] :
                      k, l \in {Put(0, 1, 64, 16), Put(0, 0, 8, 1), Put(0, 1, 4, 17)}}

MCPlans == OverlappingCalls \cup CallsInSequence

=============================================================================
