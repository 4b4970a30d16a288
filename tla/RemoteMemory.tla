---------------------------- MODULE RemoteMemory ----------------------------
(***************************************************************************)
(* What bsp_put promises: the words of a call are written to consecutive   *)
(* words of the other core's memory, each once and in order, in the order  *)
(* of the calls, and at the receiving core no other message's words come   *)
(* between them.                                                           *)
(***************************************************************************)
EXTENDS Integers

CONSTANTS Cores,
          Calls,        \* the calls of bsp_put: [from, to, dest, len]
          AddrSpace,    \* words of a memory
          MaxBurst      \* greatest number of words of a call

VARIABLES mem,          \* per core, its words that have been written
          called,       \* per core, the number of calls made
          todo          \* for each sender and receiver, the writes to come

vars == <<mem, called, todo>>

\* Word i of a call goes to the i-th word from dest, round the end of memory.
\* A word is known by its sender, the number of the call and its place there.
WritesOf(c, number, k) ==
  {[addr |-> (k.dest \div 4 + i - 1) % AddrSpace, word |-> <<c, number, i>>] : i \in 1 .. k.len}

Init == /\ mem = [c \in Cores |-> <<>>]
        /\ called = [c \in Cores |-> 0]
        /\ todo = [pair \in Cores \X Cores |-> {}]

\* A call whose length is out of bounds does nothing.
Call(c, k) ==
  /\ called' = [called EXCEPT ![c] = @ + 1]
  /\ todo' = IF k.len \in 1 .. MaxBurst
             THEN [todo EXCEPT ![<<c, k.to>>] = @ \cup WritesOf(c, called[c] + 1, k)]
             ELSE todo
  /\ UNCHANGED mem

\* The order of the words of one sender: by call, then by place.
Ahead(v, w) == v[2] < w[2] \/ (v[2] = w[2] /\ v[3] < w[3])

IsNext(write, writes) == /\ write \in writes
                         /\ \A other \in writes \ {write} : Ahead(write.word, other.word)

\* The words of a message of c are being written at d.
Amid(c, d) == \E write \in todo[<<c, d>>] : IsNext(write, todo[<<c, d>>]) /\ write.word[3] > 1

Write(c, d) ==
  \E write \in todo[<<c, d>>] :
    /\ IsNext(write, todo[<<c, d>>])
    /\ \A other \in Cores \ {c} : ~Amid(other, d)
    /\ mem' = [mem EXCEPT ![d] = [a \in DOMAIN @ \cup {write.addr} |->
                                    IF a = write.addr THEN write.word ELSE @[a]]]
    /\ todo' = [todo EXCEPT ![<<c, d>>] = @ \ {write}]
    /\ UNCHANGED called

Next == \/ \E k \in Calls : Call(k.from, k)
        \/ \E c, d \in Cores : Write(c, d)

Spec == Init /\ [][Next]_vars

=============================================================================
