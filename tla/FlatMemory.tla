----------------------------- MODULE FlatMemory -----------------------------
(***************************************************************************)
(* What the data side of the caches promises the core: a memory without    *)
(* caches.  Requests are served one at a time, in order; a load is         *)
(* answered with what the stores before it wrote, a store with anything.   *)
(***************************************************************************)
EXTENDS Sequences

CONSTANTS Requests,  \* [line, offset, bytes, data]; a load has no bytes
          Contents,  \* what memory holds at first: line -> offset -> byte -> value
          Ack        \* the answer to a store

VARIABLES mem, waiting, answers

vars == <<mem, waiting, answers>>

Merged(word, r) == [b \in DOMAIN word |-> IF b \in r.bytes THEN r.data[b] ELSE word[b]]

AnswerTo(r) == IF r.bytes = {} THEN mem[r.line][r.offset] ELSE Ack

Serve(r) == /\ mem' = [mem EXCEPT ![r.line][r.offset] = Merged(@, r)]
            /\ answers' = Append(answers, AnswerTo(r))

Init == mem = Contents /\ waiting = <<>> /\ answers = <<>>

Accept(r) == /\ waiting = <<>>
             /\ waiting' = <<r>>
             /\ UNCHANGED <<mem, answers>>

\* At once, when nobody waits.
AcceptAndServe(r) == waiting = <<>> /\ Serve(r) /\ UNCHANGED waiting

ServeWaiting == /\ waiting # <<>>
                /\ Serve(Head(waiting))
                /\ waiting' = Tail(waiting)

Answer == /\ answers # <<>>
          /\ answers' = Tail(answers)
          /\ UNCHANGED <<mem, waiting>>

Next == \/ \E r \in Requests : Accept(r) \/ AcceptAndServe(r)
        \/ ServeWaiting \/ Answer

Spec == Init /\ [][Next]_vars

=============================================================================
