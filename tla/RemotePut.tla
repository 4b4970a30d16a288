----------------------------- MODULE RemotePut ------------------------------
(***************************************************************************)
(* A message from bsp_put (bsp.h) to the memory it is for: the queue in    *)
(* the sender's memory, outgoingFlits, the network, the receiver's         *)
(* FlitEngine and port A of its BRAM (Core.bsv).                           *)
(*                                                                         *)
(* The fields of a HEAD are packed and unpacked as numbers, as the code    *)
(* does; a word of data is known by the call it belongs to.  The network   *)
(* is what Router shows of it: it keeps a sender's flits to a receiver in  *)
(* order and does not cut a message in two at the receiver.                *)
(* The barrier is left out: it only removes behaviours of this module.     *)
(***************************************************************************)
EXTENDS Integers, SequencesExt

CONSTANTS Cores,        \* core ids
          Plans,        \* for each core the calls of bsp_put it makes, in order: several
                        \* choices of sequences of [from, to, dest, len]
          AddrSpace,    \* words that 12 bits address (4096)
          MaxBurst,     \* values of the burst field (16)
          FifoDepth,    \* places of a mkFIFO (2)
          NetDepth,     \* bound on the flits between a sender and a receiver
          None          \* no core

Calls == UNION {UNION {Range(plan[c]) : c \in Cores} : plan \in Plans}

ASSUME RemotePutAssumption == /\ Cores \subseteq 0 .. 15
                              /\ \A k \in Calls : /\ {k.from, k.to} \subseteq Cores
                                                    /\ k.dest \in Nat /\ k.len \in Nat
                              /\ AddrSpace \in Nat \ {0} /\ MaxBurst \in Nat \ {0}
                              /\ FifoDepth \in Nat \ {0} /\ NetDepth \in Nat \ {0}
                              /\ None \notin Cores

VARIABLES sending, bspQueue, bspRdPtr,     \* bsp.h
          outgoingFlits,                   \* Core.bsv
          route, net, passing,             \* the network
          incoming, outgoing, engine,      \* FlitEngine.bsv
          bram,                            \* per core, the words written so far
          calls,                           \* history: per core, the calls made
          landed,                          \* history: per pair, its last word written
          latest                           \* history: per core, the last word written there

sendVars == <<sending, bspQueue, bspRdPtr, calls>>
netVars  == <<route, net, passing>>
feVars   == <<incoming, outgoing, engine>>
memVars  == <<bram, landed, latest>>
vars     == <<sendVars, outgoingFlits, netVars, feVars, memVars>>

NoWord == <<>>

Init == /\ sending = [c \in Cores |-> FALSE]
        /\ bspQueue = [c \in Cores |-> <<>>]
        /\ bspRdPtr = [c \in Cores |-> 0]
        /\ outgoingFlits = [c \in Cores |-> <<>>]
        /\ route = [c \in Cores |-> None]
        /\ net = [pair \in Cores \X Cores |-> <<>>]
        /\ passing = [d \in Cores |-> None]
        /\ incoming = [d \in Cores |-> <<>>]
        /\ outgoing = [d \in Cores |-> <<>>]
        /\ engine = [d \in Cores |-> [state |-> "Idle", addr |-> 0, burstCtr |-> 0, burstCtrF |-> 0]]
        /\ bram = [d \in Cores |-> <<>>]
        /\ calls = [c \in Cores |-> <<>>]
        /\ landed = [pair \in Cores \X Cores |-> NoWord]
        /\ latest = [d \in Cores |-> NoWord]

-----------------------------------------------------------------------------
\* Wrong variant: the length is not reduced by one.
PackHeadLength(k) == (k.dest % (4 * AddrSpace))
                       + (k.len % MaxBurst) * (4 * AddrSpace)
                       + (k.to % 16) * (4 * AddrSpace * MaxBurst)

\* The head flit: 14 bits of byte address, 4 bits of length, 4 bits of core.
PackHead(k) == (k.dest % (4 * AddrSpace))
                 + (k.len - 1) * (4 * AddrSpace)
                 + (k.to % 16) * (4 * AddrSpace * MaxBurst)

AddrField(data)  == (data \div 4) % AddrSpace
BurstField(data) == (data \div (4 * AddrSpace)) % MaxBurst
CoreField(data)  == (data \div (4 * AddrSpace * MaxBurst)) % 16

PacketOf(c, number, k) ==
  <<[flitType |-> "HEAD", data |-> PackHead(k)]>>
    \o [i \in 1 .. k.len |-> [flitType |-> "BODY", data |-> <<c, number, i>>]]
    \o <<[flitType |-> "TAIL", data |-> 0]>>

Planned(made) == \E plan \in Plans : \A c \in Cores : IsPrefix(made[c], plan[c])

\* A computation calls bsp_put.
bsp_put(c, k) ==
  /\ k.from = c
  /\ ~sending[c]
  /\ calls' = [calls EXCEPT ![c] = Append(@, k)]
  /\ Planned(calls')
  /\ bspQueue' = IF k.len \in 1 .. MaxBurst
                 THEN [bspQueue EXCEPT ![c] = @ \o PacketOf(c, Len(calls[c]) + 1, k)]
                 ELSE bspQueue
  /\ UNCHANGED <<sending, bspRdPtr, outgoingFlits, netVars, feVars, memVars>>

\* bsp_sync has seen START: it sends what is queued, ...
BeginSend(c) ==
  /\ ~sending[c] /\ bspQueue[c] # <<>>
  /\ sending' = [sending EXCEPT ![c] = TRUE]
  /\ bspRdPtr' = [bspRdPtr EXCEPT ![c] = 0]
  /\ UNCHANGED <<bspQueue, calls, outgoingFlits, netVars, feVars, memVars>>

\* Wrong variant: the store does not wait.
SendFlitUnguarded(c) ==
  /\ sending[c] /\ bspRdPtr[c] < Len(bspQueue[c])
  /\ bspRdPtr' = [bspRdPtr EXCEPT ![c] = @ + 1]
  /\ outgoingFlits' = [outgoingFlits EXCEPT ![c] = Append(@, bspQueue[c][bspRdPtr[c] + 1])]
  /\ UNCHANGED <<sending, bspQueue, calls, netVars, feVars, memVars>>

\* ... a flit at a time, a store that waits for room in outgoingFlits, ...
SendFlit(c) ==
  /\ sending[c] /\ bspRdPtr[c] < Len(bspQueue[c])
  /\ Len(outgoingFlits[c]) < FifoDepth
  /\ bspRdPtr' = [bspRdPtr EXCEPT ![c] = @ + 1]
  /\ outgoingFlits' = [outgoingFlits EXCEPT ![c] = Append(@, bspQueue[c][bspRdPtr[c] + 1])]
  /\ UNCHANGED <<sending, bspQueue, calls, netVars, feVars, memVars>>

\* Wrong variant: the queue keeps what has been sent.
EndSendNoReset(c) ==
  /\ sending[c] /\ bspRdPtr[c] = Len(bspQueue[c])
  /\ sending' = [sending EXCEPT ![c] = FALSE]
  /\ UNCHANGED <<bspQueue, bspRdPtr, calls, outgoingFlits, netVars, feVars, memVars>>

\* ... and takes the queue back to its beginning.
EndSend(c) ==
  /\ sending[c] /\ bspRdPtr[c] = Len(bspQueue[c])
  /\ sending' = [sending EXCEPT ![c] = FALSE]
  /\ bspQueue' = [bspQueue EXCEPT ![c] = <<>>]
  /\ UNCHANGED <<bspRdPtr, calls, outgoingFlits, netVars, feVars, memVars>>

-----------------------------------------------------------------------------
\* The network: the HEAD fixes the way of the flits behind it, until the TAIL.
corePut(c) ==
  /\ outgoingFlits[c] # <<>>
  /\ LET flit == Head(outgoingFlits[c])
         d    == IF flit.flitType = "HEAD" THEN CoreField(flit.data) ELSE route[c]
     IN  /\ Len(net[<<c, d>>]) < NetDepth
         /\ net' = [net EXCEPT ![<<c, d>>] = Append(@, flit)]
         /\ route' = [route EXCEPT ![c] = IF flit.flitType = "TAIL" THEN None ELSE d]
  /\ outgoingFlits' = [outgoingFlits EXCEPT ![c] = Tail(@)]
  /\ UNCHANGED <<sendVars, passing, feVars, memVars>>

\* Wrong variant: a receiver is not given back at a TAIL.
PassingKept(flit, c) == c

\* Whose message is passing at a receiver that has let a flit of c through.
PassingAfter(flit, c) == IF flit.flitType = "TAIL" THEN None ELSE c

\* A flit from c comes out at d, if d is not in the middle of the message of
\* another core.  putFlit passes it on to the engine, except a HEAD that
\* names another core.
coreGet(c, d) ==
  /\ net[<<c, d>>] # <<>>
  /\ passing[d] \in {None, c}
  /\ Len(incoming[d]) < FifoDepth
  /\ LET flit == Head(net[<<c, d>>])
     IN  /\ passing' = [passing EXCEPT ![d] = PassingAfter(flit, c)]
         /\ incoming' = IF flit.flitType = "HEAD" /\ CoreField(flit.data) # d THEN incoming
                        ELSE [incoming EXCEPT ![d] = Append(@, flit)]
  /\ net' = [net EXCEPT ![<<c, d>>] = Tail(@)]
  /\ UNCHANGED <<sendVars, outgoingFlits, route, outgoing, engine, memVars>>

-----------------------------------------------------------------------------
\* Whatever flit comes when the engine is idle is taken for a HEAD.
handleHeadFlit(d) ==
  /\ engine[d].state = "Idle" /\ incoming[d] # <<>>
  /\ LET data == Head(incoming[d]).data
     IN  engine' = [engine EXCEPT ![d] = [state |-> "Handling", addr |-> AddrField(data),
                                          burstCtr |-> BurstField(data), burstCtrF |-> @.burstCtr]]
  /\ incoming' = [incoming EXCEPT ![d] = Tail(@)]
  /\ UNCHANGED <<sendVars, outgoingFlits, netVars, outgoing, memVars>>

\* A BODY needs room in outgoing, a TAIL does not.
handleBodyFlit(d) ==
  /\ engine[d].state = "Handling" /\ incoming[d] # <<>>
  /\ LET flit == Head(incoming[d])
     IN  CASE flit.flitType = "BODY" ->
                /\ Len(outgoing[d]) < FifoDepth
                /\ outgoing' = [outgoing EXCEPT ![d] =
                     Append(@, [addr |-> engine[d].addr, word |-> flit.data])]
                /\ engine' = [engine EXCEPT ![d].burstCtrF = engine[d].burstCtr,
                                            ![d].burstCtr = (@ + MaxBurst - 1) % MaxBurst,
                                            ![d].addr = (@ + 1) % AddrSpace]
           [] flit.flitType = "TAIL" ->
                /\ engine' = [engine EXCEPT ![d].burstCtrF = engine[d].burstCtr, ![d].state = "Idle"]
                /\ UNCHANGED outgoing
           [] OTHER ->
                /\ engine' = [engine EXCEPT ![d].burstCtrF = engine[d].burstCtr]
                /\ UNCHANGED outgoing
  /\ incoming' = [incoming EXCEPT ![d] = Tail(@)]
  /\ UNCHANGED <<sendVars, outgoingFlits, netVars, memVars>>

\* Port A of the BRAM takes the engine's request before the core's own.
requestFE(d) ==
  /\ outgoing[d] # <<>>
  /\ LET req == Head(outgoing[d])
     IN  /\ bram' = [bram EXCEPT ![d] = [a \in DOMAIN @ \cup {req.addr} |->
                                           IF a = req.addr THEN req.word ELSE @[a]]]
         /\ landed' = [landed EXCEPT ![<<req.word[1], d>>] = req.word]
         /\ latest' = [latest EXCEPT ![d] = req.word]
  /\ outgoing' = [outgoing EXCEPT ![d] = Tail(@)]
  /\ UNCHANGED <<sendVars, outgoingFlits, netVars, incoming, engine>>

Next == \E c \in Cores : \/ \E k \in Calls : bsp_put(c, k)
                         \/ BeginSend(c) \/ SendFlit(c) \/ EndSend(c)
                         \/ corePut(c)
                         \/ \E d \in Cores : coreGet(c, d)
                         \/ handleHeadFlit(c) \/ handleBodyFlit(c) \/ requestFE(c)

Spec == Init /\ [][Next]_vars

\* Rules fire when they can, the network delivers, and a program that has
\* called bsp_put calls bsp_sync; it need not call bsp_put.
Fairness ==
  \A c \in Cores : /\ WF_vars(BeginSend(c)) /\ WF_vars(SendFlit(c)) /\ WF_vars(EndSend(c))
                   /\ WF_vars(corePut(c))
                   /\ \A d \in Cores : WF_vars(coreGet(c, d))
                   /\ WF_vars(handleHeadFlit(c)) /\ WF_vars(handleBodyFlit(c))
                   /\ WF_vars(requestFE(c))

FairSpec == Spec /\ Fairness

-----------------------------------------------------------------------------
FlitTypes == {"HEAD", "BODY", "TAIL"}

\* Type invariant: FIFOs within their capacity, fields within their width.
TypeOK ==
  /\ sending \in [Cores -> BOOLEAN]
  /\ \A c \in Cores : /\ bspRdPtr[c] \in 0 .. Len(bspQueue[c]) \/ ~sending[c]
                      /\ Len(outgoingFlits[c]) <= FifoDepth
                      /\ Len(incoming[c]) <= FifoDepth
                      /\ Len(outgoing[c]) <= FifoDepth
                      /\ \A k \in 1 .. Len(outgoing[c]) : outgoing[c][k].addr \in 0 .. AddrSpace - 1
                      /\ DOMAIN bram[c] \subseteq 0 .. AddrSpace - 1
  /\ route \in [Cores -> Cores \cup {None}]
  /\ passing \in [Cores -> Cores \cup {None}]
  /\ engine \in [Cores -> [state : {"Idle", "Handling"}, addr : 0 .. AddrSpace - 1,
                           burstCtr : 0 .. MaxBurst - 1, burstCtrF : 0 .. MaxBurst - 1]]

\* None of FlitEngine's three error messages is ever written: a message
\* begins with its HEAD ("Engine received non-head packet in IDLE state"),
\* has no other HEAD before its TAIL ("another head packet before a tail"),
\* and at its TAIL the length field of the HEAD has been counted down to 0
\* by the register that trails the counter ("Burst counter did not go to 0").
EngineNeverComplains ==
  \A d \in Cores : incoming[d] # <<>> =>
    LET type == Head(incoming[d]).flitType
    IN  IF engine[d].state = "Idle" THEN type = "HEAD"
        ELSE /\ type # "HEAD"
             /\ type = "TAIL" => engine[d].burstCtrF = 0

\* FIFOs and fields are within their bounds and the engine has no complaint.
EngineInv == TypeOK /\ EngineNeverComplains

\* The call of a word of data, the words of it that come behind, and its place.
CallOf(made, word)    == made[word[1]][word[2]]
Left(made, word)      == CallOf(made, word).len - word[3]
AddressOf(made, word) == (CallOf(made, word).dest \div 4 + word[3] - 1) % AddrSpace

WordsOf(made) ==
  {word \in UNION {{c} \X (1 .. Len(made[c])) \X (1 .. MaxBurst) : c \in Cores} :
     CallOf(made, word).len \in word[3] .. MaxBurst}

\* The word in front of a word in its message, and a word if one is to follow it.
FrontOf(word)    == IF word[3] = 1 THEN NoWord ELSE <<word[1], word[2], word[3] - 1>>
Open(made, word) == IF word = NoWord THEN NoWord
                    ELSE IF Left(made, word) = 0 THEN NoWord ELSE word

FlitOK(made, flit) ==
  CASE flit.flitType = "HEAD" -> flit.data \in Nat /\ CoreField(flit.data) \in Cores
    [] flit.flitType = "BODY" -> flit.data \in WordsOf(made)
    [] OTHER -> flit.flitType = "TAIL"

IsStream(made, s) == /\ Len(s) \in Nat /\ s = [k \in 1 .. Len(s) |-> s[k]]
                     /\ \A k \in 1 .. Len(s) : FlitOK(made, s[k])

\* Where a stream of flits is between two of them: how many words are to come
\* before the TAIL, where the next one goes, and which one is in front of it.
NoMessage == [left |-> -1, addr |-> 0, to |-> None, front |-> NoWord]
OnlyTail  == [left |-> 0, addr |-> 0, to |-> None, front |-> NoWord]
Within(left, addr, to, front) ==
  IF left = 0 THEN OnlyTail ELSE [left |-> left, addr |-> addr, to |-> to, front |-> front]

Before(made, flit) ==
  CASE flit.flitType = "HEAD" -> NoMessage
    [] flit.flitType = "BODY" -> Within(Left(made, flit.data) + 1, AddressOf(made, flit.data),
                                        CallOf(made, flit.data).to, FrontOf(flit.data))
    [] OTHER -> OnlyTail

After(made, flit) ==
  CASE flit.flitType = "HEAD" -> Within(BurstField(flit.data) + 1, AddrField(flit.data),
                                        CoreField(flit.data), NoWord)
    [] flit.flitType = "BODY" -> Within(Left(made, flit.data),
                                        (AddressOf(made, flit.data) + 1) % AddrSpace,
                                        CallOf(made, flit.data).to, flit.data)
    [] OTHER -> NoMessage

\* Flits that lead from one place in a stream to another.
Chain(made, s, start, end) ==
  IF s = <<>> THEN start = end
  ELSE /\ Before(made, s[1]) = start
       /\ After(made, s[Len(s)]) = end
       /\ \A k \in 1 .. Len(s) - 1 : After(made, s[k]) = Before(made, s[k + 1])

EndOf(made, s, start) == IF s = <<>> THEN start ELSE After(made, s[Len(s)])

\* Where core c is with what it has handed to outgoingFlits, and to the network.
Queued(c)   == IF sending[c] /\ bspRdPtr[c] > 0 THEN After(calls, bspQueue[c][bspRdPtr[c]])
               ELSE NoMessage
Upcoming(c) == IF outgoingFlits[c] = <<>> THEN Queued(c)
               ELSE Before(calls, outgoingFlits[c][1])

\* A queue has whole messages, what follows a flit in it follows it in
\* outgoingFlits, and a way is kept for as long as a message is under way.
SendersInOrder ==
  \A c \in Cores : /\ Chain(calls, bspQueue[c], NoMessage, NoMessage)
                   /\ Chain(calls, outgoingFlits[c], Upcoming(c), Queued(c))
                   /\ route[c] = None <=> Upcoming(c) = NoMessage

\* An engine that has "left" words to come of a message (-1: no message).  The
\* counter alone does not tell 0 from MaxBurst.
EngineAt(e, left) ==
  IF left = -1 THEN e.state = "Idle"
  ELSE /\ e.state = "Handling"
       /\ e.burstCtr = (left + MaxBurst - 1) % MaxBurst
       /\ left = 0 => e.burstCtrF = 0

\* The word that engine d has handled last.
Recent(d) == IF outgoing[d] = <<>> THEN latest[d] ELSE outgoing[d][Len(outgoing[d])].word

Handled(d, left) == IF left = -1 THEN NoMessage
                    ELSE Within(left, engine[d].addr, d, Open(calls, Recent(d)))

\* From the engine back through incoming and the network to its senders, each
\* receiver has messages that are whole and not cut.
ReceiversInOrder ==
  \A d \in Cores : \E left \in -1 .. MaxBurst :
    LET end == EndOf(calls, incoming[d], Handled(d, left))
    IN  /\ EngineAt(engine[d], left)
        /\ left <= 0 => Open(calls, Recent(d)) = NoWord
        /\ Chain(calls, incoming[d], Handled(d, left), end)
        /\ passing[d] = None <=> end = NoMessage
        /\ \A c \in Cores : Chain(calls, net[<<c, d>>],
                                  IF passing[d] = c THEN end ELSE NoMessage,
                                  IF route[c] = d THEN Upcoming(c) ELSE NoMessage)

NamesCore(s, d) == \A k \in 1 .. Len(s) : s[k].flitType = "HEAD" => CoreField(s[k].data) = d

\* No HEAD comes to a core that it does not name.
HeadsArrive == \A d \in Cores : /\ NamesCore(incoming[d], d)
                                /\ \A c \in Cores : NamesCore(net[<<c, d>>], d)

IsFor(made, word, d, a) == CallOf(made, word).to = d /\ AddressOf(made, word) = a

\* Every word that port A has written, or is to write, is in the memory and
\* at the address that its call of bsp_put names.
WordsInPlace ==
  \A d \in Cores : /\ \A a \in DOMAIN bram[d] : IsFor(calls, bram[d][a], d, a)
                   /\ \A k \in 1 .. Len(outgoing[d]) :
                        IsFor(calls, outgoing[d][k].word, d, outgoing[d][k].addr)

\* Words come to a memory message by message: each behind the one in front of
\* it, and the first of a message behind the last of another.
WordsJoined ==
  \A d \in Cores : \A k \in 1 .. Len(outgoing[d]) :
    FrontOf(outgoing[d][k].word) =
      Open(calls, IF k = 1 THEN latest[d] ELSE outgoing[d][k - 1].word)

\* What flows where.
StreamsOK ==
  /\ calls \in [Cores -> Seq(Calls)]
  /\ bspRdPtr \in [Cores -> Nat]
  /\ \A c \in Cores : /\ IsStream(calls, bspQueue[c])
                      /\ IsStream(calls, outgoingFlits[c])
                      /\ \A d \in Cores : IsStream(calls, net[<<c, d>>])
                      /\ IsStream(calls, incoming[c])
                      /\ outgoing[c] \in Seq([addr : 0 .. AddrSpace - 1, word : WordsOf(calls)])
                      /\ \A a \in DOMAIN bram[c] : bram[c][a] \in WordsOf(calls)
  /\ latest \in [Cores -> {NoWord} \cup WordsOf(calls)]
  /\ DOMAIN bspQueue = Cores /\ DOMAIN outgoingFlits = Cores /\ DOMAIN net = Cores \X Cores
  /\ DOMAIN incoming = Cores /\ DOMAIN outgoing = Cores /\ DOMAIN bram = Cores

-----------------------------------------------------------------------------
\* Words from core c to core d, and those of them that come behind another.
FromTo(made, word, c, d) == word # NoWord /\ word[1] = c /\ CallOf(made, word).to = d

Ahead(v, w)        == v[2] < w[2] \/ (v[2] = w[2] /\ v[3] < w[3])
Behind(word, last) == last = NoWord \/ Ahead(last, word)

Due(made, c, d, last) == {word \in WordsOf(made) : FromTo(made, word, c, d) /\ Behind(word, last)}

\* Flits carry words of the core they come from, to the core they come out at.
AllFrom(s, c) == \A k \in 1 .. Len(s) : s[k].flitType = "BODY" => s[k].data[1] = c

AllFromTo(made, s, c, d) ==
  \A k \in 1 .. Len(s) : s[k].flitType = "BODY" => FromTo(made, s[k].data, c, d)

RightWay ==
  \A c \in Cores :
    /\ AllFrom(bspQueue[c], c) /\ AllFrom(outgoingFlits[c], c)
    /\ route[c] # None /\ Upcoming(c).left > 0 => Upcoming(c).to = route[c]
    /\ \A d \in Cores : AllFromTo(calls, net[<<c, d>>], c, d)

\* The words in a stream, behind the first n flits, and in requests of an engine.
WordIn(flit)  == IF flit.flitType = "BODY" THEN flit.data ELSE NoWord
Carried(s, n) == [k \in 1 .. Len(s) - n |-> WordIn(s[n + k])]
Asked(reqs)   == [k \in 1 .. Len(reqs) |-> reqs[k].word]

\* What is on its way from c to d: five places, the memory's port first.
Sent(c)     == IF sending[c] THEN bspRdPtr[c] ELSE 0
Trail(c, d) == <<Asked(outgoing[d]), Carried(incoming[d], 0), Carried(net[<<c, d>>], 0),
                 Carried(outgoingFlits[c], 0), Carried(bspQueue[c], Sent(c))>>

\* The words of c for d that are not written are on the trail, each once, in
\* order, and nothing else of theirs is.
InOrder(made, trail, c, d, last) ==
  /\ \A p \in 1 .. 5 : \A i \in 1 .. Len(trail[p]) : FromTo(made, trail[p][i], c, d) =>
       /\ Behind(trail[p][i], last)
       /\ \A q \in p .. 5 : \A j \in 1 .. Len(trail[q]) :
            (p < q \/ i < j) /\ FromTo(made, trail[q][j], c, d) => Ahead(trail[p][i], trail[q][j])
  /\ \A word \in Due(made, c, d, last) :
       \E p \in 1 .. 5 : \E i \in 1 .. Len(trail[p]) : trail[p][i] = word

\* A message that is not written to its end is the one written last.
LandedInOrder ==
  \A c, d \in Cores :
    /\ landed[<<c, d>>] # NoWord => /\ landed[<<c, d>>] \in WordsOf(calls)
                                    /\ FromTo(calls, landed[<<c, d>>], c, d)
    /\ landed[<<c, d>>] = latest[d] \/ Open(calls, landed[<<c, d>>]) = NoWord
    /\ InOrder(calls, Trail(c, d), c, d, landed[<<c, d>>])

\* The inductive invariant: EngineInv, and what it follows from; and the order
\* in which words land.
IInv == /\ EngineInv /\ StreamsOK /\ WordsInPlace /\ WordsJoined
        /\ SendersInOrder /\ ReceiversInOrder /\ HeadsArrive
        /\ RightWay /\ DOMAIN landed = Cores \X Cores /\ LandedInOrder

\* What is still to be written of the calls of c to d.
Remaining(c, d) == {[addr |-> AddressOf(calls, word), word |-> word] :
                      word \in Due(calls, c, d, landed[<<c, d>>])}

Called == [c \in Cores |-> Len(calls[c])]
Todo   == [pair \in Cores \X Cores |-> Remaining(pair[1], pair[2])]

Remote == INSTANCE RemoteMemory WITH mem <- bram, called <- Called, todo <- Todo

\* Queue, FIFOs, network, engine and memory port together write each word of
\* each call once, in order, where the call says, and a message at a time.
ImplementsRemoteMemory == Remote!Spec

\* Every word that was put is written in the end: the chain of FIFOs, each of
\* which holds up the one before it when it is full, does not block.
EveryWordLands == <>[](\A c, d \in Cores : Remaining(c, d) = {})

=============================================================================
