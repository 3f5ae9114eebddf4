---------------------------- MODULE WsHubProofs ----------------------------
(***************************************************************************)
(* Proofs about WsHub, for any set of clients, any capacities of the       *)
(* channels and any number of messages.  LoopInv is what keeps the hub     *)
(* from panicking; StreamInv follows the numbers of the messages through   *)
(* the channel of a client to what was written to its connection.          *)
(***************************************************************************)
EXTENDS WsHub, TLAPS

USE HubAssumption

Msgs == 1..MaxMsgs

\* The successor of its last message may be appended to an unbroken run.
LEMMA AppendContiguous ==
    ASSUME NEW s \in Seq(Msgs), NEW e \in Msgs, Contiguous(s),
           s # <<>> => e = s[Len(s)] + 1
    PROVE  /\ Append(s, e) \in Seq(Msgs) /\ Contiguous(Append(s, e)) /\ Append(s, e) # <<>>
           /\ Append(s, e)[Len(Append(s, e))] = e
           /\ Append(s, e)[1] = IF s = <<>> THEN e ELSE s[1]
<1>1. /\ Append(s, e) \in Seq(Msgs) /\ Len(s) \in Nat
      /\ Len(Append(s, e)) = Len(s) + 1
      /\ Append(s, e)[Len(s) + 1] = e
      /\ \A i \in 1..Len(s) : Append(s, e)[i] = s[i]
      /\ s = <<>> <=> Len(s) = 0
  OBVIOUS
<1>2. Contiguous(Append(s, e))
  <2>1. ASSUME NEW i \in 1..Len(s) PROVE Append(s, e)[i + 1] = Append(s, e)[i] + 1
    <3>1. CASE i = Len(s)
      BY <1>1, <3>1
    <3>2. CASE i # Len(s)
      <4>1. i \in 1..(Len(s) - 1) /\ i + 1 \in 1..Len(s)
        BY <1>1, <3>2
      <4>2. QED
        BY <1>1, <4>1 DEF Contiguous
    <3>3. QED
      BY <3>1, <3>2
  <2>2. QED
    BY <1>1, <2>1 DEF Contiguous
<1>3. QED
  BY <1>1, <1>2

\* An unbroken run without its first message is one.
LEMMA TailContiguous ==
    ASSUME NEW s \in Seq(Msgs), s # <<>>, Contiguous(s)
    PROVE  /\ Tail(s) \in Seq(Msgs) /\ Contiguous(Tail(s))
           /\ Head(s) = s[1] /\ s[1] \in Msgs
           /\ Tail(s) = <<>> => s[1] = s[Len(s)]
           /\ Tail(s) # <<>> => Tail(s)[1] = s[1] + 1 /\ Tail(s)[Len(Tail(s))] = s[Len(s)]
<1>1. /\ Tail(s) \in Seq(Msgs) /\ Len(s) \in Nat \ {0}
      /\ Head(s) = s[1] /\ s[1] \in Msgs
      /\ Len(Tail(s)) = Len(s) - 1
      /\ \A i \in 1..(Len(s) - 1) : Tail(s)[i] = s[i + 1]
      /\ Tail(s) = <<>> <=> Len(s) = 1
  <2>1. Len(s) \in Nat \ {0} /\ Tail(s) \in Seq(Msgs) /\ Len(Tail(s)) = Len(s) - 1
    OBVIOUS
  <2>2. Tail(s) = <<>> <=> Len(Tail(s)) = 0
    BY <2>1
  <2>3. s[1] \in Msgs /\ Head(s) = s[1]
    BY <2>1
  <2>4. \A i \in 1..(Len(s) - 1) : Tail(s)[i] = s[i + 1]
    OBVIOUS
  <2>5. QED
    BY <2>1, <2>2, <2>3, <2>4
<1>2. Contiguous(Tail(s))
  <2>1. ASSUME NEW i \in 1..(Len(s) - 1 - 1) PROVE Tail(s)[i + 1] = Tail(s)[i] + 1
    <3>1. i \in 1..(Len(s) - 1) /\ i + 1 \in 1..(Len(s) - 1)
      BY <1>1
    <3>2. s[(i + 1) + 1] = s[i + 1] + 1
      BY <3>1 DEF Contiguous
    <3>3. QED
      BY <1>1, <3>1, <3>2
  <2>2. QED
    BY <1>1, <2>1 DEF Contiguous
<1>3. Tail(s) # <<>> => Tail(s)[1] = s[1] + 1 /\ Tail(s)[Len(Tail(s))] = s[Len(s)]
  <2> SUFFICES ASSUME Len(s) # 1
               PROVE  Tail(s)[1] = s[1] + 1 /\ Tail(s)[Len(s) - 1] = s[Len(s)]
    BY <1>1
  <2>1. 1 \in 1..(Len(s) - 1) /\ Len(s) - 1 \in 1..(Len(s) - 1) /\ (Len(s) - 1) + 1 = Len(s)
    BY <1>1
  <2>2. QED
    BY <1>1, <2>1 DEF Contiguous
<1>4. QED
  BY <1>1, <1>2, <1>3

\* The stream of a client that a step leaves alone; leaving the map or losing its
\* writePump only frees it.
LEMMA StreamKeeps ==
    ASSUME NEW c \in Clients, StreamInv(c),
           send'[c] = send[c], out'[c] = out[c],
           wpc'[c] # "gone" => wpc[c] # "gone",
           c \in clients' => c \in clients /\ LastFor(c)' = LastFor(c)
    PROVE  StreamInv(c)'
  BY DEF StreamInv, Contiguous

-----------------------------------------------------------------------------
(* Broadcast, HandleWS and the pumps' ends *)

\* A new message enters the broadcast channel.
LEMMA BroadcastKeeps == ASSUME IInv, Broadcast PROVE IInv'
<1> USE DEF IInv
<1>1. /\ nmsg < MaxMsgs /\ Len(broadcast) < BroadcastCap
      /\ nmsg' = nmsg + 1 /\ broadcast' = Append(broadcast, nmsg + 1)
      /\ UNCHANGED <<clients, hpc, hmsg, todo, send, closed, cpc, rpc, wpc, conn, out>>
  BY DEF Broadcast, loopVars, pumpVars
<1>2. nmsg + 1 \in Msgs /\ nmsg \in Nat /\ hmsg \in Nat
  BY <1>1 DEF TypeOK, Msgs
<1>3. /\ broadcast' \in Seq(Msgs) /\ Len(broadcast) \in Nat
      /\ Len(broadcast') = Len(broadcast) + 1
      /\ broadcast'[Len(broadcast) + 1] = nmsg + 1
      /\ \A i \in 1..Len(broadcast) : broadcast'[i] = broadcast[i]
  BY <1>1, <1>2 DEF TypeOK, Msgs
<1>4. TypeOK'
  BY <1>1, <1>2, <1>3 DEF TypeOK, Msgs
<1>5. LoopInv'
  <2>1. nmsg' = hmsg + Len(broadcast')
    BY <1>1, <1>2, <1>3 DEF LoopInv
  <2>2. \A i \in 1..Len(broadcast') : broadcast'[i] = hmsg + i
    <3>1. ASSUME NEW i \in 1..Len(broadcast') PROVE broadcast'[i] = hmsg + i
      <4>1. i \in 1..Len(broadcast) \/ i = Len(broadcast) + 1
        BY <1>3
      <4>2. CASE i \in 1..Len(broadcast)
        BY <1>3, <4>2 DEF LoopInv
      <4>3. CASE i = Len(broadcast) + 1
        <5>1. nmsg + 1 = hmsg + (Len(broadcast) + 1)
          BY <1>2, <1>3 DEF LoopInv
        <5>2. QED
          BY <1>3, <4>3, <5>1
      <4>4. QED
        BY <4>1, <4>2, <4>3
    <3>2. QED
      BY <3>1
  <2>3. QED
    BY <1>1, <2>1, <2>2 DEF LoopInv, NoPanic
<1>6. RegisterInv'
  BY <1>1 DEF RegisterInv
<1>7. \A c \in Clients : StreamInv(c)'
  BY <1>1, StreamKeeps DEF LastFor
<1>8. QED
  BY <1>4, <1>5, <1>6, <1>7

\* HandleWS and the ends of the two pumps move no message.
LEMMA ClientMovesKeep ==
    ASSUME IInv, NEW c \in Clients,
           HandleWS(c) \/ StartPumps(c) \/ ReadFails(c) \/ ReadCloses(c) \/ WriteEnds(c)
    PROVE  IInv'
<1> USE DEF IInv
<1>1. UNCHANGED <<clients, broadcast, nmsg, hpc, hmsg, todo, send, closed, out>>
  BY DEF HandleWS, StartPumps, ReadFails, ReadCloses, WriteEnds, WriteGone, loopVars, pumpVars
<1>2. /\ cpc' \in [Clients -> {"new", "register", "registered", "returned"}]
      /\ rpc' \in [Clients -> {"none", "read", "unregister", "close", "gone"}]
      /\ wpc' \in [Clients -> {"none", "write", "gone"}]
      /\ conn' \in [Clients -> {"none", "open", "closed"}]
  <2>1. CASE HandleWS(c) \/ StartPumps(c)
    BY <2>1 DEF HandleWS, StartPumps, TypeOK
  <2>2. CASE ReadFails(c) \/ ReadCloses(c)
    BY <2>2 DEF ReadFails, ReadCloses, TypeOK
  <2>3. CASE WriteEnds(c)
    BY <2>3 DEF WriteEnds, WriteGone, TypeOK
  <2>4. QED
    BY <2>1, <2>2, <2>3
<1>3. /\ \A d \in Clients : cpc'[d] \in {"new", "register"} => cpc[d] \in {"new", "register"}
      /\ \A d \in Clients : wpc'[d] # "none" => cpc'[d] = "returned"
      /\ \A d \in Clients : wpc'[d] # "gone" => wpc[d] # "gone"
  <2>1. CASE HandleWS(c)
    BY <2>1 DEF HandleWS, pumpVars, TypeOK, RegisterInv
  <2>2. CASE StartPumps(c)
    BY <2>2 DEF StartPumps, TypeOK, RegisterInv
  <2>3. CASE ReadFails(c) \/ ReadCloses(c)
    BY <2>3 DEF ReadFails, ReadCloses, TypeOK, RegisterInv
  <2>4. CASE WriteEnds(c)
    BY <2>4 DEF WriteEnds, WriteGone, TypeOK, RegisterInv
  <2>5. QED
    BY <2>1, <2>2, <2>3, <2>4
<1>4. TypeOK'
  BY <1>1, <1>2 DEF TypeOK
<1>5. LoopInv'
  BY <1>1 DEF LoopInv, NoPanic
<1>6. RegisterInv'
  BY <1>1, <1>3 DEF RegisterInv
<1>7. \A d \in Clients : StreamInv(d)'
  BY <1>1, <1>3, StreamKeeps DEF LastFor
<1>8. QED
  BY <1>4, <1>5, <1>6, <1>7

\* The next message of the channel is written: the run of the channel follows on.
LEMMA WriteMessageKeeps == ASSUME IInv, NEW c \in Clients, WriteMessage(c) PROVE IInv'
<1> USE DEF IInv
<1> DEFINE s == send[c]
           o == out[c]
<1>1. /\ wpc[c] = "write" /\ s # <<>>
      /\ out' = [out EXCEPT ![c] = Append(o, Head(s))]
      /\ send' = [send EXCEPT ![c] = Tail(s)]
      /\ UNCHANGED <<clients, broadcast, nmsg, hpc, hmsg, todo, closed, cpc, rpc, wpc, conn>>
  BY DEF WriteMessage, loopVars
<1>2. StreamInv(c) /\ s \in Seq(Msgs) /\ o \in Seq(Msgs)
  BY DEF TypeOK, Msgs
<1>3. /\ Tail(s) \in Seq(Msgs) /\ Contiguous(Tail(s))
      /\ Head(s) = s[1] /\ s[1] \in Msgs
      /\ Tail(s) = <<>> => s[1] = s[Len(s)]
      /\ Tail(s) # <<>> => Tail(s)[1] = s[1] + 1 /\ Tail(s)[Len(Tail(s))] = s[Len(s)]
  BY <1>1, <1>2, TailContiguous DEF StreamInv
<1>4. /\ Append(o, s[1]) \in Seq(Msgs) /\ Contiguous(Append(o, s[1])) /\ Append(o, s[1]) # <<>>
      /\ Append(o, s[1])[Len(Append(o, s[1]))] = s[1]
  <2>1. o # <<>> => s[1] = o[Len(o)] + 1
    BY <1>1, <1>2 DEF StreamInv
  <2>2. Contiguous(o)
    BY <1>2 DEF StreamInv
  <2>3. QED
    BY <1>2, <1>3, <2>1, <2>2, AppendContiguous
<1>5. send'[c] = Tail(s) /\ out'[c] = Append(o, s[1])
  BY <1>1, <1>3 DEF TypeOK
<1>6. \A d \in Clients : d # c => send'[d] = send[d] /\ out'[d] = out[d]
  BY <1>1 DEF TypeOK
<1>7. TypeOK'
  BY <1>1, <1>3, <1>4 DEF TypeOK, Msgs
<1>8. LoopInv'
  BY <1>1 DEF LoopInv, NoPanic
<1>9. RegisterInv'
  BY <1>1, <1>6 DEF RegisterInv
<1>10. StreamInv(c)'
  <2>1. LastFor(c)' = LastFor(c)
    BY <1>1 DEF LastFor
  <2>2. c \in clients => s[Len(s)] = LastFor(c)
    BY <1>1, <1>2 DEF StreamInv
  <2> DEFINE a == Append(o, s[1])
             t == Tail(s)
  <2>3. send'[c] = t /\ out'[c] = a /\ Contiguous(a) /\ Contiguous(t) /\ a[Len(a)] = s[1]
    BY <1>3, <1>4, <1>5
  <2>4. (t # <<>> => t[1] = s[1] + 1 /\ t[Len(t)] = s[Len(s)]) /\ (t = <<>> => s[1] = s[Len(s)])
    BY <1>3
  <2> HIDE DEF a, t
  <2>5. Contiguous(out[c])' /\ Contiguous(send[c])'
    BY <2>3 DEF Contiguous
  <2>6. QED
    BY <1>1, <2>1, <2>2, <2>3, <2>4, <2>5 DEF StreamInv
<1>11. \A d \in Clients : d # c => StreamInv(d)'
  BY <1>1, <1>6, StreamKeeps DEF LastFor
<1>12. QED
  BY <1>7, <1>8, <1>9, <1>10, <1>11

\* A message is lost with its writePump, which writes nothing any more.
LEMMA WriteFailsKeeps == ASSUME IInv, NEW c \in Clients, WriteFails(c) PROVE IInv'
<1> USE DEF IInv
<1> DEFINE s == send[c]
<1>1. /\ wpc[c] = "write" /\ s # <<>>
      /\ send' = [send EXCEPT ![c] = Tail(s)]
      /\ wpc' = [wpc EXCEPT ![c] = "gone"] /\ conn' = [conn EXCEPT ![c] = "closed"]
      /\ UNCHANGED <<clients, broadcast, nmsg, hpc, hmsg, todo, closed, cpc, rpc, out>>
  BY DEF WriteFails, WriteGone, loopVars
<1>2. StreamInv(c) /\ s \in Seq(Msgs)
  BY DEF TypeOK, Msgs
<1>3. /\ Tail(s) \in Seq(Msgs) /\ Contiguous(Tail(s))
      /\ Tail(s) # <<>> => Tail(s)[Len(Tail(s))] = s[Len(s)]
  BY <1>1, <1>2, TailContiguous DEF StreamInv
<1>4. send'[c] = Tail(s) /\ wpc'[c] = "gone" /\ cpc[c] = "returned"
  BY <1>1 DEF TypeOK, RegisterInv
<1>5. \A d \in Clients : d # c => send'[d] = send[d] /\ wpc'[d] = wpc[d]
  BY <1>1 DEF TypeOK
<1>6. TypeOK'
  BY <1>1, <1>3 DEF TypeOK, Msgs
<1>7. LoopInv'
  BY <1>1 DEF LoopInv, NoPanic
<1>8. RegisterInv'
  BY <1>1, <1>4, <1>5 DEF RegisterInv
<1>9. StreamInv(c)'
  <2>1. LastFor(c)' = LastFor(c) /\ (c \in clients => s[Len(s)] = LastFor(c))
    BY <1>1, <1>2 DEF LastFor, StreamInv
  <2>2. Contiguous(out[c])' /\ Contiguous(send[c])'
    BY <1>1, <1>2, <1>3, <1>4 DEF Contiguous, StreamInv
  <2>3. QED
    BY <1>1, <1>3, <1>4, <2>1, <2>2 DEF StreamInv
<1>10. \A d \in Clients : d # c => StreamInv(d)'
  BY <1>1, <1>5, StreamKeeps DEF LastFor
<1>11. QED
  BY <1>6, <1>7, <1>8, <1>9, <1>10

-----------------------------------------------------------------------------
(* The hub *)

\* A client enters the map with nothing sent to it.
LEMMA RegisterKeeps == ASSUME IInv, NEW c \in Clients, Register(c) PROVE IInv'
<1> USE DEF IInv
<1>1. /\ hpc = "select" /\ cpc[c] = "register"
      /\ clients' = clients \cup {c} /\ cpc' = [cpc EXCEPT ![c] = "registered"]
      /\ UNCHANGED <<broadcast, nmsg, hpc, hmsg, todo, send, closed, rpc, wpc, conn, out>>
  BY DEF Register, loopVars, pumpVars
<1>2. c \notin clients /\ c \notin closed /\ send[c] = <<>> /\ out[c] = <<>> /\ wpc[c] = "none"
  BY <1>1 DEF RegisterInv
<1>3. TypeOK'
  BY <1>1 DEF TypeOK
<1>4. LoopInv'
  BY <1>1, <1>2 DEF LoopInv, NoPanic
<1>5. RegisterInv'
  BY <1>1, <1>2 DEF RegisterInv, TypeOK
<1>6. StreamInv(c)'
  BY <1>1, <1>2 DEF StreamInv, Contiguous
<1>7. \A d \in Clients : d # c => StreamInv(d)'
  BY <1>1, StreamKeeps DEF LastFor
<1>8. QED
  BY <1>3, <1>4, <1>5, <1>6, <1>7

\* A client that leaves is closed if the hub has not dropped it before.
LEMMA UnregisterKeeps == ASSUME IInv, NEW c \in Clients, Unregister(c) PROVE IInv'
<1> USE DEF IInv
<1>1. /\ hpc = "select" /\ rpc' = [rpc EXCEPT ![c] = "close"]
      /\ UNCHANGED <<broadcast, nmsg, hmsg, todo, send, cpc, wpc, conn, out>>
  BY DEF Unregister
<1>2. \/ c \in clients /\ clients' = clients \ {c} /\ closed' = closed \cup {c} /\ hpc' = "select"
      \/ UNCHANGED <<clients, closed, hpc>>
  BY DEF Unregister, CloseSend, LoopInv
<1>3. TypeOK'
  BY <1>1, <1>2 DEF TypeOK
<1>4. LoopInv'
  BY <1>1, <1>2 DEF LoopInv, NoPanic
<1>5. RegisterInv'
  BY <1>1, <1>2 DEF RegisterInv
<1>6. \A d \in Clients : StreamInv(d)'
  BY <1>1, <1>2, StreamKeeps DEF LastFor
<1>7. QED
  BY <1>3, <1>4, <1>5, <1>6

\* The next message is the successor of the last one, and every client is still due it.
LEMMA TakeMessageKeeps == ASSUME IInv, TakeMessage PROVE IInv'
<1> USE DEF IInv
<1>1. /\ hpc = "select" /\ broadcast # <<>> /\ hmsg' = Head(broadcast)
      /\ broadcast' = Tail(broadcast) /\ todo' = clients /\ hpc' = "loop"
      /\ UNCHANGED <<clients, nmsg, send, closed, cpc, rpc, wpc, conn, out>>
  BY DEF TakeMessage, pumpVars
<1>2. /\ Len(broadcast) \in Nat \ {0} /\ Head(broadcast) = broadcast[1]
      /\ Head(broadcast) \in Msgs
      /\ broadcast' \in Seq(Msgs) /\ Len(broadcast') = Len(broadcast) - 1
      /\ \A i \in 1..(Len(broadcast) - 1) : broadcast'[i] = broadcast[i + 1]
  BY <1>1 DEF TypeOK, Msgs
<1>3. hmsg' = hmsg + 1 /\ hmsg \in Nat
  BY <1>1, <1>2 DEF LoopInv, TypeOK
<1>4. TypeOK'
  <2>1. Len(broadcast') <= BroadcastCap
    BY <1>2 DEF TypeOK
  <2>2. hmsg' \in 0..MaxMsgs
    BY <1>1, <1>2 DEF Msgs
  <2>3. QED
    BY <1>1, <1>2, <2>1, <2>2 DEF TypeOK, Msgs
<1>5. LoopInv'
  <2>1. nmsg' = hmsg' + Len(broadcast')
    BY <1>1, <1>2, <1>3 DEF LoopInv
  <2>2. \A i \in 1..Len(broadcast') : broadcast'[i] = hmsg' + i
    <3>1. \A i \in 1..(Len(broadcast) - 1) : i + 1 \in 1..Len(broadcast) /\ hmsg + (i + 1) = hmsg + 1 + i
      BY <1>2, <1>3
    <3>2. QED
      BY <1>2, <1>3, <3>1 DEF LoopInv
  <2>3. QED
    BY <1>1, <1>3, <2>1, <2>2 DEF LoopInv, NoPanic
<1>6. RegisterInv'
  BY <1>1 DEF RegisterInv
<1>7. \A c \in Clients : StreamInv(c)'
  <2>1. \A c \in clients : LastFor(c)' = LastFor(c)
    BY <1>1, <1>3 DEF LastFor, LoopInv
  <2>2. QED
    BY <1>1, <2>1, StreamKeeps
<1>8. QED
  BY <1>4, <1>5, <1>6, <1>7

\* The message enters the channel of a client, behind its predecessor.
LEMMA DeliverKeeps == ASSUME IInv, NEW c \in Clients, Deliver(c) PROVE IInv'
<1> USE DEF IInv
<1> DEFINE s == send[c]
<1>1. c \in todo /\ c \in clients /\ c \notin closed /\ hpc = "loop"
  BY DEF Deliver, LoopInv
<1>2. /\ todo' = todo \ {c} /\ send' = [send EXCEPT ![c] = Append(s, hmsg)] /\ hpc' = "loop"
      /\ UNCHANGED <<clients, broadcast, nmsg, hmsg, closed, cpc, rpc, wpc, conn, out>>
  BY <1>1 DEF Deliver, pumpVars
<1>3. hmsg \in Msgs /\ s \in Seq(Msgs) /\ StreamInv(c)
  BY <1>1 DEF TypeOK, LoopInv, Msgs
<1>4. LastFor(c) = hmsg - 1 /\ LastFor(c)' = hmsg /\ (hmsg - 1) + 1 = hmsg
  BY <1>1, <1>2, <1>3 DEF LastFor, Msgs
<1> DEFINE a == Append(s, hmsg)
<1>5. /\ a \in Seq(Msgs) /\ Contiguous(a) /\ a # <<>> /\ a[Len(a)] = hmsg
      /\ a[1] = IF s = <<>> THEN hmsg ELSE s[1]
  <2>1. s # <<>> => hmsg = s[Len(s)] + 1
    BY <1>1, <1>3, <1>4 DEF StreamInv
  <2>2. Contiguous(s)
    BY <1>3 DEF StreamInv
  <2>3. QED
    BY <1>3, <2>1, <2>2, AppendContiguous
<1>6. send'[c] = a
  BY <1>2 DEF TypeOK
<1>7. \A d \in Clients : d # c => send'[d] = send[d]
  BY <1>2 DEF TypeOK
<1>8. TypeOK'
  <2>1. send' \in [Clients -> Seq(Msgs)]
    BY <1>2, <1>5 DEF TypeOK, Msgs
  <2>2. QED
    BY <1>2, <2>1 DEF TypeOK, Msgs
<1> HIDE DEF a
<1>9. LoopInv'
  BY <1>1, <1>2 DEF LoopInv, NoPanic
<1>10. RegisterInv'
  BY <1>1, <1>2, <1>7 DEF RegisterInv
<1>11. StreamInv(c)'
  <2>1. Contiguous(out[c])' /\ Contiguous(send[c])'
    BY <1>2, <1>3, <1>5, <1>6 DEF Contiguous, StreamInv
  <2>2. wpc[c] # "gone" /\ out[c] # <<>> => a[1] = out[c][Len(out[c])] + 1
    BY <1>1, <1>3, <1>4, <1>5 DEF StreamInv
  <2>3. QED
    BY <1>2, <1>4, <1>5, <1>6, <2>1, <2>2 DEF StreamInv
<1>12. \A d \in Clients : d # c => StreamInv(d)'
  BY <1>2, <1>7, StreamKeeps DEF LastFor
<1>13. QED
  BY <1>8, <1>9, <1>10, <1>11, <1>12

\* A slow client is closed for the first time and forgotten; LoopEnds moves nothing.
LEMMA DropKeeps ==
    ASSUME IInv, LoopEnds \/ \E c \in Clients : Drop(c) PROVE IInv'
<1> USE DEF IInv
<1>1. CASE LoopEnds
  <2>1. /\ hpc = "loop" /\ todo = {} /\ hpc' = "select"
        /\ UNCHANGED <<clients, broadcast, nmsg, hmsg, todo, send, closed, cpc, rpc, wpc, conn, out>>
    BY <1>1 DEF LoopEnds, pumpVars
  <2>2. TypeOK' /\ LoopInv' /\ RegisterInv'
    BY <2>1 DEF TypeOK, LoopInv, NoPanic, RegisterInv
  <2>3. \A c \in Clients : StreamInv(c)'
    BY <2>1, StreamKeeps DEF LastFor
  <2>4. QED
    BY <2>2, <2>3
<1>2. ASSUME NEW c \in Clients, Drop(c) PROVE IInv'
  <2>1. /\ hpc = "loop" /\ c \in todo /\ c \in clients /\ todo' = todo \ {c}
        /\ clients' = clients \ {c} /\ closed' = closed \cup {c} /\ hpc' = "loop"
        /\ UNCHANGED <<broadcast, nmsg, hmsg, send, cpc, rpc, wpc, conn, out>>
    BY <1>2 DEF Drop, CloseSend, LoopInv, pumpVars
  <2>2. TypeOK'
    BY <2>1 DEF TypeOK
  <2>3. LoopInv'
    BY <2>1 DEF LoopInv, NoPanic
  <2>4. RegisterInv'
    BY <2>1 DEF RegisterInv
  <2>5. \A d \in Clients : StreamInv(d)'
    BY <2>1, StreamKeeps DEF LastFor
  <2>6. QED
    BY <2>2, <2>3, <2>4, <2>5
<1>3. QED
  BY <1>1, <1>2

-----------------------------------------------------------------------------
LEMMA InitIInv == Init => IInv
<1> SUFFICES ASSUME Init PROVE IInv
  OBVIOUS
<1>1. TypeOK
  BY DEF Init, TypeOK
<1>2. LoopInv /\ RegisterInv
  BY DEF Init, LoopInv, NoPanic, RegisterInv
<1>3. \A c \in Clients : StreamInv(c)
  <2>1. Contiguous(<<>>)
    BY DEF Contiguous
  <2>2. \A c \in Clients : send[c] = <<>> /\ out[c] = <<>> /\ c \notin clients
    BY DEF Init
  <2>3. QED
    BY <2>1, <2>2 DEF StreamInv
<1>4. QED
  BY <1>1, <1>2, <1>3 DEF IInv

LEMMA NextIInv == IInv /\ [Next]_vars => IInv'
<1> SUFFICES ASSUME IInv, [Next]_vars PROVE IInv'
  OBVIOUS
<1>1. CASE UNCHANGED vars
  BY <1>1 DEF vars, IInv, TypeOK, LoopInv, NoPanic, RegisterInv, StreamInv, LastFor, Contiguous
<1>2. CASE Next
  BY <1>2, BroadcastKeeps, ClientMovesKeep, WriteMessageKeeps, WriteFailsKeeps, RegisterKeeps,
     UnregisterKeeps, TakeMessageKeeps, DeliverKeeps, DropKeeps DEF Next, HubStep, ClientStep
<1>3. QED
  BY <1>1, <1>2

\* IInv is inductive.
THEOREM InductiveInvariant == Spec => []IInv
  BY InitIInv, NextIInv, PTL DEF Spec

\* The hub never panics, and no client misses a message in the middle.
THEOREM HubIsSound == Spec => []HubSound
<1>1. IInv => HubSound
  BY DEF IInv, LoopInv, StreamInv, HubSound, NoGap
<1>2. QED
  BY <1>1, InductiveInvariant, PTL
=============================================================================
