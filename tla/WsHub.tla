------------------------------- MODULE WsHub -------------------------------
(***************************************************************************)
(* websocket/hub.go: the hub goroutine (Run), the goroutines of HandleWS   *)
(* and the two pumps of every client.  The channels register and           *)
(* unregister have no buffer: a send and the hub's receive are one step.   *)
(* Only the hub closes a client's send channel; closing it twice or        *)
(* sending on it once closed would panic the process.                      *)
(***************************************************************************)
EXTENDS Naturals, Sequences

CONSTANTS
    Clients,        \* connections that HandleWS accepts
    SendCap,        \* capacity of Client.send (256 in the code)
    BroadcastCap,   \* capacity of Hub.broadcast (256 in the code)
    MaxMsgs         \* bound: messages broadcast

ASSUME HubAssumption ==
    /\ SendCap \in Nat
    /\ BroadcastCap \in Nat \ {0}
    /\ MaxMsgs \in Nat

VARIABLES
    clients,    \* Hub.clients
    broadcast,  \* Hub.broadcast; messages are numbered in their order
    nmsg,       \* messages broadcast so far
    hpc,        \* the hub: "select", "loop" over the clients, "panic"
    hmsg,       \* the message it is sending
    todo,       \* clients the loop has not reached yet
    send,       \* send[c]: Client.send
    closed,     \* clients whose send channel is closed
    cpc,        \* cpc[c]: HandleWS
    rpc,        \* rpc[c]: readPump
    wpc,        \* wpc[c]: writePump
    conn,       \* conn[c]: the connection, as this side sees it
    out         \* out[c]: the messages writePump wrote

vars == <<clients, broadcast, nmsg, hpc, hmsg, todo, send, closed, cpc, rpc, wpc, conn, out>>
loopVars == <<hpc, hmsg, todo>>
pumpVars == <<rpc, wpc, conn, out>>

Init ==
    /\ clients = {} /\ broadcast = <<>> /\ nmsg = 0
    /\ hpc = "select" /\ hmsg = 0 /\ todo = {}
    /\ send = [c \in Clients |-> <<>>] /\ closed = {}
    /\ cpc = [c \in Clients |-> "new"]
    /\ rpc = [c \in Clients |-> "none"] /\ wpc = [c \in Clients |-> "none"]
    /\ conn = [c \in Clients |-> "none"]
    /\ out = [c \in Clients |-> <<>>]

-----------------------------------------------------------------------------
(* Broadcast and HandleWS *)

\* Broadcast blocks while the channel is full.
Broadcast ==
    /\ nmsg < MaxMsgs
    /\ Len(broadcast) < BroadcastCap
    /\ nmsg' = nmsg + 1
    /\ broadcast' = Append(broadcast, nmsg + 1)
    /\ UNCHANGED <<clients, loopVars, send, closed, cpc, pumpVars>>

\* The upgrade succeeds; when it fails HandleWS returns and nothing has changed.
HandleWS(c) ==
    /\ cpc[c] = "new"
    /\ cpc' = [cpc EXCEPT ![c] = "register"]
    /\ conn' = [conn EXCEPT ![c] = "open"]
    /\ UNCHANGED <<clients, broadcast, nmsg, loopVars, send, closed, rpc, wpc, out>>

\* go writePump, go readPump.
StartPumps(c) ==
    /\ cpc[c] = "registered"
    /\ cpc' = [cpc EXCEPT ![c] = "returned"]
    /\ rpc' = [rpc EXCEPT ![c] = "read"]
    /\ wpc' = [wpc EXCEPT ![c] = "write"]
    /\ UNCHANGED <<clients, broadcast, nmsg, loopVars, send, closed, conn, out>>

-----------------------------------------------------------------------------
(* Run *)

Register(c) ==
    /\ hpc = "select"
    /\ cpc[c] = "register"
    /\ clients' = clients \cup {c}
    /\ cpc' = [cpc EXCEPT ![c] = "registered"]
    /\ UNCHANGED <<broadcast, nmsg, loopVars, send, closed, pumpVars>>

\* close(client.send), with the panic of a second close.
CloseSend(c, then) ==
    /\ closed' = closed \cup {c}
    /\ hpc' = IF c \in closed THEN "panic" ELSE then

\* unregister that does not look whether the client is still in the map.
UnregisterAlways(c) ==
    /\ hpc = "select"
    /\ rpc[c] = "unregister"
    /\ clients' = clients \ {c}
    /\ CloseSend(c, "select")
    /\ rpc' = [rpc EXCEPT ![c] = "close"]
    /\ UNCHANGED <<broadcast, nmsg, hmsg, todo, send, cpc, wpc, conn, out>>

\* A client the hub has dropped already is left alone.
Unregister(c) ==
    /\ hpc = "select"
    /\ rpc[c] = "unregister"
    /\ IF c \in clients
         THEN clients' = clients \ {c} /\ CloseSend(c, "select")
         ELSE UNCHANGED <<clients, closed, hpc>>
    /\ rpc' = [rpc EXCEPT ![c] = "close"]
    /\ UNCHANGED <<broadcast, nmsg, hmsg, todo, send, cpc, wpc, conn, out>>

TakeMessage ==
    /\ hpc = "select"
    /\ broadcast # <<>>
    /\ hmsg' = Head(broadcast)
    /\ broadcast' = Tail(broadcast)
    /\ todo' = clients
    /\ hpc' = "loop"
    /\ UNCHANGED <<clients, nmsg, send, closed, cpc, pumpVars>>

\* client.send <- message, with the panic of a closed channel.
Deliver(c) ==
    /\ hpc = "loop"
    /\ c \in todo
    /\ c \in closed \/ Len(send[c]) < SendCap
    /\ todo' = todo \ {c}
    /\ send' = [send EXCEPT ![c] = Append(@, hmsg)]
    /\ hpc' = IF c \in closed THEN "panic" ELSE "loop"
    /\ UNCHANGED <<clients, broadcast, nmsg, hmsg, closed, cpc, pumpVars>>

\* A loop that waits for room in the client's channel.
DropBlocks(c) ==
    /\ hpc = "loop"
    /\ c \in todo
    /\ c \notin closed /\ Len(send[c]) = SendCap
    /\ UNCHANGED vars

\* default: the client is slow; close its channel and forget it.
Drop(c) ==
    /\ hpc = "loop"
    /\ c \in todo
    /\ c \notin closed /\ Len(send[c]) = SendCap
    /\ todo' = todo \ {c}
    /\ clients' = clients \ {c}
    /\ CloseSend(c, "loop")
    /\ UNCHANGED <<broadcast, nmsg, hmsg, send, cpc, pumpVars>>

LoopEnds ==
    /\ hpc = "loop"
    /\ todo = {}
    /\ hpc' = "select"
    /\ UNCHANGED <<clients, broadcast, nmsg, hmsg, todo, send, closed, cpc, pumpVars>>

-----------------------------------------------------------------------------
(* The pumps *)

\* ReadMessage fails: this side closed the connection, or the peer did, or it broke.
\* A message that is read is thrown away.
ReadFails(c) ==
    /\ rpc[c] = "read"
    /\ rpc' = [rpc EXCEPT ![c] = "unregister"]
    /\ UNCHANGED <<clients, broadcast, nmsg, loopVars, send, closed, cpc, wpc, conn, out>>

\* The deferred conn.Close, after unregister.
ReadCloses(c) ==
    /\ rpc[c] = "close"
    /\ rpc' = [rpc EXCEPT ![c] = "gone"]
    /\ conn' = [conn EXCEPT ![c] = "closed"]
    /\ UNCHANGED <<clients, broadcast, nmsg, loopVars, send, closed, cpc, wpc, out>>

WriteMessage(c) ==
    /\ wpc[c] = "write"
    /\ send[c] # <<>>
    /\ conn[c] = "open"
    /\ out' = [out EXCEPT ![c] = Append(@, Head(send[c]))]
    /\ send' = [send EXCEPT ![c] = Tail(@)]
    /\ UNCHANGED <<clients, broadcast, nmsg, loopVars, closed, cpc, rpc, wpc, conn>>

\* The deferred conn.Close of writePump.
WriteGone(c) ==
    /\ wpc' = [wpc EXCEPT ![c] = "gone"]
    /\ conn' = [conn EXCEPT ![c] = "closed"]

\* NextWriter or Close reports an error: the message is lost.
WriteFails(c) ==
    /\ wpc[c] = "write"
    /\ send[c] # <<>>
    /\ send' = [send EXCEPT ![c] = Tail(@)]
    /\ WriteGone(c)
    /\ UNCHANGED <<clients, broadcast, nmsg, loopVars, closed, cpc, rpc, out>>

\* The channel is closed and drained.
WriteEnds(c) ==
    /\ wpc[c] = "write"
    /\ send[c] = <<>>
    /\ c \in closed
    /\ WriteGone(c)
    /\ UNCHANGED <<clients, broadcast, nmsg, loopVars, send, closed, cpc, rpc, out>>

-----------------------------------------------------------------------------
HubStep == \/ TakeMessage \/ LoopEnds
           \/ \E c \in Clients : Register(c) \/ Unregister(c) \/ Deliver(c) \/ Drop(c)

ClientStep(c) == \/ HandleWS(c) \/ StartPumps(c) \/ ReadFails(c) \/ ReadCloses(c)
                 \/ WriteMessage(c) \/ WriteFails(c) \/ WriteEnds(c)

Next == Broadcast \/ HubStep \/ \E c \in Clients : ClientStep(c)

Spec == Init /\ [][Next]_vars

\* The hub goroutine runs, and its select chooses at random among what is ready, so
\* no client waits for ever; goroutines are scheduled; a read or a write on a
\* connection that this side has closed fails.  While it is open both may hang for
\* ever: there is no deadline.
FairSpec ==
    /\ Spec
    /\ WF_vars(HubStep)
    /\ \A c \in Clients :
          /\ SF_vars(Register(c)) /\ SF_vars(Unregister(c))
          /\ WF_vars(StartPumps(c)) /\ WF_vars(ReadCloses(c)) /\ WF_vars(WriteEnds(c))
          /\ WF_vars(ReadFails(c) /\ conn[c] = "closed")
          /\ WF_vars(WriteFails(c) /\ conn[c] = "closed")

-----------------------------------------------------------------------------
(* Properties *)

TypeOK ==
    /\ clients \subseteq Clients /\ todo \subseteq Clients /\ closed \subseteq Clients
    /\ broadcast \in Seq(1..MaxMsgs) /\ Len(broadcast) <= BroadcastCap
    /\ nmsg \in 0..MaxMsgs /\ hmsg \in 0..MaxMsgs
    /\ hpc \in {"select", "loop", "panic"}
    /\ send \in [Clients -> Seq(1..MaxMsgs)]
    /\ cpc \in [Clients -> {"new", "register", "registered", "returned"}]
    /\ rpc \in [Clients -> {"none", "read", "unregister", "close", "gone"}]
    /\ wpc \in [Clients -> {"none", "write", "gone"}]
    /\ conn \in [Clients -> {"none", "open", "closed"}]
    /\ out \in [Clients -> Seq(1..MaxMsgs)]

\* The hub never closes a channel twice and never sends on a closed one, whether a
\* client leaves, is dropped as slow, or both.
NoPanic == hpc # "panic"

Contiguous(s) == \A i \in 1..(Len(s) - 1) : s[i + 1] = s[i] + 1

\* What a client gets is an unbroken run of the broadcasts: a slow client is cut
\* off, it never misses a message in the middle.
NoGap == \A c \in Clients : Contiguous(out[c])

\* Every broadcast is handled, and so Broadcast never blocks for good, although
\* clients may be stuck in a write for ever: the hub waits for no client.
BroadcastServed == \A m \in 1..MaxMsgs : nmsg >= m ~> hmsg >= m

\* When one of its pumps ends, a client is taken out of the map, the other pump
\* returns too, even out of a write that hangs, and the connection is closed.
ClientCleanedUp ==
    \A c \in Clients :
       wpc[c] = "gone" \/ rpc[c] = "unregister"
         ~> c \notin clients /\ wpc[c] = "gone" /\ rpc[c] = "gone" /\ conn[c] = "closed"

\* Neither a slow client nor one that leaves breaks the hub or the stream of another.
HubSound == TypeOK /\ NoPanic /\ NoGap

\* The hub serves everybody: broadcasts are handled whatever clients do, and clients
\* that leave, fail or are dropped are cleaned up.
HubServed == BroadcastServed /\ ClientCleanedUp

-----------------------------------------------------------------------------
(* The inductive invariant (proved in WsHubProofs). *)

\* The hub loops over clients that are still in its map, whose channels are open, and
\* the broadcast channel holds exactly the messages that follow the last one taken.
LoopInv ==
    /\ NoPanic
    /\ hpc = "select" => todo = {}
    /\ hpc = "loop" => hmsg > 0
    /\ todo \subseteq clients
    /\ clients \cap closed = {}
    /\ nmsg = hmsg + Len(broadcast)
    /\ \A i \in 1..Len(broadcast) : broadcast[i] = hmsg + i

\* Before it is registered a client is nowhere, and its pumps start afterwards.
RegisterInv ==
    \A c \in Clients :
        /\ cpc[c] \in {"new", "register"} =>
              c \notin clients /\ c \notin closed /\ send[c] = <<>> /\ out[c] = <<>>
        /\ wpc[c] # "none" => cpc[c] = "returned"

\* The last message the hub has offered to client c.
LastFor(c) == IF c \in todo THEN hmsg - 1 ELSE hmsg

\* What was written and what waits in the channel are unbroken runs, the second follows
\* the first while writePump lives, and for a client in the map both reach up to the
\* last message.
StreamInv(c) ==
    /\ Contiguous(out[c]) /\ Contiguous(send[c])
    /\ wpc[c] # "gone" /\ out[c] # <<>> /\ send[c] # <<>> =>
          send[c][1] = out[c][Len(out[c])] + 1
    /\ c \in clients /\ send[c] # <<>> => send[c][Len(send[c])] = LastFor(c)
    /\ c \in clients /\ wpc[c] # "gone" /\ send[c] = <<>> /\ out[c] # <<>> =>
          out[c][Len(out[c])] = LastFor(c)

IInv == TypeOK /\ LoopInv /\ RegisterInv /\ \A c \in Clients : StreamInv(c)
=============================================================================
