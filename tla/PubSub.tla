------------------------------- MODULE PubSub -------------------------------
(***************************************************************************)
(* core/runtime/websockets.py: PubSub, Channel and the registries of the   *)
(* server and the client.  All of them walk a list of callbacks by index   *)
(* while the callbacks may change that list and send again.                *)
(* Subscriber lists are numbered: 0 is the one of PubSub, the others       *)
(* belong to the Channel objects in the order of their creation.           *)
(***************************************************************************)
EXTENDS Naturals, Sequences, FiniteSets, SequencesExt

CONSTANTS
    Callbacks,
    MaxChannels,    \* bound: Channel objects created
    MaxList,        \* bound: subscriptions in a list
    MaxSends,       \* bound: messages sent
    MaxSendDepth,   \* bound: deliveries in progress
    MaxChanges      \* bound: changes of a list during one delivery

Registries == {"server", "client"}

ASSUME PubSubAssumption == MaxChannels \in Nat

VARIABLES
    subs,       \* subs[o]: the callbacks subscribed to list o, in order
    nchan,      \* Channel objects created
    registry,   \* registry[r]: the Channel object under the name; 0 for none
    sends,      \* messages sent
    walks       \* deliveries in progress, innermost last: the list walked, the
                \*   next index, and as history the list at the beginning,
                \*   the calls made, the removals and the additions since

psVars == <<subs, nchan, registry, sends, walks>>

PsInit ==
    /\ subs = [o \in 0..MaxChannels |-> <<>>]
    /\ nchan = 0
    /\ registry = [r \in Registries |-> 0]
    /\ sends = 0
    /\ walks = <<>>

inner == walks[Len(walks)]

\* The application runs: no delivery is in progress, or a callback is called.
Running == walks # <<>> => inner.next > 1

\* What the deliveries that are walking list o see of a change of it.
Note(o, removed, joined) ==
    /\ \A w \in DOMAIN walks : walks[w].list = o =>
           walks[w].removals + Len(walks[w].added) < MaxChanges
    /\ walks' = [w \in DOMAIN walks |->
                    IF walks[w].list = o
                    THEN [walks[w] EXCEPT !.removals = @ + removed, !.added = @ \o joined]
                    ELSE walks[w]]

Join(o, list) ==
    /\ Running
    /\ Len(subs[o]) < MaxList
    /\ subs' = [subs EXCEPT ![o] = list]

\* PubSub.subscribe and Channel.subscribe
SubscribeFirst(o, c) ==
    /\ Join(o, <<c>> \o subs[o])
    /\ Note(o, 0, <<c>>)
    /\ UNCHANGED <<nchan, registry, sends>>

Subscribe(o, c) ==
    /\ Join(o, Append(subs[o], c))
    /\ Note(o, 0, <<c>>)
    /\ UNCHANGED <<nchan, registry, sends>>

\* unsubscribe: the first subscription of c, if there is one.
Unsubscribe(o, c) ==
    /\ Running
    /\ \E k \in DOMAIN subs[o] :
          /\ subs[o][k] = c /\ \A n \in 1..(k - 1) : subs[o][n] # c
          /\ subs' = [subs EXCEPT ![o] = RemoveAt(@, k)]
    /\ Note(o, 1, <<>>)
    /\ UNCHANGED <<nchan, registry, sends>>

\* create_channel replaces the object; on and emit create a missing one.
NewChannel(r) ==
    /\ nchan < MaxChannels
    /\ nchan' = nchan + 1
    /\ registry' = [registry EXCEPT ![r] = nchan + 1]

CreateChannel ==
    /\ Running
    /\ NewChannel("server")
    /\ UNCHANGED <<subs, sends, walks>>

Begin(o) ==
    /\ sends < MaxSends
    /\ Len(walks) < MaxSendDepth
    /\ sends' = sends + 1
    /\ walks' = Append(walks, [list |-> o, next |-> 1, start |-> subs[o],
                               called |-> <<>>, removals |-> 0, added |-> <<>>])
    /\ UNCHANGED subs

\* PubSub.publish
Publish == Running /\ Begin(0) /\ UNCHANGED <<nchan, registry>>

\* WebSocketServer.broadcast, without effect when there is no channel
Broadcast ==
    /\ Running
    /\ registry["server"] # 0
    /\ Begin(registry["server"])
    /\ UNCHANGED <<nchan, registry>>

\* WebSocketClient.emit
Emit ==
    /\ Running
    /\ \/ registry["client"] # 0 /\ Begin(registry["client"]) /\ UNCHANGED <<nchan, registry>>
       \/ registry["client"] = 0 /\ NewChannel("client") /\ Begin(nchan + 1)

\* WebSocketClient.on
On(c) ==
    \/ registry["client"] # 0 /\ Subscribe(registry["client"], c)
    \/ /\ registry["client"] = 0
       /\ Running
       /\ NewChannel("client")
       /\ subs' = [subs EXCEPT ![nchan + 1] = <<c>>]
       /\ UNCHANGED <<sends, walks>>

\* The loop takes the next callback; what the one before raised is reported.
Deliver ==
    /\ walks # <<>>
    /\ inner.next <= Len(subs[inner.list])
    /\ walks' = [walks EXCEPT ![Len(walks)].next = @ + 1,
                              ![Len(walks)].called = Append(@, subs[inner.list][inner.next])]
    /\ UNCHANGED <<subs, nchan, registry, sends>>

\* The loop ends.
EndOfList ==
    /\ walks # <<>>
    /\ inner.next > Len(subs[inner.list])
    /\ walks' = Front(walks)
    /\ UNCHANGED <<subs, nchan, registry, sends>>

PsNext ==
    \/ \E c \in Callbacks :
          \/ \E o \in 0..nchan : Subscribe(o, c) \/ Unsubscribe(o, c)
          \/ On(c)
    \/ CreateChannel \/ Publish \/ Broadcast \/ Emit \/ Deliver \/ EndOfList

-----------------------------------------------------------------------------
(* Properties *)

Times(list, c) == Cardinality({n \in DOMAIN list : list[n] = c})

\* A callback is called at most once for each of its subscriptions, those
\* made during the delivery included, however the callbacks change the list
\* that is being walked.
NoDoubleDelivery ==
    \A n \in DOMAIN walks : \A c \in Callbacks :
        LET w == walks[n] IN
        Times(w.called, c) <= Times(w.start, c) + Times(w.added, c)

\* When the walk reaches the end of the list, as many calls are missing as
\* subscriptions were removed during the walk, at the most: each removal
\* takes at most one call from the subscribers (its own, or that of a
\* subscriber that moved into a place already visited).
MissedOnlyByRemoval ==
    walks # <<>> /\ inner.next > Len(subs[inner.list]) =>
        Len(inner.called) + inner.removals >= Len(inner.start)

\* Every delivery is exact up to what the callbacks themselves change.
DeliveryExact == NoDoubleDelivery /\ MissedOnlyByRemoval

\* Neither half is inductive: what has been called and what is still to be
\* called must be counted together, and against the changes of the list.
Walks == [list : 0..MaxChannels, next : Nat \ {0}, start : Seq(Callbacks),
          called : Seq(Callbacks), removals : Nat, added : Seq(Callbacks)]

PsTypeOK ==
    /\ subs \in [0..MaxChannels -> Seq(Callbacks)]
    /\ nchan \in 0..MaxChannels
    /\ registry \in [Registries -> 0..nchan]
    /\ sends \in Nat
    /\ walks \in Seq(Walks)

\* The places of c in list from the n-th on.
From(list, n, c) == Cardinality({i \in DOMAIN list : i >= n /\ list[i] = c})

\* The delivery w over a list that now is the sequence list.
WalkInv(w, list) ==
    /\ Len(w.called) = w.next - 1
    /\ Len(list) + w.removals = Len(w.start) + Len(w.added)
    /\ \A c \in Callbacks :
          Times(w.called, c) + From(list, w.next, c) <= Times(w.start, c) + Times(w.added, c)

PsIInv ==
    /\ PsTypeOK
    /\ \A n \in DOMAIN walks :
          walks[n].list <= nchan /\ WalkInv(walks[n], subs[walks[n].list])
=============================================================================
