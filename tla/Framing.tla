------------------------------- MODULE Framing -------------------------------
(***************************************************************************)
(* What travels on the pooled connections: FramedConnection of             *)
(* core/runtime/connection_pool.py on one side, UDSHandler of core/main.py *)
(* on the other.  A frame is a header and a body of two units each, so     *)
(* that a read can end within either; a unit names its frame.  The server  *)
(* reads exactly, the client takes what a single recv returns.  A failed   *)
(* exchange puts the connection back into the pool as it is.               *)
(***************************************************************************)
EXTENDS Naturals, Sequences

CONSTANTS
    Links,          \* connections
    Callers,        \* threads that use the pool
    MaxRequests     \* bound: requests sent

VARIABLES
    toServer,   \* toServer[c]: units on their way to the server
    toClient,   \* toClient[c]: units on their way to the client
    server,     \* server[c]: "header", "body", "junk" or "closed"
    idle,       \* connections in the pool
    caller,     \* caller[t] = [at, link, req]
    sentRequests,   \* requests sent
    result,     \* what the call just ended returned: [req, of], or none
    failed      \* history: connections with a failed exchange

ASSUME FramingAssumption == Links # {}

frameVars == <<toServer, toClient, server, idle, caller, sentRequests, result, failed>>

None == [req |-> 0, of |-> 0]
Junk == 0       \* a unit or an answer that belongs to no request

FrameOf(r) == <<<<"h", r>>, <<"h", r>>, <<"b", r>>, <<"b", r>>>>
Rest(s, n) == SubSeq(s, n + 1, Len(s))

\* Two units that are the header of one frame.
IsHeader(s) == s[1] = s[2] /\ s[1][1] = "h"

FrameInit ==
    /\ toServer = [c \in Links |-> <<>>]
    /\ toClient = [c \in Links |-> <<>>]
    /\ server = [c \in Links |-> "header"]
    /\ idle = Links
    /\ caller = [t \in Callers |-> [at |-> "idle", link |-> CHOOSE c \in Links : TRUE, req |-> 0]]
    /\ sentRequests = 0
    /\ result = None
    /\ failed = {}

\* The with-block ends: the connection goes back.
Ends(t, answer, fails) ==
    LET c == caller[t].link IN
    /\ caller' = [caller EXCEPT ![t].at = "idle"]
    /\ idle' = idle \cup {c}
    /\ result' = answer
    /\ failed' = IF fails THEN failed \cup {c} ELSE failed

\* A connection is taken and the request sent with sendall.
SendRequest(t, c) ==
    /\ caller[t].at = "idle" /\ c \in idle /\ sentRequests < MaxRequests
    /\ sentRequests' = sentRequests + 1
    /\ idle' = idle \ {c}
    /\ caller' = [caller EXCEPT ![t] = [at |-> "header", link |-> c, req |-> sentRequests + 1]]
    /\ toServer' = [toServer EXCEPT ![c] = @ \o FrameOf(sentRequests + 1)]
    /\ result' = None
    /\ UNCHANGED <<toClient, server, failed>>

\* sendall raises after a part of the frame; the connection goes back.
SendBreaks(t, c, n) ==
    /\ caller[t].at = "idle" /\ c \in idle /\ sentRequests < MaxRequests
    /\ sentRequests' = sentRequests + 1
    /\ toServer' = [toServer EXCEPT ![c] = @ \o SubSeq(FrameOf(sentRequests + 1), 1, n)]
    /\ result' = None
    /\ failed' = failed \cup {c}
    /\ UNCHANGED <<toClient, server, idle, caller>>

\* recv(4): fewer bytes than a header raise.
RecvHeader(t, n) ==
    LET c == caller[t].link
        in == toClient[c]
    IN  /\ caller[t].at = "header" /\ n \in 1..Len(in) /\ n <= 2
        /\ toClient' = [toClient EXCEPT ![c] = Rest(in, n)]
        /\ IF n < 2
           THEN Ends(t, None, TRUE)
           ELSE /\ caller' = [caller EXCEPT ![t].at = IF IsHeader(in) THEN "body" ELSE "junk"]
                /\ result' = None
                /\ UNCHANGED <<idle, failed>>
        /\ UNCHANGED <<toServer, server, sentRequests>>

\* recv(length): a body of fewer than least units raises.
TakeBody(t, n, least) ==
    LET c == caller[t].link
        in == toClient[c]
    IN  /\ caller[t].at = "body" /\ n \in 1..Len(in) /\ n <= 2
        /\ toClient' = [toClient EXCEPT ![c] = Rest(in, n)]
        /\ IF n < least
           THEN Ends(t, None, TRUE)
           ELSE Ends(t, [req |-> caller[t].req, of |-> in[1][2]], FALSE)
        /\ UNCHANGED <<toServer, server, sentRequests>>

RecvBodyShort(t, n) == TakeBody(t, n, 1)

RecvBody(t, n) == TakeBody(t, n, 2)

\* A length read from the middle of a frame: any number of bytes is taken,
\* and they are too few or decoded to anything.
RecvJunk(t, n) ==
    LET c == caller[t].link IN
    /\ caller[t].at = "junk" /\ n \in 0..Len(toClient[c])
    /\ toClient' = [toClient EXCEPT ![c] = Rest(@, n)]
    /\ Ends(t, [req |-> caller[t].req, of |-> Junk], TRUE)
    /\ UNCHANGED <<toServer, server, sentRequests>>

\* The socket timeout passes, or the server has closed the connection.
RecvFails(t) ==
    /\ caller[t].at # "idle"
    /\ Ends(t, None, TRUE)
    /\ UNCHANGED <<toServer, toClient, server, sentRequests>>

\* UDSHandler.handle: readexactly(4)
ServeHeader(c) ==
    /\ server[c] = "header" /\ Len(toServer[c]) >= 2
    /\ server' = [server EXCEPT ![c] = IF IsHeader(toServer[c]) THEN "body" ELSE "junk"]
    /\ toServer' = [toServer EXCEPT ![c] = Rest(@, 2)]
    /\ UNCHANGED <<toClient, idle, caller, sentRequests, result, failed>>

\* readexactly(length), handle_request, which turns every exception into an
\* error answer, and the answer.
ServeBody(c) ==
    /\ server[c] = "body" /\ Len(toServer[c]) >= 2
    /\ server' = [server EXCEPT ![c] = "header"]
    /\ toServer' = [toServer EXCEPT ![c] = Rest(@, 2)]
    /\ toClient' = [toClient EXCEPT ![c] = @ \o
           FrameOf(IF toServer[c][1] = toServer[c][2] THEN toServer[c][1][2] ELSE Junk)]
    /\ UNCHANGED <<idle, caller, sentRequests, result, failed>>

\* A length read from the middle of a frame: 0 is passed over, any other
\* takes that many bytes and answers an error; or the handler waits on.
ServeJunk(c, n) ==
    /\ server[c] = "junk" /\ n \in 0..Len(toServer[c])
    /\ server' = [server EXCEPT ![c] = "header"]
    /\ toServer' = [toServer EXCEPT ![c] = Rest(@, n)]
    /\ toClient' = IF n = 0 THEN toClient
                   ELSE [toClient EXCEPT ![c] = @ \o FrameOf(Junk)]
    /\ UNCHANGED <<idle, caller, sentRequests, result, failed>>

FrameNext ==
    \/ \E t \in Callers :
          \/ \E c \in Links : SendRequest(t, c) \/ \E n \in 0..3 : SendBreaks(t, c, n)
          \/ \E n \in 1..2 : RecvHeader(t, n) \/ RecvBody(t, n)
          \/ \E n \in 0..Len(toClient[caller[t].link]) : RecvJunk(t, n)
          \/ RecvFails(t)
    \/ \E c \in Links :
          \/ ServeHeader(c) \/ ServeBody(c)
          \/ \E n \in 0..Len(toServer[c]) : ServeJunk(c, n)

-----------------------------------------------------------------------------
(* Properties *)

\* A call returns the answer to its own request, and a connection that waits
\* in the pool carries nothing, as long as no exchange on that connection has
\* failed: short reads, timeouts and broken sends spoil only the connection
\* they happen on, which the pool hands out again nevertheless.
OwnReply ==
    /\ result.of # result.req =>
          \E t \in Callers : caller[t].req = result.req /\ caller[t].link \in failed
    /\ \A c \in idle \ failed :
          toServer[c] = <<>> /\ toClient[c] = <<>> /\ server[c] = "header"

\* The inductive invariant: a connection is idle or with one thread, and as
\* long as nothing failed on it, it carries the thread's own request, or the
\* rest of it, or its answer, or the rest of that, and nothing when idle.
BodyOf(r) == <<<<"b", r>>, <<"b", r>>>>

Exchange(c) == <<toServer[c], server[c], toClient[c]>>

OnItsWay(at, r) ==
    CASE at = "header" -> {<<FrameOf(r), "header", <<>>>>,
                           <<BodyOf(r), "body", <<>>>>,
                           <<<<>>, "header", FrameOf(r)>>}
      [] at = "body" -> {<<<<>>, "header", BodyOf(r)>>}
      [] OTHER -> {}

FrameTypeOK ==
    /\ DOMAIN toServer = Links /\ DOMAIN toClient = Links /\ DOMAIN server = Links
    /\ idle \subseteq Links /\ sentRequests \in Nat
    /\ caller \in [Callers -> [at : {"idle", "header", "body", "junk"},
                               link : Links, req : Nat]]

ExchangeInv ==
    \A t \in Callers : caller[t].at # "idle" =>
        /\ caller[t].link \notin idle
        /\ \A u \in Callers \ {t} :
              caller[u].at # "idle" => caller[u].link # caller[t].link
        /\ caller[t].link \notin failed =>
              Exchange(caller[t].link) \in OnItsWay(caller[t].at, caller[t].req)

FrIInv == FrameTypeOK /\ ExchangeInv /\ OwnReply
=============================================================================
