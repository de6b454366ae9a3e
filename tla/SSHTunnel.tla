----------------------------- MODULE SSHTunnel -----------------------------
(***************************************************************************)
(* The SSH tunnel of target_clickhouse/ssh_tunnel.py: a thread accepts     *)
(* local connections and opens a channel for each (_forward_tunnel), two   *)
(* threads per connection move the data between the socket and the channel *)
(* (_forward_data), and the main thread, or a signal handler in it, stops  *)
(* the tunnel at any moment (stop).                                        *)
(*                                                                         *)
(* The local clients, the bastion and the server behind it are external:   *)
(* a client may end its connection or reset it, the bastion may refuse a   *)
(* channel or drop the SSH session, and the server may end the channel.    *)
(* The clients, unlike the threads, are not assumed to do anything.        *)
(*                                                                         *)
(* A recv that is blocked on a socket is not woken when another thread     *)
(* closes that socket; only the next call on it raises.  The timeout of    *)
(* accept is not modelled: it only leads back to the test of the loop.     *)
(*                                                                         *)
(* The _Defect operators are plausible mistakes, as in module InsertPath.  *)
(***************************************************************************)
EXTENDS Integers, FiniteSets

CONSTANTS Conns,   \* the connections of the local clients
          Units,   \* bounds what is written in each direction of each
          Chunk    \* what a recv takes at most

None == "none"
ASSUME NoneAssumption == None \notin Conns

Directions == {"up", "down"}   \* local to remote, remote to local

ASSUME BoundsAssumption ==
  /\ Units \in [Conns -> [Directions -> Nat]]
  /\ Chunk \in Nat \ {0}

VARIABLES
  partial,   \* whether send may take less than it is given
  main,      \* the main thread: "running", or how far stop() has got
  loop,      \* the accept loop: "top", "accept", "accepted" or "ended"
  current,   \* the connection the loop has accepted
  ssh,       \* the SSH session: "up", "dropped" or "closed"
  listening, \* the server socket
  sock,      \* the tunnel's socket of each connection
  client,    \* the client's end: "out", "in", "fin" or "reset"
  chan,      \* the channel of each connection
  remote,    \* the server's end of it: "in" or "fin"
  thread,    \* the forwarding threads
  written,   \* the units the source of each direction has written
  taken,     \* how many of them a thread has received
  buffer,    \* those it holds (data, in _forward_data)
  got        \* those that reached the other side

vars == <<partial, main, loop, current, ssh, listening, sock, client, chan,
          remote, thread, written, taken, buffer, got>>

stopping  == main # "running"      \* _stop_event
accepting == <<main, loop, current, ssh, listening>>
peers     == <<client, remote>>
data      == <<written, taken, buffer, got>>

Each(x) == [c \in Conns |-> x]
Both(x) == Each([d \in Directions |-> x])

Init ==
  /\ partial \in BOOLEAN
  /\ main = "running" /\ loop = "top" /\ current = None
  /\ ssh = "up" /\ listening = TRUE
  /\ sock = Each("none") /\ client = Each("out")
  /\ chan = Each("none") /\ remote = Each("in")
  /\ thread = Both("none")
  /\ written = Both(0) /\ taken = Both(0)
  /\ buffer = Both({}) /\ got = Both({})

-----------------------------------------------------------------------------
(* The clients and the servers.                                            *)

ClientConnects(c) ==
  /\ client[c] = "out" /\ listening
  /\ client' = [client EXCEPT ![c] = "in"]
  /\ sock' = [sock EXCEPT ![c] = "backlog"]
  /\ UNCHANGED <<partial, accepting, chan, remote, thread, data>>

\* Either side writes a unit.
PeerWrites(c, d) ==
  /\ IF d = "up" THEN client[c] = "in" ELSE chan[c] = "open" /\ remote[c] = "in"
  /\ written[c][d] < Units[c][d]
  /\ written' = [written EXCEPT ![c][d] = @ + 1]
  /\ UNCHANGED <<partial, accepting, sock, peers, chan, thread, taken,
                 buffer, got>>

ClientEnds(c) ==
  /\ client[c] = "in"
  /\ \E how \in {"fin", "reset"} : client' = [client EXCEPT ![c] = how]
  /\ UNCHANGED <<partial, accepting, sock, chan, remote, thread, data>>

RemoteEnds(c) ==
  /\ chan[c] = "open" /\ remote[c] = "in"
  /\ remote' = [remote EXCEPT ![c] = "fin"]
  /\ UNCHANGED <<partial, accepting, sock, client, chan, thread, data>>

\* Every channel goes with the session.
AllClosed == [c \in Conns |-> IF chan[c] = "open" THEN "closed" ELSE chan[c]]

SessionDrops ==
  /\ ssh = "up" /\ ssh' = "dropped"
  /\ chan' = AllClosed
  /\ UNCHANGED <<partial, main, loop, current, listening, sock, peers,
                 thread, data>>

-----------------------------------------------------------------------------
(* _forward_tunnel.                                                        *)

LoopTest ==
  /\ loop = "top"
  /\ loop' = IF stopping THEN "ended" ELSE "accept"
  /\ UNCHANGED <<partial, main, current, ssh, listening, sock, peers,
                 chan, thread, data>>

Accept(c) ==
  /\ loop = "accept" /\ listening /\ sock[c] = "backlog"
  /\ loop' = "accepted" /\ current' = c
  /\ sock' = [sock EXCEPT ![c] = "open"]
  /\ UNCHANGED <<partial, main, ssh, listening, peers, chan, thread, data>>

\* except OSError: the loop goes on only if the tunnel is being stopped.
OnOSError == loop' = IF stopping THEN "top" ELSE "ended"

AcceptFails_Defect ==
  /\ loop = "accept" /\ ~listening
  /\ loop' = "accept" /\ current' = None
  /\ UNCHANGED <<partial, main, ssh, listening, sock, peers,
                 chan, thread, data>>

\* The server socket was closed under the call.
AcceptFails ==
  /\ loop = "accept" /\ ~listening
  /\ OnOSError
  /\ UNCHANGED <<partial, main, current, ssh, listening, sock, peers,
                 chan, thread, data>>

OpenChannel_Defect ==
  /\ loop = "accepted" /\ ssh \in {"up", "closed"}
  /\ chan' = [chan EXCEPT ![current] = "open"]
  /\ thread' = [thread EXCEPT ![current] = [d \in Directions |-> "call"]]
  /\ loop' = "top" /\ current' = None
  /\ UNCHANGED <<partial, main, ssh, listening, sock, peers, data>>

\* A channel is open, and two threads forward its data.
OpenChannel ==
  /\ loop = "accepted" /\ ssh = "up"
  /\ chan' = [chan EXCEPT ![current] = "open"]
  /\ thread' = [thread EXCEPT ![current] = [d \in Directions |-> "call"]]
  /\ loop' = "top" /\ current' = None
  /\ UNCHANGED <<partial, main, ssh, listening, sock, peers, data>>

ChannelRefused_Defect ==
  /\ loop = "accepted"
  /\ loop' = "top" /\ current' = None
  /\ UNCHANGED <<partial, main, ssh, listening, sock, peers,
                 chan, thread, data>>

\* There is no transport, or the bastion refuses the channel, or the session is
\* gone (SSHException): the connection is closed.
ChannelRefused ==
  /\ loop = "accepted"
  /\ sock' = [sock EXCEPT ![current] = "closed"]
  /\ loop' = "top" /\ current' = None
  /\ UNCHANGED <<partial, main, ssh, listening, peers, chan, thread, data>>

\* The session is lost while the channel is being opened: open_channel raises
\* what ended it, such as EOFError, which no handler of the thread catches.
SessionLost ==
  /\ loop = "accepted" /\ ssh # "up"
  /\ loop' = "ended" /\ current' = None
  /\ sock' = [sock EXCEPT ![current] = "closed"]
  /\ UNCHANGED <<partial, main, ssh, listening, peers, chan, thread, data>>

\* getpeername raises when the client has reset the connection.  Either way the
\* loop is left, and the socket goes with the last reference to it.
PeerNameFails ==
  /\ loop = "accepted" /\ client[current] = "reset"
  /\ OnOSError
  /\ sock' = [sock EXCEPT ![current] = "closed"] /\ current' = None
  /\ UNCHANGED <<partial, main, ssh, listening, peers, chan, thread, data>>

-----------------------------------------------------------------------------
(* _forward_data.  A thread ends as "eof" when its source has no more data, *)
(* and as "error" when a call raises.                                      *)

ended == {"eof", "error"}

SourceEnded(c, d) ==
  IF d = "up" THEN client[c] = "fin"
  ELSE chan[c] = "closed" \/ remote[c] = "fin"

\* Whether the side a thread sends to still takes data.
SinkOpen(c, d) ==
  IF d = "up" THEN chan[c] = "open"
  ELSE sock[c] = "open" /\ client[c] # "reset"

\* The next recv of a thread, which raises if the socket is closed.
CallReceive(c, d) ==
  /\ thread[c][d] = "call"
  /\ thread' = [thread EXCEPT
       ![c][d] = IF d = "up" /\ sock[c] = "closed" THEN "error" ELSE "recv"]
  /\ UNCHANGED <<partial, accepting, sock, peers, chan, data>>

Receive_Defect(c, d) ==
  /\ thread[c][d] = "recv"
  /\ taken[c][d] < written[c][d]
  /\ buffer' = [buffer EXCEPT ![c][d] = {taken[c][d] + 1}]
  /\ thread' = [thread EXCEPT ![c][d] = "send"]
  /\ UNCHANGED <<partial, accepting, sock, peers, chan, written, taken, got>>

\* A channel that has been closed still gives what it had buffered: anything
\* from all that was written to nothing (EndOfData).
Receive(c, d) ==
  /\ thread[c][d] = "recv"
  /\ d = "up" => client[c] # "reset"
  /\ \E n \in 1 .. Chunk :
        /\ taken[c][d] + n <= written[c][d]
        /\ taken' = [taken EXCEPT ![c][d] = @ + n]
        /\ buffer' = [buffer EXCEPT ![c][d] =
                        taken[c][d] + 1 .. taken[c][d] + n]
  /\ thread' = [thread EXCEPT ![c][d] = "send"]
  /\ UNCHANGED <<partial, accepting, sock, peers, chan, written, got>>

Send_Defect(c, d) ==
  /\ thread[c][d] = "send" /\ SinkOpen(c, d)
  /\ got' = [got EXCEPT ![c][d] = @ \cup {taken[c][d]}]
  /\ buffer' = [buffer EXCEPT ![c][d] = {}]
  /\ thread' = [thread EXCEPT ![c][d] = "call"]
  /\ UNCHANGED <<partial, accepting, sock, peers, chan, written, taken>>

\* send takes the first units it is given, all of them unless it is partial.
\* The next recv replaces the rest.
Send(c, d) ==
  /\ thread[c][d] = "send" /\ SinkOpen(c, d)
  /\ \E sent \in SUBSET buffer[c][d] :
        /\ sent # {} /\ \A u \in sent, v \in buffer[c][d] \ sent : u < v
        /\ ~partial => sent = buffer[c][d]
        /\ got' = [got EXCEPT ![c][d] = @ \cup sent]
  /\ buffer' = [buffer EXCEPT ![c][d] = {}]
  /\ thread' = [thread EXCEPT ![c][d] = "call"]
  /\ UNCHANGED <<partial, accepting, sock, peers, chan, written, taken>>

EndOfData_Defect(c, d) ==
  /\ thread[c][d] = "recv" /\ SourceEnded(c, d)
  /\ taken[c][d] = written[c][d] \/ (d = "down" /\ chan[c] = "closed")
  /\ thread' = [thread EXCEPT ![c][d] = "eof"]
  /\ UNCHANGED <<partial, accepting, sock, chan, peers, data>>

\* The end of the source: the thread closes the side it sends to.
EndOfData(c, d) ==
  /\ thread[c][d] = "recv" /\ SourceEnded(c, d)
  /\ taken[c][d] = written[c][d] \/ (d = "down" /\ chan[c] = "closed")
  /\ thread' = [thread EXCEPT ![c][d] = "eof"]
  /\ IF d = "up"
     THEN chan' = [chan EXCEPT ![c] = "closed"] /\ UNCHANGED sock
     ELSE sock' = [sock EXCEPT ![c] = "closed"] /\ UNCHANGED chan
  /\ UNCHANGED <<partial, accepting, peers, data>>

\* A call that raises ends the thread, which closes nothing.  A client that has
\* ended its connection may have closed it both ways, and resets what comes.
ForwardFails(c, d) ==
  /\ \/ thread[c][d] = "send" /\ ~SinkOpen(c, d)
     \/ thread[c][d] = "send" /\ d = "down" /\ client[c] = "fin"
     \/ thread[c][d] = "recv" /\ d = "up" /\ client[c] = "reset"
  /\ thread' = [thread EXCEPT ![c][d] = "error"]
  /\ UNCHANGED <<partial, accepting, sock, peers, chan, data>>

\* Both threads are joined, and both ends closed.
Finish(c) ==
  /\ \A d \in Directions : thread[c][d] \in ended
  /\ sock' = [sock EXCEPT ![c] = "closed"]
  /\ chan' = [chan EXCEPT ![c] = "closed"]
  /\ thread' = [thread EXCEPT ![c] = [d \in Directions |-> "joined"]]
  /\ UNCHANGED <<partial, accepting, peers, data>>

-----------------------------------------------------------------------------
(* stop.                                                                   *)

StopBegins ==
  /\ main = "running" /\ main' = "closing"
  /\ UNCHANGED <<partial, loop, current, ssh, listening, sock, peers,
                 chan, thread, data>>

\* Connections that were not accepted are reset with the server socket.
CloseListener ==
  /\ main = "closing" /\ main' = "joining"
  /\ listening' = FALSE
  /\ sock' = [c \in Conns |-> IF sock[c] = "backlog" THEN "closed" ELSE sock[c]]
  /\ UNCHANGED <<partial, loop, current, ssh, peers, chan, thread, data>>

CloseSession_Defect ==
  /\ main = "joining" /\ main' = "stopped"
  /\ ssh' = ssh
  /\ UNCHANGED <<partial, loop, current, listening, sock, peers,
                 chan, thread, data>>

\* The join of the loop ends, or times out; the client is closed in any case.
CloseSession ==
  /\ main = "joining" /\ main' = "stopped"
  /\ ssh' = "closed"
  /\ chan' = AllClosed
  /\ UNCHANGED <<partial, loop, current, listening, sock, peers, thread, data>>

-----------------------------------------------------------------------------

External ==
  \/ \E c \in Conns : ClientConnects(c) \/ ClientEnds(c) \/ RemoteEnds(c)
  \/ \E c \in Conns, d \in Directions : PeerWrites(c, d)
  \/ SessionDrops

AcceptLoop ==
  \/ LoopTest
  \/ \E c \in Conns : Accept(c)
  \/ AcceptFails
  \/ OpenChannel
  \/ ChannelRefused
  \/ SessionLost
  \/ PeerNameFails

Forward(c, d) ==
  \/ CallReceive(c, d) \/ Receive(c, d) \/ Send(c, d)
  \/ EndOfData(c, d) \/ ForwardFails(c, d)

Stopping == CloseListener \/ CloseSession

Next ==
  \/ External
  \/ AcceptLoop
  \/ \E c \in Conns, d \in Directions : Forward(c, d)
  \/ \E c \in Conns : Finish(c)
  \/ StopBegins
  \/ Stopping

\* Every thread that can run does, and a stop that was begun goes on.  A send is
\* taken to return: a peer that stops reading for ever is not considered.
Spec ==
  /\ Init /\ [][Next]_vars
  /\ WF_vars(AcceptLoop) /\ WF_vars(Stopping)
  /\ \A c \in Conns, d \in Directions : WF_vars(Forward(c, d))
  /\ \A c \in Conns : WF_vars(Finish(c))

-----------------------------------------------------------------------------
(* Properties.                                                             *)

\* Every variable keeps its type.
TypeOK ==
  /\ partial \in BOOLEAN /\ listening \in BOOLEAN
  /\ main \in {"running", "closing", "joining", "stopped"}
  /\ loop \in {"top", "accept", "accepted", "ended"}
  /\ current \in Conns \cup {None}
  /\ ssh \in {"up", "dropped", "closed"}
  /\ sock \in [Conns -> {"none", "backlog", "open", "closed"}]
  /\ client \in [Conns -> {"out", "in", "fin", "reset"}]
  /\ chan \in [Conns -> {"none", "open", "closed"}]
  /\ remote \in [Conns -> {"in", "fin"}]
  /\ thread \in [Conns -> [Directions ->
                  {"none", "call", "recv", "send", "joined"} \cup ended]]
  /\ \A c \in Conns, d \in Directions :
        /\ written[c][d] \in 0 .. Units[c][d]
        /\ taken[c][d] \in 0 .. written[c][d]
        /\ got[c][d] \subseteq 1 .. taken[c][d]
        /\ buffer[c][d] \subseteq 1 .. taken[c][d]

\* After stop returns, no channel is open, even one the accept loop was opening
\* while stop timed out waiting for it (ssh_tunnel.py, lines 175-187).
NoChannelAfterStop == main = "stopped" => \A c \in Conns : chan[c] # "open"

\* No accepted connection is forgotten: while its socket is open, the accept
\* loop is at it or its two threads have not both been joined (lines 93-115).
AcceptedIsHandled ==
  \A c \in Conns :
     sock[c] = "open" =>
        \/ current = c
        \/ \A d \in Directions : thread[c][d] \notin {"none", "joined"}

\* A thread that saw the end of what a client, or the server, wrote has passed
\* all of it on, provided that send takes all it is given (lines 140-159).
ForwardedWhenComplete ==
  ~partial =>
     \A c \in Conns, d \in Directions :
        /\ got[c][d] = 1 .. Cardinality(got[c][d])
        /\ thread[c]["up"] = "eof" => got[c]["up"] = 1 .. written[c]["up"]

\* When a client has ended its connection, it is torn down: both threads end and
\* both ends are closed, whatever the server and the session do (lines 140-173).
\* A client that resets its connection is not covered: the thread that reads
\* from it closes nothing, and the other one may wait for the server for ever.
ClientGoneIsCleanedUp ==
  \A c \in Conns :
     (client[c] = "fin" /\ thread[c]["up"] # "none") ~>
        (sock[c] = "closed" /\ chan[c] = "closed" /\ thread[c]["up"] = "joined")

\* A tunnel that is stopped stops: the accept loop ends too, wherever it was.
StopEndsLoop == stopping ~> (main = "stopped" /\ loop = "ended")

\* What the comments of the code say, and the code does not do.

\* "Forward data between local socket and SSH channel" (line 126): what a
\* client wrote before it ended its connection reaches the channel.
Forwarded ==
  \A c \in Conns :
     thread[c]["up"] = "eof" => got[c]["up"] = 1 .. written[c]["up"]

\* A failed channel "shouldn't kill the whole tunnel -- close this connection
\* attempt and keep accepting new ones" (lines 105-108): the accept loop ends
\* only when the tunnel is stopped.
LoopSurvives == loop = "ended" => stopping
=============================================================================
