--------------------------- MODULE SSHTunnelProofs ---------------------------
(***************************************************************************)
(* Proofs about SSHTunnel, for any set of connections, any amount of data  *)
(* on each and any size of a recv: no channel outlives stop, no connection *)
(* is forgotten, and what a thread passes on is complete.                  *)
(*                                                                         *)
(* The first needs that no channel is ever open without a session, which   *)
(* is why it does not matter how late the accept loop notices; the second  *)
(* that the connection the loop is at is its own until the threads start;  *)
(* and the third that a thread between two calls holds nothing back.       *)
(***************************************************************************)
EXTENDS SSHTunnel, FiniteSetTheorems, TLAPS

\* The data of each direction of each connection.
DataOK ==
  /\ written \in [Conns -> [Directions -> Nat]]
  /\ taken \in [Conns -> [Directions -> Nat]]
  /\ buffer \in [Conns -> [Directions -> SUBSET Nat]]
  /\ got \in [Conns -> [Directions -> SUBSET Nat]]

\* A channel is open only in a session, and stop ends it.
InSession ==
  /\ main = "stopped" => ssh = "closed"
  /\ ssh # "up" => \A c \in Conns : chan[c] # "open"

\* The accept loop holds an open connection, that has no threads yet.
LoopHolds ==
  /\ loop = "accepted" <=> current # None
  /\ current # None => sock[current] = "open"

\* The threads of a connection start and are joined together, and run on a
\* connection that was accepted.
ThreadsOK ==
  \A c \in Conns :
     /\ \A s \in {"none", "joined"} :
           thread[c]["up"] = s <=> thread[c]["down"] = s
     /\ client[c] = "out" => sock[c] = "none"
     /\ sock[c] \in {"none", "backlog"} \/ current = c =>
           thread[c]["up"] = "none"
     /\ thread[c]["up"] = "joined" => sock[c] = "closed"

\* What has been passed on is the beginning of what was received, and what is
\* missing is in the hands of the thread, or lost with it.
Passed(c, d) ==
  \E k \in 0 .. taken[c][d] :
     /\ got[c][d] = 1 .. k
     /\ thread[c][d] \in {"none", "call", "recv", "eof"} => k = taken[c][d]
     /\ thread[c][d] = "send" => buffer[c][d] = k + 1 .. taken[c][d]

PassedOn == ~partial => \A c \in Conns, d \in Directions : Passed(c, d)

\* The end of what a client wrote comes after all of it.
EndIsLast ==
  \A c \in Conns :
     thread[c]["up"] = "eof" =>
        client[c] = "fin" /\ taken[c]["up"] = written[c]["up"]

IInv ==
  /\ TypeOK
  /\ DataOK
  /\ InSession
  /\ LoopHolds
  /\ ThreadsOK
  /\ AcceptedIsHandled
  /\ PassedOn
  /\ EndIsLast

-----------------------------------------------------------------------------
(* Lemmas.                                                                 *)

\* What an update of one direction of one connection leaves alone.
LEMMA Update ==
  ASSUME NEW S, NEW f \in [Conns -> [Directions -> S]],
         NEW c \in Conns, NEW d \in Directions, NEW v \in S
  PROVE  /\ [f EXCEPT ![c][d] = v] \in [Conns -> [Directions -> S]]
         /\ \A x \in Conns, y \in Directions :
               [f EXCEPT ![c][d] = v][x][y] =
                  IF x = c /\ y = d THEN v ELSE f[x][y]
  OBVIOUS

\* The invariant holds initially.
LEMMA InitIInv == Init => IInv
<1>. SUFFICES ASSUME Init PROVE IInv
  OBVIOUS
<1>. USE DEF Init, Each, Both
<1>1. \A c \in Conns, d \in Directions : Units[c][d] \in Nat
  BY BoundsAssumption
<1>2. TypeOK
  BY <1>1 DEF TypeOK
<1>3. DataOK
  BY DEF DataOK
<1>4. InSession /\ LoopHolds /\ ThreadsOK /\ AcceptedIsHandled
  BY DEF InSession, LoopHolds, ThreadsOK, AcceptedIsHandled, Directions
<1>5. PassedOn
  <2>. SUFFICES ASSUME NEW c \in Conns, NEW d \in Directions
                PROVE  Passed(c, d)
    BY DEF PassedOn
  <2>1. got[c][d] = 1 .. 0 /\ taken[c][d] = 0 /\ thread[c][d] = "none"
    OBVIOUS
  <2>. QED
    BY <2>1 DEF Passed
<1>6. EndIsLast
  BY DEF EndIsLast, Directions
<1>. QED
  BY <1>2, <1>3, <1>4, <1>5, <1>6 DEF IInv

\* The steps that touch no data, no thread and no client keep what is said of
\* the data.
LEMMA DataFrame ==
  ASSUME IInv, UNCHANGED <<partial, thread, client, data>>
  PROVE  DataOK' /\ PassedOn' /\ EndIsLast'
<1>1. \A c \in Conns, d \in Directions : Passed(c, d) => Passed(c, d)'
  BY DEF Passed, data
<1>. QED
  BY <1>1 DEF IInv, DataOK, PassedOn, EndIsLast, data

\* The steps of the clients, the servers and the session keep the invariant.
LEMMA ExternalIInv == IInv /\ External => IInv'
<1>. SUFFICES ASSUME IInv, External PROVE IInv'
  OBVIOUS
<1>. USE DEF IInv
<1>1. ASSUME NEW c \in Conns, ClientConnects(c) PROVE IInv'
  <2>. USE <1>1 DEF ClientConnects, accepting, data
  <2>1. sock[c] = "none"
    BY DEF ThreadsOK
  <2>2. TypeOK'
    BY DEF TypeOK
  <2>3. DataOK' /\ InSession'
    BY DEF DataOK, InSession
  <2>4. LoopHolds'
    BY <2>1 DEF LoopHolds, TypeOK
  <2>5. ThreadsOK' /\ AcceptedIsHandled'
    BY <2>1 DEF ThreadsOK, AcceptedIsHandled, TypeOK
  <2>6. PassedOn'
    BY DEF PassedOn, Passed
  <2>7. EndIsLast'
    BY DEF EndIsLast, TypeOK
  <2>. QED
    BY <2>2, <2>3, <2>4, <2>5, <2>6, <2>7
<1>2. ASSUME NEW c \in Conns, ClientEnds(c) PROVE IInv'
  <2>. USE <1>2 DEF ClientEnds, accepting, data
  <2>2. TypeOK'
    BY DEF TypeOK
  <2>3. DataOK' /\ InSession' /\ LoopHolds'
    BY DEF DataOK, InSession, LoopHolds
  <2>5. ThreadsOK' /\ AcceptedIsHandled'
    BY DEF ThreadsOK, AcceptedIsHandled, TypeOK
  <2>6. PassedOn'
    BY DEF PassedOn, Passed
  <2>7. EndIsLast'
    BY DEF EndIsLast, TypeOK
  <2>. QED
    BY <2>2, <2>3, <2>5, <2>6, <2>7
<1>3. ASSUME NEW c \in Conns, RemoteEnds(c) PROVE IInv'
  <2>1. DataOK' /\ PassedOn' /\ EndIsLast'
    BY <1>3, DataFrame DEF RemoteEnds
  <2>. USE <1>3 DEF RemoteEnds, accepting, data
  <2>2. TypeOK'
    BY DEF TypeOK
  <2>3. InSession' /\ LoopHolds' /\ ThreadsOK' /\ AcceptedIsHandled'
    BY DEF InSession, LoopHolds, ThreadsOK, AcceptedIsHandled
  <2>. QED
    BY <2>1, <2>2, <2>3
<1>4. ASSUME NEW c \in Conns, NEW d \in Directions, PeerWrites(c, d)
      PROVE  IInv'
  <2>1. /\ written' = [written EXCEPT ![c][d] = written[c][d] + 1]
        /\ written[c][d] + 1 \in Nat
    BY <1>4 DEF PeerWrites, DataOK
  <2>2. /\ written' \in [Conns -> [Directions -> Nat]]
        /\ \A x \in Conns, y \in Directions :
              written'[x][y] = IF x = c /\ y = d THEN written[c][d] + 1
                               ELSE written[x][y]
    BY <2>1, Update DEF DataOK
  <2>3. /\ written[c][d] < Units[c][d]
        /\ d = "up" => client[c] = "in"
        /\ UNCHANGED <<partial, accepting, sock, peers, chan, thread, taken,
                       buffer, got>>
    BY <1>4 DEF PeerWrites
  <2>. USE <2>3 DEF accepting, peers
  <2>4. TypeOK'
    <3>1. \A x \in Conns, y \in Directions : Units[x][y] \in Nat
      BY BoundsAssumption
    <3>2. ASSUME NEW x \in Conns, NEW y \in Directions
          PROVE  /\ written'[x][y] \in 0 .. Units[x][y]
                 /\ taken[x][y] \in 0 .. written'[x][y]
      <4>1. /\ written[x][y] \in 0 .. Units[x][y]
            /\ taken[x][y] \in 0 .. written[x][y]
            /\ written[x][y] \in Nat
        BY DEF TypeOK, DataOK
      <4>2. CASE x = c /\ y = d
        BY <4>1, <4>2, <3>1, <2>2
      <4>3. CASE ~(x = c /\ y = d)
        BY <4>1, <4>3, <2>2
      <4>. QED
        BY <4>2, <4>3
    <3>. QED
      BY <3>2 DEF TypeOK
  <2>5. DataOK'
    BY <2>2 DEF DataOK
  <2>6. InSession' /\ LoopHolds' /\ ThreadsOK' /\ AcceptedIsHandled'
    BY DEF InSession, LoopHolds, ThreadsOK, AcceptedIsHandled
  <2>7. PassedOn'
    BY DEF PassedOn, Passed
  <2>8. EndIsLast'
    <3>. SUFFICES ASSUME NEW x \in Conns, thread[x]["up"] = "eof"
                  PROVE  client[x] = "fin" /\ taken[x]["up"] = written'[x]["up"]
      BY DEF EndIsLast
    <3>1. client[x] = "fin" /\ taken[x]["up"] = written[x]["up"]
      BY DEF EndIsLast
    <3>2. "up" \in Directions
      BY DEF Directions
    <3>. QED
      BY <2>2, <3>1, <3>2
  <2>. QED
    BY <2>4, <2>5, <2>6, <2>7, <2>8
<1>5. CASE SessionDrops
  <2>1. DataOK' /\ PassedOn' /\ EndIsLast'
    BY <1>5, DataFrame DEF SessionDrops, peers
  <2>. USE <1>5 DEF SessionDrops, AllClosed, peers, data
  <2>2. TypeOK'
    BY DEF TypeOK
  <2>3. InSession' /\ LoopHolds' /\ ThreadsOK' /\ AcceptedIsHandled'
    BY DEF InSession, LoopHolds, ThreadsOK, AcceptedIsHandled
  <2>. QED
    BY <2>1, <2>2, <2>3
<1>. QED
  <2>. HIDE DEF IInv
  <2>. QED
    BY <1>1, <1>2, <1>3, <1>4, <1>5 DEF External

\* The steps of the accept loop keep the invariant.
LEMMA AcceptLoopIInv == IInv /\ AcceptLoop => IInv'
<1>. SUFFICES ASSUME IInv, AcceptLoop PROVE IInv'
  OBVIOUS
<1>. USE NoneAssumption DEF IInv
<1>1. ASSUME LoopTest \/ AcceptFails PROVE IInv'
  <2>1. /\ loop \in {"top", "accept"} /\ loop' \in {"top", "accept", "ended"}
        /\ UNCHANGED <<partial, main, current, ssh, listening, sock, client,
                       remote, chan, thread, data>>
    BY <1>1 DEF LoopTest, AcceptFails, OnOSError, peers
  <2>2. DataOK' /\ PassedOn' /\ EndIsLast'
    BY <2>1, DataFrame
  <2>3. TypeOK'
    BY <2>1 DEF TypeOK, data
  <2>4. InSession' /\ LoopHolds' /\ ThreadsOK' /\ AcceptedIsHandled'
    BY <2>1 DEF InSession, LoopHolds, ThreadsOK, AcceptedIsHandled
  <2>. QED
    BY <2>2, <2>3, <2>4
<1>2. ASSUME NEW c \in Conns, Accept(c) PROVE IInv'
  <2>1. /\ loop = "accept" /\ loop' = "accepted" /\ current' = c
        /\ sock[c] = "backlog" /\ sock' = [sock EXCEPT ![c] = "open"]
        /\ UNCHANGED <<partial, main, ssh, listening, client, remote, chan,
                       thread, data>>
    BY <1>2 DEF Accept, peers
  <2>2. DataOK' /\ PassedOn' /\ EndIsLast'
    BY <2>1, DataFrame
  <2>3. TypeOK'
    BY <2>1 DEF TypeOK, data
  <2>4. InSession' /\ LoopHolds'
    BY <2>1 DEF InSession, LoopHolds, TypeOK
  <2>5. current = None
    BY <2>1 DEF LoopHolds
  <2>6. ThreadsOK'
    BY <2>1, <2>5 DEF ThreadsOK, TypeOK
  <2>7. AcceptedIsHandled'
    BY <2>1, <2>5 DEF AcceptedIsHandled, TypeOK
  <2>. QED
    BY <2>2, <2>3, <2>4, <2>6, <2>7
<1>3. ASSUME OpenChannel PROVE IInv'
  <2>1. /\ loop = "accepted" /\ loop' = "top" /\ current' = None /\ ssh = "up"
        /\ chan' = [chan EXCEPT ![current] = "open"]
        /\ thread' = [thread EXCEPT ![current] =
                                 [d \in Directions |-> "call"]]
        /\ UNCHANGED <<partial, main, ssh, listening, sock, client, remote,
                       data>>
    BY <1>3 DEF OpenChannel, peers
  <2>2. current \in Conns /\ sock[current] = "open"
    BY <2>1 DEF LoopHolds, TypeOK
  <2>3. \A c \in Conns, d \in Directions :
           thread'[c][d] = IF c = current THEN "call" ELSE thread[c][d]
    BY <2>1, <2>2 DEF TypeOK
  <2>4. \A d \in Directions : thread[current][d] = "none"
    BY <2>2 DEF ThreadsOK, Directions
  <2>5. TypeOK'
    <3>1. thread' \in [Conns -> [Directions ->
                  {"none", "call", "recv", "send", "joined"} \cup ended]]
      BY <2>1, <2>2 DEF TypeOK
    <3>2. chan' \in [Conns -> {"none", "open", "closed"}]
      BY <2>1, <2>2 DEF TypeOK
    <3>. QED
      BY <2>1, <3>1, <3>2 DEF TypeOK, data
  <2>6. DataOK' /\ InSession' /\ LoopHolds'
    BY <2>1 DEF DataOK, InSession, LoopHolds, data
  <2>7. ThreadsOK'
    BY <2>1, <2>2, <2>3 DEF ThreadsOK, Directions
  <2>8. AcceptedIsHandled'
    BY <2>1, <2>3 DEF AcceptedIsHandled
  <2>9. PassedOn'
    <3>. SUFFICES ASSUME ~partial, NEW c \in Conns, NEW d \in Directions
                  PROVE  Passed(c, d)'
      BY <2>1 DEF PassedOn
    <3>1. PICK k \in 0 .. taken[c][d] :
             /\ got[c][d] = 1 .. k
             /\ thread[c][d] \in {"none", "call", "recv", "eof"} =>
                   k = taken[c][d]
             /\ thread[c][d] = "send" => buffer[c][d] = k + 1 .. taken[c][d]
      BY DEF PassedOn, Passed
    <3>. QED
      BY <2>1, <2>3, <2>4, <3>1 DEF Passed, data
  <2>10. EndIsLast'
    BY <2>1, <2>3 DEF EndIsLast, Directions, data
  <2>. QED
    BY <2>5, <2>6, <2>7, <2>8, <2>9, <2>10
<1>4. ASSUME ChannelRefused \/ SessionLost \/ PeerNameFails PROVE IInv'
  <2>1. /\ loop = "accepted" /\ loop' \in {"top", "ended"} /\ current' = None
        /\ sock' = [sock EXCEPT ![current] = "closed"]
        /\ UNCHANGED <<partial, main, ssh, listening, client, remote, chan,
                       thread, data>>
    BY <1>4 DEF ChannelRefused, SessionLost, PeerNameFails, OnOSError, peers
  <2>2. current \in Conns /\ sock[current] = "open"
    BY <2>1 DEF LoopHolds, TypeOK
  <2>3. DataOK' /\ PassedOn' /\ EndIsLast'
    BY <2>1, DataFrame
  <2>4. TypeOK'
    BY <2>1, <2>2 DEF TypeOK, data
  <2>5. InSession' /\ LoopHolds'
    BY <2>1 DEF InSession, LoopHolds
  <2>6. ThreadsOK' /\ AcceptedIsHandled'
    BY <2>1, <2>2 DEF ThreadsOK, AcceptedIsHandled, TypeOK
  <2>. QED
    BY <2>3, <2>4, <2>5, <2>6
<1>. QED
  <2>. HIDE DEF IInv
  <2>. QED
    BY <1>1, <1>2, <1>3, <1>4 DEF AcceptLoop

\* The steps of the main thread, which stops the tunnel, keep the invariant.
LEMMA StopIInv == IInv /\ (StopBegins \/ Stopping) => IInv'
<1>. SUFFICES ASSUME IInv, StopBegins \/ Stopping PROVE IInv'
  OBVIOUS
<1>. USE DEF IInv
<1>1. DataOK' /\ PassedOn' /\ EndIsLast'
  BY DataFrame DEF StopBegins, Stopping, CloseListener, CloseSession, peers
<1>. USE DEF peers, data
<1>2. CASE StopBegins
  <2>1. TypeOK'
    BY <1>2 DEF StopBegins, TypeOK
  <2>2. InSession' /\ LoopHolds' /\ ThreadsOK' /\ AcceptedIsHandled'
    BY <1>2 DEF StopBegins, InSession, LoopHolds, ThreadsOK, AcceptedIsHandled
  <2>. QED
    BY <1>1, <2>1, <2>2
<1>3. CASE CloseListener
  <2>1. TypeOK'
    BY <1>3 DEF CloseListener, TypeOK
  <2>2. InSession' /\ LoopHolds'
    BY <1>3 DEF CloseListener, InSession, LoopHolds, TypeOK
  <2>3. ThreadsOK' /\ AcceptedIsHandled'
    BY <1>3 DEF CloseListener, ThreadsOK, AcceptedIsHandled
  <2>. QED
    BY <1>1, <2>1, <2>2, <2>3
<1>4. CASE CloseSession
  <2>1. TypeOK'
    BY <1>4 DEF CloseSession, AllClosed, TypeOK
  <2>2. InSession' /\ LoopHolds' /\ ThreadsOK' /\ AcceptedIsHandled'
    BY <1>4 DEF CloseSession, AllClosed, InSession, LoopHolds, ThreadsOK,
                AcceptedIsHandled
  <2>. QED
    BY <1>1, <2>1, <2>2
<1>. QED
  BY <1>2, <1>3, <1>4 DEF Stopping

-----------------------------------------------------------------------------
(* The forwarding threads.                                                 *)

\* What a thread that is running may be at.
AtWork == {"call", "recv", "send"} \cup ended

\* A step of a thread, after which it is at s.
StepTo(c, d, s) ==
  /\ thread[c][d] \in AtWork
  /\ thread' = [thread EXCEPT ![c][d] = s]
  /\ UNCHANGED <<partial, accepting, peers, written>>

\* Such a step may close either end of its connection, and open none: it keeps
\* all that is not about the data.
LEMMA ThreadFrame ==
  ASSUME IInv, NEW c \in Conns, NEW d \in Directions, NEW s \in AtWork,
         StepTo(c, d, s),
         \/ UNCHANGED sock
         \/ sock' = [sock EXCEPT ![c] = "closed"],
         \/ UNCHANGED chan
         \/ chan' = [chan EXCEPT ![c] = "closed"]
  PROVE  /\ InSession' /\ LoopHolds' /\ ThreadsOK' /\ AcceptedIsHandled'
         /\ sock' \in [Conns -> {"none", "backlog", "open", "closed"}]
         /\ chan' \in [Conns -> {"none", "open", "closed"}]
         /\ thread' \in [Conns -> [Directions ->
                  {"none", "call", "recv", "send", "joined"} \cup ended]]
         /\ \A x \in Conns, y \in Directions :
               thread'[x][y] = IF x = c /\ y = d THEN s ELSE thread[x][y]
<1>. USE DEF IInv, StepTo, accepting, peers
<1>. DEFINE States == {"none", "call", "recv", "send", "joined"} \cup ended
<1>0. /\ sock \in [Conns -> {"none", "backlog", "open", "closed"}]
      /\ chan \in [Conns -> {"none", "open", "closed"}]
  BY DEF TypeOK
<1>1. /\ sock' \in [Conns -> {"none", "backlog", "open", "closed"}]
      /\ chan' \in [Conns -> {"none", "open", "closed"}]
      /\ \A x \in Conns : sock'[x] = sock[x] \/ (x = c /\ sock'[x] = "closed")
      /\ \A x \in Conns : chan'[x] = chan[x] \/ chan'[x] = "closed"
  BY <1>0
<1>2. s \in States
  BY DEF AtWork
<1>3. /\ thread \in [Conns -> [Directions -> States]]
      /\ thread' = [thread EXCEPT ![c][d] = s]
  BY DEF TypeOK
<1>4. /\ thread' \in [Conns -> [Directions -> States]]
      /\ \A x \in Conns, y \in Directions :
            thread'[x][y] = IF x = c /\ y = d THEN s ELSE thread[x][y]
  <2>. HIDE DEF States
  <2>. QED
    BY <1>2, <1>3, Update
<1>5. /\ thread[c][d] \notin {"none", "joined"} /\ s \notin {"none", "joined"}
      /\ thread[c]["up"] \notin {"none", "joined"}
      /\ thread[c]["down"] \notin {"none", "joined"}
  BY DEF AtWork, ended, ThreadsOK, Directions
<1>6. current # c /\ sock[c] \notin {"none", "backlog"} /\ client[c] # "out"
  BY <1>5 DEF ThreadsOK
<1>7. InSession'
  BY <1>1 DEF InSession
<1>8. LoopHolds'
  BY <1>1, <1>6 DEF LoopHolds, TypeOK
<1>9. ThreadsOK'
  <2>. SUFFICES ASSUME NEW x \in Conns
                PROVE
        /\ \A t \in {"none", "joined"} :
              thread'[x]["up"] = t <=> thread'[x]["down"] = t
        /\ client'[x] = "out" => sock'[x] = "none"
        /\ sock'[x] \in {"none", "backlog"} \/ current' = x =>
              thread'[x]["up"] = "none"
        /\ thread'[x]["up"] = "joined" => sock'[x] = "closed"
    BY DEF ThreadsOK
  <2>1. "up" \in Directions /\ "down" \in Directions
    BY DEF Directions
  <2>2. CASE x = c
    BY <1>1, <1>4, <1>5, <1>6, <2>1, <2>2
  <2>3. CASE x # c
    <3>1. thread'[x]["up"] = thread[x]["up"]
          /\ thread'[x]["down"] = thread[x]["down"] /\ sock'[x] = sock[x]
      BY <1>1, <1>4, <2>1, <2>3
    <3>. QED
      BY <3>1 DEF ThreadsOK
  <2>. QED
    BY <2>2, <2>3
<1>10. AcceptedIsHandled'
  <2>. SUFFICES ASSUME NEW x \in Conns, sock'[x] = "open", current' # x,
                       NEW y \in Directions
                PROVE  thread'[x][y] \notin {"none", "joined"}
    BY DEF AcceptedIsHandled
  <2>1. sock[x] = "open" /\ current # x
    BY <1>1
  <2>. QED
    BY <2>1, <1>4, <1>5 DEF AcceptedIsHandled
<1>. QED
  BY <1>1, <1>4, <1>7, <1>8, <1>9, <1>10

\* A step that sends or receives nothing keeps what is said of the data, if it
\* is said of the thread that steps.
LEMMA ThreadData ==
  ASSUME IInv, NEW c \in Conns, NEW d \in Directions, NEW s \in AtWork,
         StepTo(c, d, s), UNCHANGED data,
         \A x \in Conns, y \in Directions :
            thread'[x][y] = IF x = c /\ y = d THEN s ELSE thread[x][y],
         s # "send",
         s \in {"call", "recv", "eof"} => thread[c][d] \in {"call", "recv"},
         s = "eof" /\ d = "up" =>
            client[c] = "fin" /\ taken[c][d] = written[c][d]
  PROVE  DataOK' /\ PassedOn' /\ EndIsLast'
<1>. USE DEF IInv, StepTo, peers, data
<1>1. DataOK'
  BY DEF DataOK
<1>2. PassedOn'
  <2>. SUFFICES ASSUME ~partial, NEW x \in Conns, NEW y \in Directions
                PROVE  Passed(x, y)'
    BY DEF PassedOn
  <2>1. PICK k \in 0 .. taken[x][y] :
           /\ got[x][y] = 1 .. k
           /\ thread[x][y] \in {"none", "call", "recv", "eof"} =>
                 k = taken[x][y]
           /\ thread[x][y] = "send" => buffer[x][y] = k + 1 .. taken[x][y]
    BY DEF PassedOn, Passed
  <2>2. s \in {"call", "recv", "eof", "error"}
    BY DEF AtWork, ended
  <2>3. /\ thread'[x][y] \in {"none", "call", "recv", "eof"} =>
              k = taken[x][y]
        /\ thread'[x][y] = "send" => buffer[x][y] = k + 1 .. taken[x][y]
    BY <2>1, <2>2
  <2>. QED
    BY <2>1, <2>3 DEF Passed
<1>3. EndIsLast'
  <2>. SUFFICES ASSUME NEW x \in Conns, thread'[x]["up"] = "eof"
                PROVE  client[x] = "fin" /\ taken[x]["up"] = written[x]["up"]
    BY DEF EndIsLast
  <2>1. "up" \in Directions
    BY DEF Directions
  <2>. QED
    BY <2>1 DEF EndIsLast
<1>. QED
  BY <1>1, <1>2, <1>3

\* The steps of a forwarding thread keep the invariant.
LEMMA ForwardIInv ==
  ASSUME IInv, NEW c \in Conns, NEW d \in Directions, Forward(c, d)
  PROVE  IInv'
<1>. USE DEF IInv
<1>1. CASE CallReceive(c, d)
  <2>1. PICK s \in {"error", "recv"} : StepTo(c, d, s)
    BY <1>1 DEF CallReceive, StepTo, AtWork, data
  <2>2. /\ thread[c][d] = "call" /\ s \in AtWork
        /\ UNCHANGED <<sock, chan, listening, data>>
    BY <1>1, <2>1 DEF CallReceive, accepting, AtWork, ended
  <2>3. /\ InSession' /\ LoopHolds' /\ ThreadsOK' /\ AcceptedIsHandled'
        /\ thread' \in [Conns -> [Directions ->
                  {"none", "call", "recv", "send", "joined"} \cup ended]]
        /\ \A x \in Conns, y \in Directions :
              thread'[x][y] = IF x = c /\ y = d THEN s ELSE thread[x][y]
    BY <2>1, <2>2, ThreadFrame
  <2>4. DataOK' /\ PassedOn' /\ EndIsLast'
    BY <2>1, <2>2, <2>3, ThreadData
  <2>5. TypeOK'
    BY <2>1, <2>2, <2>3 DEF TypeOK, StepTo, accepting, peers, data
  <2>. QED
    BY <2>3, <2>4, <2>5
<1>2. CASE EndOfData(c, d)
  <2>1. /\ StepTo(c, d, "eof") /\ "eof" \in AtWork
        /\ thread[c][d] = "recv" /\ UNCHANGED <<listening, data>>
    BY <1>2 DEF EndOfData, StepTo, AtWork, ended, accepting, data
  <2>2. /\ UNCHANGED sock \/ sock' = [sock EXCEPT ![c] = "closed"]
        /\ UNCHANGED chan \/ chan' = [chan EXCEPT ![c] = "closed"]
        /\ d = "up" => client[c] = "fin" /\ taken[c][d] = written[c][d]
    BY <1>2 DEF EndOfData, SourceEnded
  <2>3. /\ InSession' /\ LoopHolds' /\ ThreadsOK' /\ AcceptedIsHandled'
        /\ sock' \in [Conns -> {"none", "backlog", "open", "closed"}]
        /\ chan' \in [Conns -> {"none", "open", "closed"}]
        /\ thread' \in [Conns -> [Directions ->
                  {"none", "call", "recv", "send", "joined"} \cup ended]]
        /\ \A x \in Conns, y \in Directions :
              thread'[x][y] = IF x = c /\ y = d THEN "eof" ELSE thread[x][y]
    BY <2>1, <2>2, ThreadFrame
  <2>4. DataOK' /\ PassedOn' /\ EndIsLast'
    BY <2>1, <2>2, <2>3, ThreadData
  <2>5. TypeOK'
    BY <2>1, <2>3 DEF TypeOK, StepTo, accepting, peers, data
  <2>. QED
    BY <2>3, <2>4, <2>5
<1>3. CASE ForwardFails(c, d)
  <2>1. /\ StepTo(c, d, "error") /\ "error" \in AtWork
        /\ UNCHANGED <<sock, chan, listening, data>>
    BY <1>3 DEF ForwardFails, StepTo, AtWork, ended, accepting, data
  <2>2. /\ InSession' /\ LoopHolds' /\ ThreadsOK' /\ AcceptedIsHandled'
        /\ thread' \in [Conns -> [Directions ->
                  {"none", "call", "recv", "send", "joined"} \cup ended]]
        /\ \A x \in Conns, y \in Directions :
              thread'[x][y] = IF x = c /\ y = d THEN "error"
                              ELSE thread[x][y]
    BY <2>1, ThreadFrame
  <2>3. DataOK' /\ PassedOn' /\ EndIsLast'
    BY <2>1, <2>2, ThreadData
  <2>4. TypeOK'
    BY <2>1, <2>2 DEF TypeOK, StepTo, accepting, peers, data
  <2>. QED
    BY <2>2, <2>3, <2>4
<1>4. CASE Receive(c, d)
  <2>1. /\ StepTo(c, d, "send") /\ "send" \in AtWork
        /\ thread[c][d] = "recv"
        /\ UNCHANGED <<sock, chan, listening, got, written>>
    BY <1>4 DEF Receive, StepTo, AtWork, ended, accepting
  <2>2. PICK n \in 1 .. Chunk :
           /\ taken[c][d] + n <= written[c][d]
           /\ taken' = [taken EXCEPT ![c][d] = taken[c][d] + n]
           /\ buffer' = [buffer EXCEPT ![c][d] =
                            taken[c][d] + 1 .. taken[c][d] + n]
    BY <1>4 DEF Receive
  <2>3. /\ InSession' /\ LoopHolds' /\ ThreadsOK' /\ AcceptedIsHandled'
        /\ thread' \in [Conns -> [Directions ->
                  {"none", "call", "recv", "send", "joined"} \cup ended]]
        /\ \A x \in Conns, y \in Directions :
              thread'[x][y] = IF x = c /\ y = d THEN "send"
                              ELSE thread[x][y]
    BY <2>1, ThreadFrame
  <2>4. /\ taken[c][d] \in Nat /\ n \in Nat /\ taken[c][d] + n \in Nat
        /\ taken[c][d] + 1 .. taken[c][d] + n \in SUBSET Nat
    BY BoundsAssumption DEF DataOK
  <2>5. /\ taken' \in [Conns -> [Directions -> Nat]]
        /\ \A x \in Conns, y \in Directions :
              taken'[x][y] = IF x = c /\ y = d THEN taken[c][d] + n
                             ELSE taken[x][y]
    BY <2>2, <2>4, Update DEF DataOK
  <2>6. /\ buffer' \in [Conns -> [Directions -> SUBSET Nat]]
        /\ \A x \in Conns, y \in Directions :
              buffer'[x][y] = IF x = c /\ y = d
                              THEN taken[c][d] + 1 .. taken[c][d] + n
                              ELSE buffer[x][y]
    BY <2>2, <2>4, Update DEF DataOK
  <2>7. DataOK'
    BY <2>1, <2>5, <2>6 DEF DataOK
  <2>8. TypeOK'
    <3>1. ASSUME NEW x \in Conns, NEW y \in Directions
          PROVE  /\ written[x][y] \in 0 .. Units[x][y]
                 /\ taken'[x][y] \in 0 .. written[x][y]
                 /\ got[x][y] \subseteq 1 .. taken'[x][y]
                 /\ buffer'[x][y] \subseteq 1 .. taken'[x][y]
      <4>1. /\ written[x][y] \in 0 .. Units[x][y] /\ written[x][y] \in Nat
            /\ taken[x][y] \in 0 .. written[x][y] /\ taken[x][y] \in Nat
            /\ got[x][y] \subseteq 1 .. taken[x][y]
            /\ buffer[x][y] \subseteq 1 .. taken[x][y]
        BY DEF TypeOK, DataOK
      <4>2. CASE x = c /\ y = d
        BY <4>1, <4>2, <2>2, <2>4, <2>5, <2>6
      <4>3. CASE ~(x = c /\ y = d)
        BY <4>1, <4>3, <2>5, <2>6
      <4>. QED
        BY <4>2, <4>3
    <3>. QED
      BY <3>1, <2>1, <2>3 DEF TypeOK, StepTo, accepting, peers
  <2>9. PassedOn'
    <3>. SUFFICES ASSUME ~partial, NEW x \in Conns, NEW y \in Directions
                  PROVE  Passed(x, y)'
      BY <2>1 DEF PassedOn, StepTo
    <3>1. PICK k \in 0 .. taken[x][y] :
             /\ got[x][y] = 1 .. k
             /\ thread[x][y] \in {"none", "call", "recv", "eof"} =>
                   k = taken[x][y]
             /\ thread[x][y] = "send" => buffer[x][y] = k + 1 .. taken[x][y]
      BY DEF PassedOn, Passed
    <3>2. CASE x = c /\ y = d
      <4>1. k = taken[c][d] /\ k \in 0 .. taken'[x][y]
        BY <3>1, <3>2, <2>1, <2>4, <2>5
      <4>2. thread'[x][y] = "send" /\ buffer'[x][y] = k + 1 .. taken'[x][y]
        BY <3>2, <4>1, <2>3, <2>5, <2>6
      <4>. QED
        BY <3>1, <4>1, <4>2, <2>1 DEF Passed
    <3>3. CASE ~(x = c /\ y = d)
      <4>1. /\ taken'[x][y] = taken[x][y] /\ buffer'[x][y] = buffer[x][y]
            /\ thread'[x][y] = thread[x][y] /\ got'[x][y] = got[x][y]
        BY <3>3, <2>1, <2>3, <2>5, <2>6
      <4>. QED
        BY <3>1, <4>1 DEF Passed
    <3>. QED
      BY <3>2, <3>3
  <2>10. EndIsLast'
    <3>. SUFFICES ASSUME NEW x \in Conns, thread'[x]["up"] = "eof"
                  PROVE  /\ client'[x] = "fin"
                         /\ taken'[x]["up"] = written'[x]["up"]
      BY DEF EndIsLast
    <3>1. "up" \in Directions
      BY DEF Directions
    <3>. QED
      BY <3>1, <2>1, <2>3, <2>5 DEF EndIsLast, StepTo, peers
  <2>. QED
    BY <2>3, <2>7, <2>8, <2>9, <2>10
<1>5. CASE Send(c, d)
  <2>1. /\ StepTo(c, d, "call") /\ "call" \in AtWork
        /\ thread[c][d] = "send"
        /\ UNCHANGED <<sock, chan, listening, taken, written>>
    BY <1>5 DEF Send, StepTo, AtWork, ended, accepting
  <2>2. PICK sent \in SUBSET buffer[c][d] :
           /\ ~partial => sent = buffer[c][d]
           /\ got' = [got EXCEPT ![c][d] = got[c][d] \cup sent]
           /\ buffer' = [buffer EXCEPT ![c][d] = {}]
    BY <1>5 DEF Send
  <2>3. /\ InSession' /\ LoopHolds' /\ ThreadsOK' /\ AcceptedIsHandled'
        /\ thread' \in [Conns -> [Directions ->
                  {"none", "call", "recv", "send", "joined"} \cup ended]]
        /\ \A x \in Conns, y \in Directions :
              thread'[x][y] = IF x = c /\ y = d THEN "call"
                              ELSE thread[x][y]
    BY <2>1, ThreadFrame
  <2>4. got[c][d] \cup sent \in SUBSET Nat
    BY DEF DataOK
  <2>5. /\ got' \in [Conns -> [Directions -> SUBSET Nat]]
        /\ \A x \in Conns, y \in Directions :
              got'[x][y] = IF x = c /\ y = d THEN got[c][d] \cup sent
                           ELSE got[x][y]
    BY <2>2, <2>4, Update DEF DataOK
  <2>6. /\ buffer' \in [Conns -> [Directions -> SUBSET Nat]]
        /\ \A x \in Conns, y \in Directions :
              buffer'[x][y] = IF x = c /\ y = d THEN {} ELSE buffer[x][y]
    BY <2>2, Update DEF DataOK
  <2>7. DataOK'
    BY <2>1, <2>5, <2>6 DEF DataOK
  <2>8. TypeOK'
    <3>1. \A x \in Conns, y \in Directions :
             /\ got'[x][y] \subseteq 1 .. taken[x][y]
             /\ buffer'[x][y] \subseteq 1 .. taken[x][y]
      BY <2>5, <2>6 DEF TypeOK
    <3>. QED
      BY <3>1, <2>1, <2>3 DEF TypeOK, StepTo, accepting, peers
  <2>9. PassedOn'
    <3>. SUFFICES ASSUME ~partial, NEW x \in Conns, NEW y \in Directions
                  PROVE  Passed(x, y)'
      BY <2>1 DEF PassedOn, StepTo
    <3>1. PICK k \in 0 .. taken[x][y] :
             /\ got[x][y] = 1 .. k
             /\ thread[x][y] \in {"none", "call", "recv", "eof"} =>
                   k = taken[x][y]
             /\ thread[x][y] = "send" => buffer[x][y] = k + 1 .. taken[x][y]
      BY DEF PassedOn, Passed
    <3>2. CASE x = c /\ y = d
      <4>1. got'[x][y] = (1 .. k) \cup (k + 1 .. taken[x][y])
        BY <3>1, <3>2, <2>1, <2>2, <2>5
      <4>2. taken[x][y] \in Nat /\ k \in Nat /\ k <= taken[x][y]
        BY <3>1 DEF DataOK
      <4>3. got'[x][y] = 1 .. taken[x][y] /\ taken[x][y] \in 0 .. taken[x][y]
        BY <4>1, <4>2
      <4>. QED
        BY <4>3, <3>2, <2>1, <2>3 DEF Passed
    <3>3. CASE ~(x = c /\ y = d)
      <4>1. /\ taken'[x][y] = taken[x][y] /\ buffer'[x][y] = buffer[x][y]
            /\ thread'[x][y] = thread[x][y] /\ got'[x][y] = got[x][y]
        BY <3>3, <2>1, <2>3, <2>5, <2>6
      <4>. QED
        BY <3>1, <4>1 DEF Passed
    <3>. QED
      BY <3>2, <3>3
  <2>10. EndIsLast'
    BY <2>1, <2>3 DEF EndIsLast, StepTo, peers, Directions
  <2>. QED
    BY <2>3, <2>7, <2>8, <2>9, <2>10
<1>. QED
  BY <1>1, <1>2, <1>3, <1>4, <1>5 DEF Forward

\* Joining the threads of a connection keeps the invariant.
LEMMA FinishIInv ==
  ASSUME IInv, NEW c \in Conns, Finish(c)
  PROVE  IInv'
<1>. USE DEF IInv, accepting, peers, data
<1>1. /\ sock' = [sock EXCEPT ![c] = "closed"]
      /\ chan' = [chan EXCEPT ![c] = "closed"]
      /\ thread' = [thread EXCEPT ![c] = [d \in Directions |-> "joined"]]
      /\ UNCHANGED <<partial, accepting, peers, data>>
      /\ thread[c]["up"] \in ended /\ thread[c]["down"] \in ended
      /\ \A d \in Directions : thread[c][d] \in ended
  BY DEF Finish, Directions
<1>2. \A x \in Conns, y \in Directions :
         thread'[x][y] = IF x = c THEN "joined" ELSE thread[x][y]
  BY <1>1 DEF TypeOK
<1>3. current # c /\ sock[c] \notin {"none", "backlog"} /\ client[c] # "out"
  BY <1>1 DEF ThreadsOK, ended
<1>4. TypeOK'
  <2>1. /\ sock' \in [Conns -> {"none", "backlog", "open", "closed"}]
        /\ chan' \in [Conns -> {"none", "open", "closed"}]
        /\ thread' \in [Conns -> [Directions ->
                  {"none", "call", "recv", "send", "joined"} \cup ended]]
    BY <1>1 DEF TypeOK
  <2>. QED
    BY <2>1, <1>1 DEF TypeOK
<1>5. DataOK' /\ InSession'
  BY <1>1 DEF DataOK, InSession, TypeOK
<1>6. LoopHolds'
  BY <1>1, <1>3 DEF LoopHolds, TypeOK
<1>7. ThreadsOK'
  BY <1>1, <1>2, <1>3 DEF ThreadsOK, TypeOK, Directions
<1>8. AcceptedIsHandled'
  BY <1>1, <1>2 DEF AcceptedIsHandled, TypeOK
<1>9. PassedOn'
  <2>. SUFFICES ASSUME ~partial, NEW x \in Conns, NEW y \in Directions
                PROVE  Passed(x, y)'
    BY <1>1 DEF PassedOn
  <2>1. PICK k \in 0 .. taken[x][y] :
           /\ got[x][y] = 1 .. k
           /\ thread[x][y] \in {"none", "call", "recv", "eof"} =>
                 k = taken[x][y]
           /\ thread[x][y] = "send" => buffer[x][y] = k + 1 .. taken[x][y]
    BY DEF PassedOn, Passed
  <2>. QED
    BY <2>1, <1>1, <1>2 DEF Passed
<1>10. EndIsLast'
  BY <1>1, <1>2 DEF EndIsLast, Directions
<1>. QED
  BY <1>4, <1>5, <1>6, <1>7, <1>8, <1>9, <1>10

\* Every step keeps the invariant.
LEMMA NextIInv == IInv /\ [Next]_vars => IInv'
<1>1. IInv /\ UNCHANGED vars => IInv'
  <2>. SUFFICES ASSUME IInv, UNCHANGED vars PROVE IInv'
    OBVIOUS
  <2>1. DataOK' /\ PassedOn' /\ EndIsLast'
    BY DataFrame DEF vars, data
  <2>2. TypeOK'
    BY DEF IInv, vars, TypeOK
  <2>3. InSession' /\ LoopHolds' /\ ThreadsOK' /\ AcceptedIsHandled'
    BY DEF IInv, vars, InSession, LoopHolds, ThreadsOK, AcceptedIsHandled
  <2>. QED
    BY <2>1, <2>2, <2>3 DEF IInv
<1>. QED
  BY <1>1, ExternalIInv, AcceptLoopIInv, ForwardIInv, FinishIInv, StopIInv
  DEF Next

\* The invariant holds of every behaviour.
THEOREM Invariance == Spec => []IInv
  BY InitIInv, NextIInv, PTL DEF Spec

-----------------------------------------------------------------------------
(* The theorems.                                                           *)

\* Every variable keeps its type.
THEOREM TypeCorrect == Spec => []TypeOK
<1>1. IInv => TypeOK
  BY DEF IInv
<1>. QED
  BY <1>1, Invariance, PTL

\* No channel is open after stop has returned.
THEOREM StopIsFinal == Spec => []NoChannelAfterStop
<1>1. IInv => NoChannelAfterStop
  BY DEF IInv, InSession, NoChannelAfterStop
<1>. QED
  BY <1>1, Invariance, PTL

\* No accepted connection is left without the loop or its threads.
THEOREM NoneAbandoned == Spec => []AcceptedIsHandled
<1>1. IInv => AcceptedIsHandled
  BY DEF IInv
<1>. QED
  BY <1>1, Invariance, PTL

\* If send takes all it is given, what a connection forwards is complete.
THEOREM Completeness == Spec => []ForwardedWhenComplete
<1>1. IInv => ForwardedWhenComplete
  <2>. SUFFICES ASSUME IInv, ~partial, NEW c \in Conns, NEW d \in Directions
                PROVE
          /\ got[c][d] = 1 .. Cardinality(got[c][d])
          /\ thread[c]["up"] = "eof" => got[c]["up"] = 1 .. written[c]["up"]
    BY DEF ForwardedWhenComplete
  <2>1. \A y \in Directions : Passed(c, y)
    BY DEF IInv, PassedOn
  <2>2. PICK k \in 0 .. taken[c][d] : got[c][d] = 1 .. k
    BY <2>1 DEF Passed
  <2>3. Cardinality(1 .. k) = k
    <3>1. k \in Int /\ 1 \in Int /\ k >= 0
      BY DEF IInv, DataOK
    <3>2. Cardinality(1 .. k) = IF 1 > k THEN 0 ELSE k - 1 + 1
      BY <3>1, FS_Interval
    <3>. QED
      BY <3>1, <3>2
  <2>4. ASSUME thread[c]["up"] = "eof"
        PROVE  got[c]["up"] = 1 .. written[c]["up"]
    <3>1. Passed(c, "up")
      BY <2>1 DEF Directions
    <3>2. got[c]["up"] = 1 .. taken[c]["up"]
      BY <2>4, <3>1 DEF Passed
    <3>. QED
      BY <2>4, <3>2 DEF IInv, EndIsLast
  <2>. QED
    BY <2>2, <2>3, <2>4
<1>. QED
  BY <1>1, Invariance, PTL
=============================================================================
