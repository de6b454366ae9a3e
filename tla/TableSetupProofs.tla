-------------------------- MODULE TableSetupProofs --------------------------
(***************************************************************************)
(* Proofs, for any streams, rows, settings and number of runs, that a      *)
(* process of the target starts one tunnel, in its main thread, and that   *)
(* nothing goes around a tunnel that was asked for.                        *)
(*                                                                         *)
(* Neither is inductive.  That no other thread finds the tunnel missing    *)
(* holds because a row is only buffered for a stream that is prepared, a   *)
(* stream is only prepared through the engine, and the engine was created  *)
(* with the address of a tunnel that stays cached, also when it is stopped.*)
(***************************************************************************)
EXTENDS TableSetup, TLAPS

\* The tunnel is enabled, and no sqlalchemy_url goes around it.
NeedsTunnel == cfg.tunnel /\ ~cfg.url

\* The tunnel is started once, while the main thread looks for an address.
OneTunnel ==
  /\ tunnel \in {"none", "up", "stopped"}
  /\ starting \subseteq {Main}
  /\ starts = IF tunnel = "none" THEN 0 ELSE 1
  /\ Main \in starting =>
       /\ tunnel = "none"
       /\ \/ pc = "down"
          \/ pc = "schema" /\ SchemaOf[stream] # "default" /\ ~cfg.url
          \/ pc = "table" /\ engine = "none" /\ ~cfg.url

\* The engine was created after the tunnel, and is there before any row is.
EngineFirst ==
  /\ NeedsTunnel /\ engine # "none" => tunnel # "none"
  /\ pc \in {"columns", "draining"} => engine # "none"
  /\ ready # {} => engine # "none"
  /\ where \in [Rows -> {"unsent", "buffered", "draining", "stored", "merged"}]
  /\ \A r \in Rows : where[r] \in {"buffered", "draining"} => engine # "none"

\* Every address a process keeps or has used is that of the tunnel.
OnlyTheTunnel ==
  /\ client \in [Streams -> {"none", "direct", "tunnel"}]
  /\ NeedsTunnel =>
       /\ used \subseteq {"tunnel"}
       /\ engine \in {"none", "tunnel"}
       /\ \A s \in Streams : client[s] \in {"none", "tunnel"}

IInv == OneTunnel /\ EngineFirst /\ OnlyTheTunnel

\* A thread that has its answer gets the tunnel, if one was asked for.
LEMMA SettledAddress ==
  ASSUME NEW t, Settled(t), NeedsTunnel
  PROVE  HostPort = "tunnel" /\ Url = "tunnel"
  BY DEF Settled, HostPort, Url, NeedsTunnel

\* The main thread does not go on before it has its answer.
LEMMA ReadyAddress ==
  ASSUME OneTunnel, UrlReady(Main)
  PROVE  /\ NeedsTunnel => Url = "tunnel" /\ tunnel # "none"
         /\ pc = "table" \/ pc = "schema" => Main \notin starting
  BY SettledAddress DEF UrlReady, Settled, NeedsTunnel, OneTunnel

\* The invariant holds initially.
LEMMA InitIInv == Init => IInv
  BY DEF Init, IInv, OneTunnel, EngineFirst, OnlyTheTunnel, NoClient

\* Every step keeps the invariant.
LEMMA NextIInv == IInv /\ [Next]_vars => IInv'
<1>. SUFFICES ASSUME IInv, [Next]_vars PROVE IInv'
  OBVIOUS
<1>. USE DEF IInv
<1>1. ASSUME NEW t \in Threads, ConnectTunnel(t) PROVE IInv'
  <2>1. /\ pc # "down"
        /\ UNCHANGED <<cfg, pc, stream, ready, where, engine, client, used>>
    BY <1>1 DEF ConnectTunnel, FindNoTunnel, StartTunnel, setup, rows
  <2>2. NeedsTunnel' = NeedsTunnel
    BY <2>1 DEF NeedsTunnel
  <2>3. CASE Asks(t) /\ FindNoTunnel(t)
    <3>1. /\ NeedsTunnel /\ tunnel = "none"
          /\ starting' = starting \cup {t} /\ UNCHANGED <<tunnel, starts>>
      BY <2>3 DEF FindNoTunnel, Asks, UseClickhouseConnect, NeedsTunnel
    <3>2. engine = "none"
      BY <3>1 DEF EngineFirst
    <3>3. /\ t = Main /\ ~cfg.url
          /\ \/ pc = "schema" /\ SchemaOf[stream] # "default"
             \/ pc = "table"
      BY <2>3, <3>2 DEF Asks, EngineFirst
    <3>. QED
      BY <2>1, <2>2, <3>1, <3>2, <3>3
         DEF OneTunnel, EngineFirst, OnlyTheTunnel
  <2>4. CASE StartTunnel(t)
    <3>1. /\ t \in starting /\ tunnel' = "up" /\ starts' = starts + 1
          /\ starting' = starting \ {t}
      BY <2>4 DEF StartTunnel
    <3>2. OneTunnel'
      BY <2>1, <3>1 DEF OneTunnel
    <3>3. EngineFirst' /\ OnlyTheTunnel'
      BY <2>1, <2>2, <3>1 DEF EngineFirst, OnlyTheTunnel
    <3>. QED
      BY <3>2, <3>3
  <2>. QED
    BY <1>1, <2>3, <2>4 DEF ConnectTunnel
<1>2. ASSUME NEW s \in Streams, Schema(s) PROVE IInv'
  <2>1. /\ pc = "idle" /\ pc' \in {"table", "schema"}
        /\ UNCHANGED <<cfg, tunnel, starting, starts, engine, client, used,
                       ready, where>>
    BY <1>2 DEF Schema, connector, rows
  <2>. QED
    BY <2>1 DEF OneTunnel, EngineFirst, OnlyTheTunnel, NeedsTunnel
<1>3. CASE prepare_schema
  <2>1. /\ pc = "schema" /\ pc' \in {"table", "down"}
        /\ \/ SchemaOf[stream] = "default" /\ UNCHANGED used
           \/ UrlReady(Main) /\ used' = used \cup {Url}
        /\ UNCHANGED <<cfg, tunnel, starting, starts, engine, client, ready,
                       where>>
    BY <1>3 DEF prepare_schema, ensure_database_exists, Connect, Missing, rows
  <2>2. NeedsTunnel => used' \subseteq used \cup {"tunnel"}
    BY <2>1, ReadyAddress
  <2>3. Main \notin starting
    BY <2>1, ReadyAddress DEF OneTunnel
  <2>. QED
    BY <2>1, <2>2, <2>3 DEF OneTunnel, EngineFirst, OnlyTheTunnel, NeedsTunnel
<1>4. CASE create_engine
  <2>1. /\ pc = "table" /\ engine = "none" /\ UrlReady(Main)
        /\ \/ UNCHANGED used
           \/ used' = used \cup {Url}
        /\ \/ engine' = Url /\ UNCHANGED pc
           \/ pc' = "down" /\ UNCHANGED engine
        /\ UNCHANGED <<cfg, tunnel, starting, starts, client, ready, where>>
    BY <1>4 DEF create_engine, ensure_database_exists, Connect, Missing, rows
  <2>2. NeedsTunnel => Url = "tunnel" /\ tunnel # "none"
    BY <2>1, ReadyAddress
  <2>3. Main \notin starting
    BY <2>1, ReadyAddress
  <2>4. Url # "none"
    BY DEF Url, HostPort
  <2>5. NeedsTunnel' = NeedsTunnel
    BY <2>1 DEF NeedsTunnel
  <2>6. OneTunnel'
    BY <2>1, <2>3 DEF OneTunnel
  <2>7. EngineFirst'
    BY <2>1, <2>2, <2>4, <2>5 DEF EngineFirst
  <2>8. OnlyTheTunnel'
    BY <2>1, <2>2, <2>5 DEF OnlyTheTunnel
  <2>. QED
    BY <2>6, <2>7, <2>8
<1>5. ASSUME \/ create_empty_table \/ FindTable
             \/ \E p \in todo : prepare_column(p)
      PROVE  IInv'
  <2>1. /\ engine # "none" /\ used' = used \cup {engine}
        /\ pc \in {"table", "columns"}
        /\ pc' \in {"idle", "down", "columns"}
        /\ UNCHANGED <<cfg, tunnel, starting, starts, engine, client, where>>
    BY <1>5
       DEF create_empty_table, FindTable, prepare_column, Connect, Missing,
           rows, EngineFirst
  <2>2. Main \notin starting
    BY <2>1 DEF OneTunnel
  <2>. QED
    BY <2>1, <2>2 DEF OneTunnel, EngineFirst, OnlyTheTunnel, NeedsTunnel
<1>6. ASSUME NEW r \in Rows, Record(r) PROVE IInv'
  <2>1. /\ pc = "idle" /\ StreamOf[r] \in ready
        /\ \/ pc' = "down" /\ UNCHANGED where
           \/ where' = [where EXCEPT ![r] = "buffered"] /\ UNCHANGED pc
        /\ UNCHANGED <<cfg, tunnel, starting, starts, engine, client, used,
                       ready>>
    BY <1>6 DEF Record, connector, rows
  <2>2. engine # "none" /\ Main \notin starting
    BY <2>1 DEF EngineFirst, OneTunnel
  <2>. QED
    BY <2>1, <2>2 DEF OneTunnel, EngineFirst, OnlyTheTunnel, NeedsTunnel
<1>7. CASE Drain
  <2>1. /\ pc = "idle" /\ pc' = "draining"
        /\ \E r \in Rows : where[r] = "buffered"
        /\ where' = [r \in Rows |->
                       IF where[r] = "buffered" THEN "draining" ELSE where[r]]
        /\ UNCHANGED <<cfg, tunnel, starting, starts, engine, client, used,
                       ready>>
    BY <1>7 DEF Drain, Move, connector
  <2>2. engine # "none" /\ Main \notin starting
    BY <2>1 DEF EngineFirst, OneTunnel
  <2>. QED
    BY <2>1, <2>2 DEF OneTunnel, EngineFirst, OnlyTheTunnel, NeedsTunnel
<1>8. ASSUME NEW s \in Streams, ClientConnects(s) PROVE IInv'
  <2>1. /\ Settled(s) /\ used' = used \cup {HostPort}
        /\ client' = [client EXCEPT ![s] = HostPort]
        /\ UNCHANGED <<cfg, tunnel, starting, starts, engine, pc, stream, ready,
                       where>>
    BY <1>8
       DEF ClientConnects, BuildClient, Connect, ClientHostPort, setup, rows
  <2>2. /\ HostPort \in {"direct", "tunnel"}
        /\ NeedsTunnel => HostPort = "tunnel"
    BY <2>1, SettledAddress DEF HostPort
  <2>. QED
    BY <2>1, <2>2 DEF OneTunnel, EngineFirst, OnlyTheTunnel, NeedsTunnel
<1>9. ASSUME NEW s \in Streams, Insert(s) PROVE IInv'
  <2>1. /\ pc = "draining" /\ pc' \in {"down", "draining", "idle"}
        /\ UNCHANGED <<cfg, tunnel, starting, starts, engine, client, ready>>
    BY <1>9 DEF Insert, Missing
  <2>2. PICK address \in {client[s], engine} :
          used' = used \cup {address} /\ address # "none"
    BY <1>9, <2>1 DEF Insert, InsertAddresses, Connect, EngineFirst
  <2>3. where' \in [Rows ->
                      {"unsent", "buffered", "draining", "stored", "merged"}]
    BY <1>9 DEF Insert, Move, EngineFirst
  <2>4. OneTunnel'
    BY <2>1 DEF OneTunnel
  <2>5. EngineFirst'
    BY <2>1, <2>3 DEF EngineFirst, NeedsTunnel
  <2>6. OnlyTheTunnel'
    BY <2>1, <2>2 DEF OnlyTheTunnel, NeedsTunnel
  <2>. QED
    BY <2>4, <2>5, <2>6
<1>10. ASSUME NEW r \in Rows, NEW q \in Rows, Merge(r, q) PROVE IInv'
  <2>1. /\ where' = [where EXCEPT ![r] = "merged"]
        /\ UNCHANGED <<cfg, tunnel, starting, starts, engine, client, used,
                       pc, stream, ready>>
    BY <1>10 DEF Merge, connector, setup
  <2>. QED
    BY <2>1 DEF OneTunnel, EngineFirst, OnlyTheTunnel, NeedsTunnel
<1>11. ASSUME NEW s \in Streams, Grow(s) PROVE IInv'
  <2>1. /\ ready' = ready \ {s} /\ client' = [client EXCEPT ![s] = "none"]
        /\ UNCHANGED <<cfg, tunnel, starting, starts, engine, used, pc, stream,
                       where>>
    BY <1>11 DEF Grow, rows
  <2>. QED
    BY <2>1 DEF OneTunnel, EngineFirst, OnlyTheTunnel, NeedsTunnel
<1>12. CASE Signal
  <2>1. /\ tunnel = "up" /\ tunnel' = "stopped"
        /\ UNCHANGED <<cfg, starting, starts, engine, client, used, pc, ready,
                       where>>
    BY <1>12 DEF Signal, stop_ssh_tunnel, setup, rows
  <2>. QED
    BY <2>1 DEF OneTunnel, EngineFirst, OnlyTheTunnel, NeedsTunnel
<1>13. CASE clean_up
  <2>1. /\ pc = "idle" /\ pc' = "done" /\ client' = NoClient
        /\ tunnel' = IF tunnel = "up" THEN "stopped" ELSE tunnel
        /\ UNCHANGED <<cfg, starting, starts, engine, used, ready, where>>
    BY <1>13 DEF clean_up, stop_ssh_tunnel, rows
  <2>2. OneTunnel'
    BY <2>1 DEF OneTunnel
  <2>3. EngineFirst'
    BY <2>1 DEF EngineFirst, NeedsTunnel
  <2>4. OnlyTheTunnel'
    BY <2>1 DEF OnlyTheTunnel, NeedsTunnel, NoClient
  <2>. QED
    BY <2>2, <2>3, <2>4
<1>14. CASE Crash
  <2>1. /\ pc' = "down"
        /\ UNCHANGED <<cfg, tunnel, starting, starts, engine, client, used,
                       ready, where>>
    BY <1>14 DEF Crash, connector, rows
  <2>. QED
    BY <2>1 DEF OneTunnel, EngineFirst, OnlyTheTunnel, NeedsTunnel
<1>15. CASE Restart
  <2>1. /\ tunnel' = "none" /\ starting' = {} /\ starts' = 0
        /\ engine' = "none" /\ client' = NoClient /\ used' = {}
        /\ pc' = "idle" /\ ready' = {}
        /\ where' = [r \in Rows |->
             IF where[r] \in {"buffered", "draining"} THEN "unsent"
                                                     ELSE where[r]]
    BY <1>15 DEF Restart, Disconnected, Move
  <2>. QED
    BY <2>1 DEF OneTunnel, EngineFirst, OnlyTheTunnel, NoClient
<1>16. CASE UNCHANGED vars
  BY <1>16
     DEF vars, connector, setup, rows, OneTunnel, EngineFirst, OnlyTheTunnel,
         NeedsTunnel
<1>. QED
  BY <1>1, <1>2, <1>3, <1>4, <1>5, <1>6, <1>7, <1>8, <1>9, <1>10, <1>11, <1>12,
     <1>13, <1>14, <1>15, <1>16
     DEF Next, Prepare, Load

\* The invariant holds of every behaviour.
THEOREM Invariance == Spec => []IInv
  BY InitIInv, NextIInv, PTL DEF Spec

\* A process starts one tunnel, and its main thread does, although no lock keeps
\* two threads from finding that there is none.
THEOREM TunnelStartedOnce == Spec => []TunnelOnce
<1>1. IInv => TunnelOnce
  BY DEF IInv, OneTunnel, TunnelOnce
<1>. QED
  BY <1>1, Invariance, PTL

\* Nothing goes around a tunnel that was asked for, with any number of streams
\* and sinks, before and after a signal has stopped it.
THEOREM NothingGoesAround == Spec => []NeverAround
<1>1. IInv => NeverAround
  BY DEF IInv, OnlyTheTunnel, NeverAround, NeedsTunnel
<1>. QED
  BY <1>1, Invariance, PTL
=============================================================================
