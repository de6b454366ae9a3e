------------------------------ MODULE Connector ------------------------------
(***************************************************************************)
(* How a process of the target reaches ClickHouse: ClickhouseConnector     *)
(* (target_clickhouse/connectors.py) with the engine and the SSH tunnel it *)
(* caches, and the clickhouse-connect client that each sink caches         *)
(* (target_clickhouse/sinks.py).  The main thread sets the tables up; one  *)
(* thread for each stream inserts.                                         *)
(*                                                                         *)
(* An address is where a connection goes: "direct", to the configured host *)
(* and port; "tunnel", to the local port of the tunnel; or "url", to where *)
(* an explicit sqlalchemy_url says.  Of the tunnel, module SSHTunnel has   *)
(* the inside; here it is started, and stopped by a signal or at exit.     *)
(*                                                                         *)
(* _tunneled_host_port looks whether there is a tunnel, starts one, and    *)
(* then keeps it: threads can come between.  A start that fails, wherever  *)
(* it does, raises, and ends the process as a failed statement does.       *)
(***************************************************************************)
EXTENDS Integers, FiniteSets

CONSTANTS Streams, Main

ASSUME MainAssumption == Main \notin Streams

Threads == Streams \cup {Main}

VARIABLES
  cfg,      \* the settings, and what the tap sends
  tunnel,   \* _ssh_tunnel: "none", "up", or "stopped" and still cached
  starting, \* the threads that found no tunnel, and are starting one
  starts,   \* the tunnels this process has started
  engine,   \* the address of the cached _engine, or "none"
  client,   \* that of the clickhouse-connect client of each sink, or "none"
  used      \* observed: the addresses this process has connected to

connector == <<tunnel, starting, starts, engine, client, used>>

NoClient == [s \in Streams |-> "none"]

Disconnected ==
  /\ tunnel' = "none" /\ starting' = {} /\ starts' = 0
  /\ engine' = "none" /\ client' = NoClient /\ used' = {}

-----------------------------------------------------------------------------
(* _tunneled_host_port.                                                    *)

\* It can answer: there is a tunnel, or ssh_tunnel is not enabled.
Settled(t) == t \notin starting /\ (cfg.tunnel => tunnel # "none")

HostPort == IF tunnel # "none" THEN "tunnel" ELSE "direct"

FindNoTunnel(t) ==
  /\ cfg.tunnel /\ tunnel = "none" /\ t \notin starting
  /\ starting' = starting \cup {t}
  /\ UNCHANGED <<tunnel, starts, engine, client, used>>

StartTunnel(t) ==
  /\ t \in starting
  /\ tunnel' = "up" /\ starts' = starts + 1
  /\ starting' = starting \ {t}
  /\ UNCHANGED <<engine, client, used>>

stop_ssh_tunnel_Defect == tunnel' = "none"

\* Stopped by a signal or at exit: it stays cached, and is not started again.
stop_ssh_tunnel == tunnel' = IF tunnel = "up" THEN "stopped" ELSE tunnel

-----------------------------------------------------------------------------
(* Connections.                                                            *)

\* An explicit sqlalchemy_url is used as it is, before _tunneled_host_port is
\* asked: with it an enabled tunnel is never started, and nothing goes through.
Url == IF cfg.url THEN "url" ELSE HostPort

UrlReady(t) == cfg.url \/ Settled(t)

\* A statement is sent, and can only be answered by an address that is served.
Connect(address) ==
  /\ address = "tunnel" => tunnel = "up"
  /\ used' = used \cup {address}

UseClickhouseConnect == cfg.driver = "http" /\ ~cfg.url

ClientHostPort_Defect == "direct"

\* The client of a sink asks the connector where to connect to.
ClientHostPort == HostPort

BuildClient(s) ==
  /\ UseClickhouseConnect /\ client[s] = "none" /\ Settled(s)
  /\ Connect(ClientHostPort)
  /\ client' = [client EXCEPT ![s] = ClientHostPort]
  /\ UNCHANGED <<tunnel, starting, starts, engine>>

\* What an insert goes through: the client of its sink or, when there is none
\* or the insert through it has failed, the engine.
InsertAddresses(s) ==
  IF UseClickhouseConnect /\ client[s] # "none" THEN {client[s], engine}
                                                ELSE {engine}
=============================================================================
