------------------------------- MODULE Keepers -------------------------------
(***************************************************************************)
(* The components that keep things for others to take and give back: the   *)
(* pools of services and ports, and the lists in Redis.                    *)
(***************************************************************************)
EXTENDS ServicePool, PortPool, RedisCache

\* What is handed out has one holder and is not lost: services through Redis
\* (PoolSound), ports in memory (PortsSound), values pushed on Redis lists
\* (ListsKeep).
PoolsSound == PoolSound /\ PortsSound /\ ListsKeep
=============================================================================
