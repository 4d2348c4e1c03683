---------------------------- MODULE MCExporter ----------------------------
(***************************************************************************)
(* Exporter with four of its collectors and two requests.  DBMap is empty  *)
(* and MonitDB is its zero value, as nothing in the program writes either: *)
(* only pg_database, which opens its own database, has a connection.       *)
(***************************************************************************)
EXTENDS Exporter, TLC

MCCollectors == {"pg", "pg_database", "pg_connections", "pg_stat_bgwriter"}

MCDBMap == [k \in {} |-> [Connection |-> "nil", Version |-> ""]]

(* pg's statements disabled, pg_database enabled, pg_stat_bgwriter failing
   Check, pg_connections not configured. *)
MCMetricMap ==
  ("pg" :> "disabled") @@ ("pg_database" :> "enabled") @@ ("pg_stat_bgwriter" :> "invalid")

(* The same with pg_connections configured and enabled. *)
MCMetricMapAll == MCMetricMap @@ ("pg_connections" :> "enabled")

=============================================================================
