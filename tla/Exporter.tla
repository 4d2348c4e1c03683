------------------------------ MODULE Exporter ------------------------------
(***************************************************************************)
(* The running exporter: HTTP scrapes that run every collector's Update    *)
(* concurrently, and the signal-driven shutdown of main (part_005).        *)
(*                                                                         *)
(* A scrape is a request to the promhttp handler: Gather runs the node     *)
(* collector, whose Collect starts one goroutine per registered collector  *)
(* (execute: Update, then a success sample) and waits for all of them.    *)
(* What getMetric does inside Update is the GetMetric module; here it      *)
(* only matters whether it returned samples, failed (errors are logged and *)
(* dropped), panicked on a nil *sql.DB, or blocked on a database that does *)
(* not answer (context.TODO() has no deadline).                            *)
(***************************************************************************)
EXTENDS Naturals, FiniteSets

CONSTANTS
  Collectors,   (* the names collectors register with RegisterCollector    *)
  PG,           (* the "pg" collector, which also reports pg_up/version     *)
  OwnDB,        (* collectors that sql.Open their own database (pg_database) *)
  DBMap,        (* config.DBMap: address -> [Connection, Version]           *)
  MonitKey,     (* the key "address:port" of config.MonitDB                 *)
  MetricMap,    (* config.MetricMap, by definition: "invalid" (Check fails),
                   "disabled" (no enabled statement) or "enabled"           *)
  Scrapes,      (* the HTTP requests to /metrics over a run                 *)
  DbMayHang     (* whether a statement may block forever                    *)

ASSUME ExporterAssumption ==
  /\ PG \in Collectors /\ OwnDB \subseteq Collectors
  /\ \A k \in DOMAIN DBMap :
       DBMap[k] \in [Connection : {"nil", "conn"}, Version : {"", "v"}]
  /\ \A c \in DOMAIN MetricMap : MetricMap[c] \in {"invalid", "disabled", "enabled"}
  /\ DbMayHang \in BOOLEAN

(* A missing key of DBMap gives Go's zero GBInfo: nil Connection, "" Version. *)
GetDBConnection(k) == IF k \in DOMAIN DBMap THEN DBMap[k].Connection ELSE "nil"
GetDBVersion(k) == IF k \in DOMAIN DBMap THEN DBMap[k].Version ELSE ""

(* The db field of a collector built on config.MonitDB, such as pg. *)
MonitDBHandle == GetDBConnection(MonitKey)

(* The db field each collector's constructor stores: pg_database opens its
   own (sql.Open with the registered driver does not fail). *)
DbHandle(c) == IF c \in OwnDB THEN "conn" ELSE MonitDBHandle

(* The samples a scrape gathers. *)
Sample(c, kind) == [c |-> c, kind |-> kind]

(* Stages of one collector's goroutine in one scrape. *)
Stages == {"idle", "start", "query", "up", "version", "ok", "failed", "hung", "done"}

VARIABLES
  proc,         (* "init", "configured", "serving", "stopping", and the ends
                   "exited" (os.Exit), "stopped", "killed" or "crashed"      *)
  req,          (* req[s]: "none", "collecting" or "answered"               *)
  st,           (* st[s][c]: where collector c's goroutine of scrape s is    *)
  out           (* out[s]: the samples scrape s has gathered                *)

vars == <<proc, req, st, out>>

TypeOK ==
  /\ proc \in {"init", "configured", "serving", "stopping",
              "exited", "stopped", "killed", "crashed"}
  /\ req \in [Scrapes -> {"none", "collecting", "answered"}]
  /\ st \in [Scrapes -> [Collectors -> Stages]]
  /\ out \in [Scrapes -> SUBSET [c : Collectors,
                                 kind : {"rows", "up", "version", "success", "failure"}]]

(* The process starts in main. *)
Init ==
  /\ proc = "init"
  /\ req = [s \in Scrapes |-> "none"]
  /\ st = [s \in Scrapes |-> [c \in Collectors |-> "idle"]]
  /\ out = [s \in Scrapes |-> {}]

(***************************************************************************)
(* main's InitConfig (ConfigLoader): an error ends the process with        *)
(* os.Exit(1); otherwise MetricMap holds the definitions.                  *)
(***************************************************************************)
StartUp ==
  /\ proc = "init"
  /\ proc' \in {"configured", "exited"}
  /\ UNCHANGED <<req, st, out>>

(***************************************************************************)
(* newExporter builds every registered collector and registers the node    *)
(* collector; the server and the signal goroutine start.  No factory can   *)
(* fail: sql.Open of the registered "postgres" driver never returns an     *)
(* error, so the os.Exit branch after newExporter is not reachable.        *)
(***************************************************************************)
NewExporter ==
  /\ proc = "configured"
  /\ proc' = "serving"
  /\ UNCHANGED <<req, st, out>>

(* ListenAndServe fails to bind before any request: os.Exit(1). *)
ListenFailed ==
  /\ proc = "serving" /\ \A s \in Scrapes : req[s] = "none"
  /\ proc' = "exited"
  /\ UNCHANGED <<req, st, out>>

(* A request to /metrics: Collect starts one goroutine per collector. *)
Request(s) ==
  /\ proc = "serving" /\ req[s] = "none"
  /\ req' = [req EXCEPT ![s] = "collecting"]
  /\ st' = [st EXCEPT ![s] = [c \in Collectors |-> "start"]]
  /\ UNCHANGED <<proc, out>>

Going(s, c, from, to) == st[s][c] = from /\ st' = [st EXCEPT ![s][c] = to]

(* Update looks its definition up in MetricMap and Checks it. *)
Lookup(s, c) ==
  /\ proc \in {"serving", "stopping"}
  /\ Going(s, c, "start",
           IF c \in DOMAIN MetricMap /\ MetricMap[c] # "invalid" THEN "query" ELSE "failed")
  /\ UNCHANGED <<proc, req, out>>

(* After getMetric, pg goes on to pg_up; the others return nil. *)
AfterQuery(c) == IF c = PG THEN "up" ELSE "ok"

(***************************************************************************)
(* getMetric and the sends of its samples.  A definition without enabled   *)
(* statements returns nothing.  Otherwise a nil db panics in QueryContext, *)
(* which nothing recovers: the process dies.  A live database answers with *)
(* rows or an error (logged, dropped), or, when it may, never answers.     *)
(***************************************************************************)
Query(s, c) ==
  /\ proc \in {"serving", "stopping"} /\ st[s][c] = "query"
  /\ \/ /\ MetricMap[c] = "disabled"
        /\ Going(s, c, "query", AfterQuery(c))
        /\ UNCHANGED <<proc, req, out>>
     \/ /\ MetricMap[c] = "enabled" /\ DbHandle(c) = "nil"
        /\ proc' = "crashed"
        /\ UNCHANGED <<req, st, out>>
     \/ /\ MetricMap[c] = "enabled" /\ DbHandle(c) = "conn"
        /\ \/ /\ Going(s, c, "query", AfterQuery(c))
              /\ out' = [out EXCEPT ![s] = @ \cup {Sample(c, "rows")}]
           \/ /\ Going(s, c, "query", AfterQuery(c))
              /\ UNCHANGED out
           \/ /\ DbMayHang
              /\ Going(s, c, "query", "hung")
              /\ UNCHANGED out
        /\ UNCHANGED <<proc, req>>

(* pg: p.up.Set(1) and send p.up, whatever getMetric returned. *)
SendUp(s) ==
  /\ proc \in {"serving", "stopping"}
  /\ Going(s, PG, "up", "version")
  /\ out' = [out EXCEPT ![s] = @ \cup {Sample(PG, "up")}]
  /\ UNCHANGED <<proc, req>>

(* pg: an empty version is an error; otherwise a new p.version is sent. *)
SendVersion(s) ==
  /\ proc \in {"serving", "stopping"}
  /\ Going(s, PG, "version", IF GetDBVersion(MonitKey) = "" THEN "failed" ELSE "ok")
  /\ out' = IF GetDBVersion(MonitKey) = ""
              THEN out ELSE [out EXCEPT ![s] = @ \cup {Sample(PG, "version")}]
  /\ UNCHANGED <<proc, req>>

(* One collector's Update, step by step. *)
UpdateStep(s, c) ==
  \/ Lookup(s, c)
  \/ Query(s, c)
  \/ c = PG /\ SendUp(s)
  \/ c = PG /\ SendVersion(s)

(* Variant that sends the success sample only after a nil error. *)
ReportOnlyOk(s, c) ==
  /\ proc \in {"serving", "stopping"} /\ st[s][c] = "ok"
  /\ st' = [st EXCEPT ![s][c] = "done"]
  /\ out' = [out EXCEPT ![s] = @ \cup {Sample(c, "success")}]
  /\ UNCHANGED <<proc, req>>

(* execute: after Update, the collector's success sample (1 or 0). *)
Report(s, c) ==
  /\ proc \in {"serving", "stopping"} /\ st[s][c] \in {"ok", "failed"}
  /\ st' = [st EXCEPT ![s][c] = "done"]
  /\ out' = [out EXCEPT ![s] = @ \cup
              {Sample(c, IF st[s][c] = "ok" THEN "success" ELSE "failure")}]
  /\ UNCHANGED <<proc, req>>

(* Variant without wg.Wait. *)
RespondNoWait(s) ==
  /\ proc \in {"serving", "stopping"} /\ req[s] = "collecting"
  /\ req' = [req EXCEPT ![s] = "answered"]
  /\ UNCHANGED <<proc, st, out>>

(* Collect's wg.Wait: the response is written once every goroutine is done. *)
Respond(s) ==
  /\ proc \in {"serving", "stopping"} /\ req[s] = "collecting"
  /\ \A c \in Collectors : st[s][c] = "done"
  /\ req' = [req EXCEPT ![s] = "answered"]
  /\ UNCHANGED <<proc, st, out>>

(* SIGTERM or SIGINT: srv.Shutdown stops accepting requests. *)
Terminate ==
  /\ proc = "serving"
  /\ proc' = "stopping"
  /\ UNCHANGED <<req, st, out>>

(* Variant waiting for every request to have been answered. *)
ShutdownWaitsAll ==
  /\ proc = "stopping"
  /\ \A s \in Scrapes : req[s] = "answered"
  /\ proc' = "stopped"
  /\ UNCHANGED <<req, st, out>>

(* Shutdown(context.Background()) returns once no request is in flight. *)
ShutdownDone ==
  /\ proc = "stopping"
  /\ \A s \in Scrapes : req[s] # "collecting"
  /\ proc' = "stopped"
  /\ UNCHANGED <<req, st, out>>

(* After the first signal the handler is gone: a second one kills the process. *)
Kill ==
  /\ proc = "stopping"
  /\ proc' = "killed"
  /\ UNCHANGED <<req, st, out>>

Next ==
  \/ \E s \in Scrapes : Request(s) \/ Respond(s)
  \/ \E s \in Scrapes, c \in Collectors : UpdateStep(s, c) \/ Report(s, c)
  \/ StartUp \/ NewExporter \/ ListenFailed
  \/ Terminate \/ ShutdownDone \/ Kill

(***************************************************************************)
(* The Go scheduler runs every runnable goroutine, and a database that     *)
(* does not hang answers: each goroutine step, the response and the end of *)
(* Shutdown are weakly fair.  Requests, signals and the kill are the       *)
(* environment's and are not.                                              *)
(***************************************************************************)
Fairness ==
  /\ \A s \in Scrapes :
       /\ WF_vars(Respond(s))
       /\ \A c \in Collectors : WF_vars(UpdateStep(s, c)) /\ WF_vars(Report(s, c))
  /\ WF_vars(ShutdownDone)

Spec == Init /\ [][Next]_vars /\ Fairness

-----------------------------------------------------------------------------
(***************************************************************************)
(* Every /metrics request gets its response unless the process dies.  The  *)
(* spec (5) asks that a slow or hung statement not block a scrape          *)
(* indefinitely: run exporter checks this when every statement returns,    *)
(* and run exporter_hang_scrape shows that Update's context.TODO() lets a  *)
(* statement that never returns hold the scrape forever.                   *)
(***************************************************************************)
ScrapeAnswered ==
  \A s \in Scrapes :
    req[s] = "collecting" ~> (req[s] = "answered" \/ proc \in {"crashed", "killed"})

(***************************************************************************)
(* After SIGTERM or SIGINT the server shuts down, without a second signal. *)
(***************************************************************************)
ShutdownCompletes == proc = "stopping" ~> proc \in {"stopped", "crashed", "killed"}

(* Whether collector c's Update returns an error: its definition is       *)
(* missing from MetricMap or fails Check, or (pg) the version is empty.    *)
UpdateFails(c) ==
  \/ c \notin DOMAIN MetricMap
  \/ MetricMap[c] = "invalid"
  \/ c = PG /\ GetDBVersion(MonitKey) = ""

(***************************************************************************)
(* A written response holds, for every collector, exactly one success      *)
(* sample, 1 exactly when its Update returned nil: a statement error that  *)
(* getMetric logs and drops still reports success, and no collector's      *)
(* sample is missing because Collect answered before execute finished.     *)
(***************************************************************************)
SuccessReported ==
  \A s \in Scrapes : req[s] = "answered" =>
    \A c \in Collectors :
      /\ Sample(c, "success") \in out[s] <=> ~UpdateFails(c)
      /\ Sample(c, "failure") \in out[s] <=> UpdateFails(c)

(***************************************************************************)
(* A collector's failure ends in its error and a success sample of 0; it   *)
(* never takes the process down.                                           *)
(***************************************************************************)
NoCollectorPanic == proc # "crashed"

=============================================================================
