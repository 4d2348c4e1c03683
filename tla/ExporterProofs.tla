--------------------------- MODULE ExporterProofs ---------------------------
(***************************************************************************)
(* Type correctness of the exporter's scrapes, and that a written response *)
(* reports each collector's Update outcome, for every set of collectors    *)
(* and requests and every configuration.                                   *)
(*                                                                         *)
(* SuccessReported rests on Collect's wg.Wait: a scrape is answered only   *)
(* when all of its goroutines are done (Settled), and on what each stage   *)
(* of a goroutine says of its Update (Reported).                           *)
(***************************************************************************)
EXTENDS Exporter, TLAPS

(* An answered scrape has no goroutine left. *)
Settled ==
  \A s \in Scrapes : req[s] = "answered" => \A c \in Collectors : st[s][c] = "done"

IInv == TypeOK /\ Settled

SampleSet == [c : Collectors, kind : {"rows", "up", "version", "success", "failure"}]

LEMMA InitIInv == Init => IInv
BY DEF Init, IInv, TypeOK, Settled, Stages

(* A step of one goroutine keeps the types and leaves answered scrapes alone. *)
LEMMA GoingStep ==
  ASSUME IInv, NEW s \in Scrapes, NEW c \in Collectors,
         NEW from \in Stages \ {"done"}, NEW to \in Stages \ {"done"},
         Going(s, c, from, to),
         NEW k \in {"rows", "up", "version", "success", "failure"},
         \/ out' = out
         \/ out' = [out EXCEPT ![s] = @ \cup {Sample(c, k)}],
         UNCHANGED <<proc, req>>
  PROVE  IInv'
<1>1. req[s] # "answered"
  BY DEF IInv, Settled, Going
<1>2. TypeOK'
  <2>1. Sample(c, k) \in SampleSet
    BY DEF Sample, SampleSet
  <2>. QED
    BY <2>1 DEF IInv, TypeOK, Going, SampleSet
<1>3. Settled'
  BY <1>1 DEF IInv, TypeOK, Settled, Going
<1>. QED
  BY <1>2, <1>3 DEF IInv

LEMMA StepIInv == IInv /\ [Next]_vars => IInv'
<1> SUFFICES ASSUME IInv, [Next]_vars PROVE IInv'
  OBVIOUS
<1>0. PG \in Collectors
  BY ExporterAssumption
<1>1. ASSUME NEW s \in Scrapes, Request(s) PROVE IInv'
  BY <1>1 DEF Request, IInv, TypeOK, Settled, Stages
<1>2. ASSUME NEW s \in Scrapes, Respond(s) PROVE IInv'
  BY <1>2 DEF Respond, IInv, TypeOK, Settled
<1>3. ASSUME NEW s \in Scrapes, NEW c \in Collectors, Lookup(s, c) PROVE IInv'
  BY <1>3, GoingStep DEF Lookup, Stages
<1>4. ASSUME NEW s \in Scrapes, NEW c \in Collectors, Query(s, c) PROVE IInv'
  <2>1. CASE proc' = "crashed" /\ UNCHANGED <<req, st, out>>
    BY <2>1 DEF IInv, TypeOK, Settled
  <2>2. CASE /\ Going(s, c, "query", AfterQuery(c))
             /\ UNCHANGED <<proc, req, out>>
    BY <2>2, GoingStep DEF AfterQuery, Stages
  <2>3. CASE /\ Going(s, c, "query", AfterQuery(c))
             /\ out' = [out EXCEPT ![s] = @ \cup {Sample(c, "rows")}]
             /\ UNCHANGED <<proc, req>>
    BY <2>3, GoingStep DEF AfterQuery, Stages
  <2>4. CASE /\ Going(s, c, "query", "hung")
             /\ UNCHANGED <<proc, req, out>>
    BY <2>4, GoingStep DEF Stages
  <2>. QED
    BY <1>4, <2>1, <2>2, <2>3, <2>4 DEF Query
<1>5. ASSUME NEW s \in Scrapes, SendUp(s) PROVE IInv'
  BY <1>0, <1>5, GoingStep DEF SendUp, Stages
<1>6. ASSUME NEW s \in Scrapes, SendVersion(s) PROVE IInv'
  BY <1>0, <1>6, GoingStep DEF SendVersion, Stages
<1>7. ASSUME NEW s \in Scrapes, NEW c \in Collectors, Report(s, c) PROVE IInv'
  <2>1. req[s] # "answered"
    BY <1>7 DEF Report, IInv, Settled
  <2>2. Sample(c, IF st[s][c] = "ok" THEN "success" ELSE "failure") \in SampleSet
    BY DEF Sample, SampleSet
  <2>. QED
    BY <1>7, <2>1, <2>2 DEF Report, IInv, TypeOK, Settled, Stages, SampleSet
<1>8. CASE StartUp \/ NewExporter \/ ListenFailed \/ Terminate \/ ShutdownDone \/ Kill
          \/ UNCHANGED vars
  BY <1>8 DEF StartUp, NewExporter, ListenFailed, Terminate, ShutdownDone, Kill, vars,
              IInv, TypeOK, Settled
<1>. QED
  BY <1>1, <1>2, <1>3, <1>4, <1>5, <1>6, <1>7, <1>8 DEF Next, UpdateStep

(***************************************************************************)
(* Every state of a run has the types of TypeOK: the stages of the scrape  *)
(* goroutines and the samples they send.                                   *)
(***************************************************************************)
THEOREM ExporterTypeCorrect == Spec => []TypeOK
<1>1. Init => IInv
  BY InitIInv
<1>2. IInv /\ [Next]_vars => IInv'
  BY StepIInv
<1>3. IInv => TypeOK
  BY DEF IInv
<1>. QED
  BY <1>1, <1>2, <1>3, PTL DEF Spec

(* Collector c's definition is found and passes Check. *)
Valid(c) == c \in DOMAIN MetricMap /\ MetricMap[c] # "invalid"

(***************************************************************************)
(* What the stage of collector c's goroutine in scrape s says of its       *)
(* Update: past the lookup the definition is valid, only pg sends up and   *)
(* version, "ok" and "failed" are Update's nil and non-nil returns, and    *)
(* the success sample is there only once execute is done, and then says    *)
(* whether Update failed.                                                  *)
(***************************************************************************)
RepAt(s, c) ==
  /\ st[s][c] \in {"query", "up", "version", "hung"} => Valid(c)
  /\ st[s][c] \in {"up", "version"} => c = PG
  /\ st[s][c] = "ok" => ~UpdateFails(c)
  /\ st[s][c] = "failed" => UpdateFails(c)
  /\ st[s][c] # "done" =>
       Sample(c, "success") \notin out[s] /\ Sample(c, "failure") \notin out[s]
  /\ st[s][c] = "done" =>
       /\ Sample(c, "success") \in out[s] <=> ~UpdateFails(c)
       /\ Sample(c, "failure") \in out[s] <=> UpdateFails(c)

(* A scrape not yet requested has no goroutine and no sample. *)
Reported ==
  \A s \in Scrapes :
    /\ req[s] = "none" => out[s] = {} /\ \A c \in Collectors : st[s][c] = "idle"
    /\ \A c \in Collectors : RepAt(s, c)

RInv == IInv /\ Reported

LEMMA InitRInv == Init => RInv
BY InitIInv DEF Init, RInv, Reported, RepAt

(* RepAt of a goroutine depends only on its stage and its report samples. *)
LEMMA RepFrame ==
  ASSUME NEW s \in Scrapes, NEW c \in Collectors, RepAt(s, c),
         st'[s][c] = st[s][c],
         Sample(c, "success") \in out'[s] <=> Sample(c, "success") \in out[s],
         Sample(c, "failure") \in out'[s] <=> Sample(c, "failure") \in out[s]
  PROVE  RepAt(s, c)'
BY DEF RepAt, Valid, UpdateFails, GetDBVersion

(* Adding a sample other than a report touches no report sample. *)
LEMMA OutFrame ==
  ASSUME TypeOK, NEW s \in Scrapes, NEW c \in Collectors,
         NEW k \in {"rows", "up", "version"},
         \/ out' = out
         \/ out' = [out EXCEPT ![s] = @ \cup {Sample(c, k)}]
  PROVE  /\ \A s2 \in Scrapes : s2 # s => out'[s2] = out[s2]
         /\ \A c2 \in Collectors, kind \in {"success", "failure"} :
              Sample(c2, kind) \in out'[s] <=> Sample(c2, kind) \in out[s]
BY DEF TypeOK, Sample

(***************************************************************************)
(* A step of one goroutine of a requested scrape, to a stage that is not   *)
(* done and touching no report sample, keeps Reported when the new stage   *)
(* says the truth about Update.                                           *)
(***************************************************************************)
GoodStep(s, c) ==
  /\ st[s][c] \in Stages \ {"done", "idle"}
  /\ st'[s][c] \in Stages \ {"done"}
  /\ st' = [st EXCEPT ![s][c] = st'[s][c]]
  /\ \A s2 \in Scrapes : s2 # s => out'[s2] = out[s2]
  /\ \A c2 \in Collectors, kind \in {"success", "failure"} :
       Sample(c2, kind) \in out'[s] <=> Sample(c2, kind) \in out[s]
  /\ UNCHANGED req
  /\ st'[s][c] \in {"query", "up", "version", "hung"} => Valid(c)
  /\ st'[s][c] \in {"up", "version"} => c = PG
  /\ st'[s][c] = "ok" => ~UpdateFails(c)
  /\ st'[s][c] = "failed" => UpdateFails(c)

LEMMA GoingRep ==
  ASSUME RInv, NEW s \in Scrapes, NEW c \in Collectors, GoodStep(s, c)
  PROVE  Reported'
<1>0. DEFINE to == st'[s][c]
<1>0a. /\ st[s][c] \in Stages \ {"done", "idle"} /\ to \in Stages \ {"done"}
       /\ st' = [st EXCEPT ![s][c] = to]
       /\ \A s2 \in Scrapes : s2 # s => out'[s2] = out[s2]
       /\ \A c2 \in Collectors, kind \in {"success", "failure"} :
            Sample(c2, kind) \in out'[s] <=> Sample(c2, kind) \in out[s]
       /\ UNCHANGED req
       /\ to \in {"query", "up", "version", "hung"} => Valid(c)
       /\ to \in {"up", "version"} => c = PG
       /\ to = "ok" => ~UpdateFails(c)
       /\ to = "failed" => UpdateFails(c)
  BY DEF GoodStep, to
<1>1. TypeOK /\ req[s] # "none"
  BY <1>0a DEF RInv, IInv, Reported, Stages
<1>2. ASSUME NEW s2 \in Scrapes, NEW c2 \in Collectors,
             NEW kind \in {"success", "failure"}
      PROVE  Sample(c2, kind) \in out'[s2] <=> Sample(c2, kind) \in out[s2]
  BY <1>0a, <1>1
<1>3. ASSUME NEW s2 \in Scrapes, NEW c2 \in Collectors, <<s2, c2>> # <<s, c>>
      PROVE  RepAt(s2, c2)'
  <2>1. st'[s2][c2] = st[s2][c2]
    BY <1>0a, <1>1, <1>3 DEF TypeOK
  <2>. QED
    BY <1>2, <2>1, RepFrame DEF RInv, Reported
<1>4. RepAt(s, c)'
  <2>2. Sample(c, "success") \notin out[s] /\ Sample(c, "failure") \notin out[s]
    BY <1>0a DEF RInv, Reported, RepAt
  <2>. QED
    BY <1>0a, <1>2, <2>2 DEF RepAt, Valid, UpdateFails, GetDBVersion, to
<1>5. ASSUME NEW s2 \in Scrapes PROVE req'[s2] = "none" =>
        out'[s2] = {} /\ \A c2 \in Collectors : st'[s2][c2] = "idle"
  <2>1. CASE s2 = s
    BY <1>0a, <1>1, <2>1
  <2>2. CASE s2 # s
    BY <1>0a, <1>1, <2>2 DEF TypeOK, RInv, Reported
  <2>. QED
    BY <2>1, <2>2
<1>. QED
  BY <1>3, <1>4, <1>5 DEF Reported

LEMMA StepRInv == RInv /\ [Next]_vars => RInv'
<1> SUFFICES ASSUME RInv, [Next]_vars PROVE RInv'
  OBVIOUS
<1>0. PG \in Collectors /\ IInv' /\ TypeOK
  BY ExporterAssumption, StepIInv DEF RInv, IInv
<1>1. ASSUME NEW s \in Scrapes, Request(s) PROVE Reported'
  <2>1. out[s] = {}
    BY <1>1 DEF Request, RInv, Reported
  <2>2. ASSUME NEW s2 \in Scrapes, NEW c \in Collectors PROVE RepAt(s2, c)'
    <3>1. CASE s2 = s
      BY <1>0, <1>1, <2>1, <3>1 DEF Request, TypeOK, RepAt, Sample
    <3>2. CASE s2 # s
      BY <1>0, <1>1, <3>2, RepFrame DEF Request, TypeOK, RInv, Reported
    <3>. QED
      BY <3>1, <3>2
  <2>. QED
    BY <1>0, <1>1, <2>2 DEF Request, TypeOK, RInv, Reported
<1>2. ASSUME NEW s \in Scrapes, Respond(s) PROVE Reported'
  <2>1. ASSUME NEW s2 \in Scrapes, NEW c \in Collectors PROVE RepAt(s2, c)'
    BY <1>2, RepFrame DEF Respond, RInv, Reported
  <2>. QED
    BY <1>0, <1>2, <2>1 DEF Respond, TypeOK, RInv, Reported
<1>3. ASSUME NEW s \in Scrapes, NEW c \in Collectors, Lookup(s, c) PROVE Reported'
  <2>0. st[s][c] = "start" /\ UNCHANGED <<req, out>>
    BY <1>3 DEF Lookup, Going
  <2>1. CASE Valid(c)
    <3>1. st' = [st EXCEPT ![s][c] = "query"]
      BY <1>3, <2>1 DEF Lookup, Going, Valid
    <3>2. GoodStep(s, c)
      BY <1>0, <2>0, <2>1, <3>1 DEF GoodStep, Stages, TypeOK
    <3>. QED
      BY <3>2, GoingRep
  <2>2. CASE ~Valid(c)
    <3>1. st' = [st EXCEPT ![s][c] = "failed"]
      BY <1>3, <2>2 DEF Lookup, Going, Valid
    <3>2. UpdateFails(c)
      BY <2>2 DEF Valid, UpdateFails
    <3>3. GoodStep(s, c)
      BY <1>0, <2>0, <3>1, <3>2 DEF GoodStep, Stages, TypeOK
    <3>. QED
      BY <3>3, GoingRep
  <2>. QED
    BY <2>1, <2>2
<1>4. ASSUME NEW s \in Scrapes, NEW c \in Collectors, Query(s, c) PROVE Reported'
  <2>0. Valid(c) /\ st[s][c] = "query"
    BY <1>4 DEF Query, RInv, Reported, RepAt
  <2>1. AfterQuery(c) = "ok" => ~UpdateFails(c)
    BY <2>0 DEF AfterQuery, UpdateFails, Valid
  <2>2. CASE proc' = "crashed" /\ UNCHANGED <<req, st, out>>
    <3>1. ASSUME NEW s2 \in Scrapes, NEW c2 \in Collectors PROVE RepAt(s2, c2)'
      BY <2>2, RepFrame DEF RInv, Reported
    <3>. QED
      BY <2>2, <3>1 DEF RInv, Reported
  <2>3. CASE /\ Going(s, c, "query", AfterQuery(c))
             /\ UNCHANGED <<proc, req, out>>
    <3>1. /\ AfterQuery(c) \in {"up", "ok"}
          /\ AfterQuery(c) = "up" => c = PG
      BY DEF AfterQuery
    <3>2. GoodStep(s, c)
      BY <1>0, <2>0, <2>1, <2>3, <3>1 DEF GoodStep, Going, Stages, TypeOK
    <3>. QED
      BY <3>2, GoingRep
  <2>4. CASE /\ Going(s, c, "query", AfterQuery(c))
             /\ out' = [out EXCEPT ![s] = @ \cup {Sample(c, "rows")}]
             /\ UNCHANGED <<proc, req>>
    <3>1. /\ AfterQuery(c) \in {"up", "ok"}
          /\ AfterQuery(c) = "up" => c = PG
      BY DEF AfterQuery
    <3>2. /\ \A s2 \in Scrapes : s2 # s => out'[s2] = out[s2]
          /\ \A c2 \in Collectors, kind \in {"success", "failure"} :
               Sample(c2, kind) \in out'[s] <=> Sample(c2, kind) \in out[s]
      BY <1>0, <2>4, OutFrame
    <3>3. GoodStep(s, c)
      BY <1>0, <2>0, <2>1, <2>4, <3>1, <3>2 DEF GoodStep, Going, Stages, TypeOK
    <3>. QED
      BY <3>3, GoingRep
  <2>5. CASE /\ Going(s, c, "query", "hung")
             /\ UNCHANGED <<proc, req, out>>
    <3>1. GoodStep(s, c)
      BY <1>0, <2>0, <2>5 DEF GoodStep, Going, Stages, TypeOK
    <3>. QED
      BY <3>1, GoingRep
  <2>. QED
    BY <1>4, <2>2, <2>3, <2>4, <2>5 DEF Query
<1>5. ASSUME NEW s \in Scrapes, SendUp(s) PROVE Reported'
  <2>1. Valid(PG)
    BY <1>0, <1>5 DEF SendUp, Going, RInv, Reported, RepAt
  <2>2. /\ \A s2 \in Scrapes : s2 # s => out'[s2] = out[s2]
        /\ \A c2 \in Collectors, kind \in {"success", "failure"} :
             Sample(c2, kind) \in out'[s] <=> Sample(c2, kind) \in out[s]
    BY <1>0, <1>5, OutFrame DEF SendUp
  <2>3. GoodStep(s, PG)
    BY <1>0, <1>5, <2>1, <2>2 DEF GoodStep, SendUp, Going, Stages, TypeOK
  <2>. QED
    BY <1>0, <2>3, GoingRep
<1>6. ASSUME NEW s \in Scrapes, SendVersion(s) PROVE Reported'
  <2>1. Valid(PG)
    BY <1>0, <1>6 DEF SendVersion, Going, RInv, Reported, RepAt
  <2>0. st[s][PG] = "version" /\ UNCHANGED req
    BY <1>6 DEF SendVersion, Going
  <2>2. CASE GetDBVersion(MonitKey) = ""
    <3>1. st' = [st EXCEPT ![s][PG] = "failed"] /\ out' = out
      BY <1>6, <2>2 DEF SendVersion, Going
    <3>2. UpdateFails(PG)
      BY <2>2 DEF UpdateFails
    <3>3. GoodStep(s, PG)
      BY <1>0, <2>0, <3>1, <3>2 DEF GoodStep, Stages, TypeOK
    <3>. QED
      BY <1>0, <3>3, GoingRep
  <2>3. CASE GetDBVersion(MonitKey) # ""
    <3>1. st' = [st EXCEPT ![s][PG] = "ok"]
          /\ out' = [out EXCEPT ![s] = @ \cup {Sample(PG, "version")}]
      BY <1>6, <2>3 DEF SendVersion, Going
    <3>2. ~UpdateFails(PG)
      BY <2>1, <2>3 DEF UpdateFails, Valid
    <3>3. /\ \A s2 \in Scrapes : s2 # s => out'[s2] = out[s2]
          /\ \A c2 \in Collectors, kind \in {"success", "failure"} :
               Sample(c2, kind) \in out'[s] <=> Sample(c2, kind) \in out[s]
      BY <1>0, <3>1, OutFrame
    <3>4. GoodStep(s, PG)
      BY <1>0, <2>0, <3>1, <3>2, <3>3 DEF GoodStep, Stages, TypeOK
    <3>. QED
      BY <1>0, <3>4, GoingRep
  <2>. QED
    BY <2>2, <2>3
<1>7. ASSUME NEW s \in Scrapes, NEW c \in Collectors, Report(s, c) PROVE Reported'
  <2>. DEFINE kind == IF st[s][c] = "ok" THEN "success" ELSE "failure"
  <2>1. out' = [out EXCEPT ![s] = @ \cup {Sample(c, kind)}]
        /\ st' = [st EXCEPT ![s][c] = "done"] /\ UNCHANGED req
    BY <1>7 DEF Report
  <2>2. req[s] # "none" /\ RepAt(s, c)
    BY <1>7 DEF Report, RInv, Reported
  <2>3. ASSUME NEW s2 \in Scrapes, NEW c2 \in Collectors, <<s2, c2>> # <<s, c>>
        PROVE  RepAt(s2, c2)'
    <3>1. st'[s2][c2] = st[s2][c2]
      BY <1>0, <2>1, <2>3 DEF TypeOK
    <3>2. \A k \in {"success", "failure"} :
            Sample(c2, k) \in out'[s2] <=> Sample(c2, k) \in out[s2]
      BY <1>0, <2>1, <2>3 DEF TypeOK, Sample
    <3>. QED
      BY <3>1, <3>2, RepFrame DEF RInv, Reported
  <2>4. RepAt(s, c)'
    <3>1. st'[s][c] = "done" /\ st[s][c] \in {"ok", "failed"}
      BY <1>0, <1>7, <2>1 DEF TypeOK, Report
    <3>2. Sample(c, "success") \notin out[s] /\ Sample(c, "failure") \notin out[s]
      BY <2>2, <3>1 DEF RepAt
    <3>3. out'[s] = out[s] \cup {Sample(c, kind)}
      BY <1>0, <2>1 DEF TypeOK
    <3>. QED
      BY <2>2, <3>1, <3>2, <3>3 DEF RepAt, Sample, UpdateFails, Valid, GetDBVersion
  <2>5. ASSUME NEW s2 \in Scrapes PROVE req'[s2] = "none" =>
          out'[s2] = {} /\ \A c2 \in Collectors : st'[s2][c2] = "idle"
    BY <1>0, <2>1, <2>2 DEF TypeOK, RInv, Reported
  <2>. QED
    BY <2>3, <2>4, <2>5 DEF Reported
<1>8. CASE StartUp \/ NewExporter \/ ListenFailed \/ Terminate \/ ShutdownDone \/ Kill
          \/ UNCHANGED vars
  <2>1. UNCHANGED <<req, st, out>>
    BY <1>8 DEF StartUp, NewExporter, ListenFailed, Terminate, ShutdownDone, Kill, vars
  <2>2. ASSUME NEW s \in Scrapes, NEW c \in Collectors PROVE RepAt(s, c)'
    BY <2>1, RepFrame DEF RInv, Reported
  <2>3. ASSUME NEW s \in Scrapes PROVE req'[s] = "none" =>
          out'[s] = {} /\ \A c \in Collectors : st'[s][c] = "idle"
    BY <2>1 DEF RInv, Reported
  <2>. QED
    BY <1>0, <2>2, <2>3 DEF RInv, Reported
<1>9. Reported'
  <2>1. CASE Next
    BY <1>1, <1>2, <1>3, <1>4, <1>5, <1>6, <1>7, <1>8, <2>1 DEF Next, UpdateStep, RInv
  <2>2. CASE UNCHANGED vars
    BY <1>8, <2>2 DEF RInv
  <2>. QED
    BY <2>1, <2>2
<1>. QED
  BY <1>0, <1>9 DEF RInv

(***************************************************************************)
(* SuccessReported: every written response holds, for each collector, one *)
(* success sample saying whether its Update returned nil, so statement     *)
(* errors getMetric drops are reported as success, and Collect's wg.Wait   *)
(* keeps any collector's report from missing.                              *)
(***************************************************************************)
THEOREM SuccessReflectsUpdate == Spec => []SuccessReported
<1>1. Init => RInv
  BY InitRInv
<1>2. RInv /\ [Next]_vars => RInv'
  BY StepRInv
<1>3. RInv => SuccessReported
  BY DEF RInv, IInv, Settled, Reported, RepAt, SuccessReported
<1>. QED
  BY <1>1, <1>2, <1>3, PTL DEF Spec

=============================================================================

