-------------------------------- MODULE Resources --------------------------------
(***************************************************************************)
(* What server/coolify/mappers.ts makes of one deployment, one server or   *)
(* one number, for the modules that build more of it.  A missing value is  *)
(* None.                                                                   *)
(***************************************************************************)
EXTENDS Integers

None == -1000

Or(x, default) == IF x = None THEN default ELSE x

\* mapDeploymentState: what is not known is not silently called a success.
DeploymentState(status) ==
    CASE status \in {"queued", "in_progress"} -> "running"
      [] status = "finished" -> "success"
      [] status = "cancelled-by-user" -> "cancelled"
      [] OTHER -> "failed"

\* A deployment is placed at its end or, without one, at its beginning.
PlacedAt(d) == Or(d.finished, d.created)

AtLeast0(x) == IF x < 0 THEN 0 ELSE x

\* mapDeployment: a running one counts from its creation, queue included; any other
\* has a duration if it has both dates.
MapDeployment(d, now) ==
    [state |-> DeploymentState(d.status),
     time  |-> IF DeploymentState(d.status) = "running"
               THEN IF d.created = None THEN 0 ELSE AtLeast0(now - d.created)
               ELSE IF d.created = None \/ d.finished = None THEN None
               ELSE AtLeast0(d.finished - d.created)]

\* mapServer: the disk's figure only while Coolify's alert stands, the load's only
\* from Sentinel.
MapServer(s) ==
    [id |-> s.id, reachable |-> s.reachable, source |-> s.source,
     cpu |-> IF s.source = "sentinel" THEN s.cpu ELSE None,
     dsk |-> IF s.diskAlert THEN s.diskPct ELSE None]

\* applicationsKpi: against the row of a week ago, if there is one.
CountTrend(count, weekAgo) ==
    IF weekAgo = None \/ count = weekAgo THEN "neutral" ELSE IF count > weekAgo THEN "ok" ELSE "warn"
=============================================================================
