---------------------------- MODULE MCComponents ----------------------------
EXTENDS Components, TLC

CONSTANTS h1, h2

\* The token of one server is regenerated once, the other's never.
MCTokens == h1 :> 2 @@ h2 :> 1

CONSTANTS s1, a1, a2, db1

MCServers ==
    {[id |-> s1, nth |-> 1, reachable |-> r, source |-> m, cpu |-> 40, diskAlert |-> TRUE, diskPct |-> d] :
        r \in BOOLEAN, m \in {"sentinel", "error"}, d \in {None, 90}}

Healthy == [state |-> "running", health |-> "healthy"]
MCStatus == {Healthy, [state |-> "running", health |-> "unhealthy"], [state |-> "exited", health |-> "unknown"]}

AppWith(a, st, f, up, t, e) ==
    [id |-> a, nth |-> IF a = a1 THEN 1 ELSE 2, fresh |-> IF a = a1 THEN 2 ELSE 1,
     state |-> st.state, health |-> st.health, probed |-> TRUE, failures |-> f,
     uptimeLow |-> up, tls |-> TRUE, tlsError |-> t = None, daysLeft |-> t, ended |-> e, lastHour |-> e # <<>>]

Quiet(a) == [AppWith(a, Healthy, 0, FALSE, 90, <<>>) EXCEPT !.probed = FALSE]

MCApps1 == {Quiet(a1)} \cup
    {AppWith(a1, st, f, up, t, e) : st \in MCStatus, f \in {0, 2, 3}, up \in BOOLEAN,
        t \in {None, -1, 14, 15},
        e \in {<<>>, <<"success">>, <<"failed">>, <<"failed", "success">>, <<"failed", "failed">>}}
MCApps2 == {Quiet(a2), AppWith(a2, [state |-> "exited", health |-> "unknown"], 3, TRUE, 3, <<"failed">>)}

MCPanels ==
    {[kind |-> "panel", servers |-> {s}, apps |-> {a, b}, metricsExpected |-> TRUE,
      backups |-> d] : s \in MCServers, a \in MCApps1, b \in MCApps2, d \in {{}, {[id |-> db1, nth |-> 1]}}}
      \cup {[kind |-> "panel", servers |-> {}, apps |-> {Quiet(a1)}, metricsExpected |-> FALSE, backups |-> {}]}

\* Quarters of an hour past the mark, and jobs at the edges of the strip.
MCTimelines ==
    {[kind |-> "timeline", now |-> n, jobs |-> {[id |-> i, nth |-> 4 - i, at |-> n + j[i]] : i \in 1 .. 3}] :
        n \in 0 .. 8, j \in [1 .. 3 -> {0, 1, 13, 95, 96, 97}]}

MCDeployments ==
    {[status |-> st, created |-> c, finished |-> f] :
        st \in {"finished", "failed", "in_progress"}, c \in {None, 0, 3}, f \in {None, 4, 5, 9}}

MCKpis ==
    {[kind |-> "kpis", now |-> 7, window |-> 3, deployments |-> <<d, e, g>>, previous |-> 4,
      series |-> <<3, 1, 2>>] : d, e \in MCDeployments, g \in {x \in MCDeployments : x.created = 0 /\ x.finished \in {4, 5}}}
      \cup
    {[kind |-> "kpis", now |-> 7, window |-> 3, deployments |-> <<>>, previous |-> None, series |-> s] :
        s \in {<<>>, <<5>>, <<5, 5>>, [i \in 1 .. 14 |-> IF i < 3 THEN 9000 * i ELSE (i * i) % 300]}}

CONSTANTS p1, p2, e1, e2, e3, b1, b2, r1, production, staging

\* Two projects, each with a production environment; one has staging too.
MCProjectOf == e1 :> p1 @@ e2 :> p2 @@ e3 :> p2
MCNameOf == e1 :> production @@ e2 :> production @@ e3 :> staging
MCHomeEnv == b1 :> e1 @@ b2 :> e3
MCAppOf == r1 :> b1

CONSTANTS k1, k2
MCVerbs == {{"POST"}, {"GET"}}
MCKinds == k1 :> {"stop", "rollback"} @@ k2 :> {"restart"}

Entries == {"deploy a", "stop a", "stop b"}
MCLists == {<<"deploy a", "stop a", "stop b">>, <<"stop b", "deploy a">>}
MCMatches == {Entries, {"stop a", "stop b"}}
MCAsking == {"stop a", "stop b"}

CONSTANTS d1, d2
MCExecutions == {{}} \cup {{[id |-> 1, at |-> x, failed |-> f], [id |-> 2, at |-> y, failed |-> g]} :
                   x \in {None, 1, 5}, y \in {2, 5, 6}, f, g \in BOOLEAN}
MCConfigs == {{}} \cup {{[id |-> 1, on |-> o, cron |-> c, executions |-> e]} : o \in BOOLEAN, c \in {None, 1}, e \in MCExecutions}
MCSchedules ==
    {[kind |-> "schedule", now |-> 7, tasks |-> {[id |-> 9, on |-> o, cron |-> c]},
      databases |-> {[id |-> d1, configs |-> x], [id |-> d2, configs |-> {[id |-> 2, on |-> TRUE, cron |-> 1,
          executions |-> {[id |-> 3, at |-> 6, failed |-> f]}]}]}] : o, f \in BOOLEAN, c \in {None, Unparsed, 1}, x \in MCConfigs}
\* The last of one application and the first of the other are of one date.
MCRows == {[id |-> i, nth |-> i, at |-> IF i = 5 THEN 4 ELSE i, app |-> IF i = 5 THEN d2 ELSE d1, here |-> i # 3] : i \in 1 .. 5}
MCHistories == {[kind |-> "history", rows |-> MCRows, only |-> o, skip |-> s, take |-> t] :
                  o \in {None, d1, d2}, s \in -1 .. 4, t \in 0 .. 4}
MCTexts == {"queue full", "invalid token", "api disabled", "ip blocked", "role", "version", "lines", "other"}
MCAnswers == {[status |-> s, text |-> t] : s \in {0, 200, 400, 401, 403, 404, 405, 429, 500}, t \in MCTexts}
MCEnvs == {[key |-> k, value |-> v, once |-> o] : k \in {1, 2}, v, o \in BOOLEAN}
MCDetails == {[kind |-> "detail", envsRead |-> r, rollbackRead |-> q, envs |-> IF r THEN e ELSE {}, tags |-> IF q THEN t ELSE {}, logs |-> a] :
                r, q \in BOOLEAN, e \in SUBSET MCEnvs, t \in {{}, {1}}, a \in {b \in MCAnswers : b.text \in {"lines", "other"}}}
MCSome == {b \in MCAnswers : b.text \in {"version", "role", "other"} /\ b.status \in {0, 200, 403, 405}}
MCSetups == {[kind |-> "setup", configured |-> c, version |-> v, team |-> v, server |-> s, deploy |-> a, write |-> b,
              loopback |-> l, password |-> FALSE, on |-> {"history"}] :
               c, l \in BOOLEAN, v \in {x \in MCSome : x.text # "role" /\ x.status # 405}, s \in {"token", "withheld", "none", "error"},
               a \in MCSome, b \in {x \in MCSome : x.text = "other"}}
MCRefusals == {[kind |-> "refusal", answer |-> a] : a \in {b \in MCAnswers : ~Answered200(b)}}
MCReadings == {{[of |-> h, source |-> f[h]] : h \in D} : D \in SUBSET {h1, h2}, f \in [{h1, h2} -> {"sentinel", "stale"}]}
MCEntries == {{[of |-> i, enough |-> f[i]] : i \in D} : D \in SUBSET {1, 2}, f \in [1 .. 2 -> BOOLEAN]}
MCHealths ==
    {[kind |-> "health", configured |-> c, session |-> s, version |-> v, webhooks |-> w, metrics |-> w, servers |-> n,
      readings |-> r, probes |-> s, count |-> n, entries |-> p] :
        c, s, v, w \in BOOLEAN, n \in {0, 2}, r \in MCReadings, p \in MCEntries}
=============================================================================
