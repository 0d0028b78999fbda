----------------------------- MODULE MC_ABChart -----------------------------
(* Two runs over two result files, a name that can serve as a directory,  *)
(* and argument vectors that reach every exit of main().                   *)
EXTENDS ABChart

MCPositionals == {"a.json", "b.json", "out", ""}
MCBadFlags    == {"-x"}

MCRunArgs ==
    { <<"a.json", "b.json">>,
      <<"b.json", "a.json", "--output-dir", "out">>,
      <<"a.json", "b.json", "--output-dir", "a.json">>,
      <<"a.json", "b.json", "--output-dir", "">>,
      <<"out", "a.json">>,
      <<"a.json", "b.json", "--help">>,
      <<"a.json", "-x">> }

\* No latency metric / only the overall one / all four; one file whose
\* top level is not an object, one whose throughput metrics are malformed.
MCDocs ==
    { [p95 |-> {}, badAt |-> 0],
      [p95 |-> {"http_req_duration"}, badAt |-> 0],
      [p95 |-> LatencyKeys, badAt |-> 0],
      [p95 |-> {}, badAt |-> 1],
      [p95 |-> LatencyKeys, badAt |-> 2] }
=============================================================================
