--------------------------- MODULE MCSolverAttempt ---------------------------
(* Threads that meet: two Claude attempts, an attempt of each other solver *)
(* beside one, and sessions that need one environment or two.              *)
EXTENDS SolverAttempt

As(a, p, e) == [adapter |-> a, place |-> p, env |-> e]
MCCasts ==
  {<<As("claude", "container", "e1"), As("claude", "host", "e1")>>,
   <<As("codex", "container", "e1"), As("opencode", "container", "e1")>>,
   <<As("codex", "host", "e1"), As("http", "none", "e1"), As("mock", "none", "e1")>>,
   <<As("test", "session", "e1"), As("test", "session", "e1")>>,
   <<As("test", "session", "e1"), As("test", "session", "e2")>>}
MCThreads == {1, 2, 3}
Idle      == As("nobody", "none", "e1")
MCFilled  == {[t \in MCThreads |-> IF t \in DOMAIN c THEN c[t] ELSE Idle] : c \in MCCasts}
MCOutputs == {{}, {"patch", "usage"}, {"plan", "cost"}, {"error", "usage"},
              {"error", "patch"}, {"tool failure", "usage"}}
=============================================================================
