------------------------ MODULE MCPatchNormalization ------------------------
(* A source file, a withheld test, one the test patch adds, AGENTS.md and  *)
(* one more path; a solver may write what git takes for the source or the  *)
(* test with a change, bytes that are not text, and copies of the          *)
(* benchmark's AGENTS.md.  The base commit tracks AGENTS.md or does not,   *)
(* and has nothing, a binary file or one that is not UTF-8 at the last.    *)
EXTENDS PatchNormalization

CONSTANTS s0, t0, a0, s1, x1, nul, latin, outside, folder

MCPaths   == {"src", "test", "newtest", "agents", "new"}
MCTestPatch == {Chunk("test", "test", t0, s1), Chunk("newtest", "newtest", Absent, s1)}
MCWritten == {x1, nul, latin}
MCSimilar == {<<s0, x1>>, <<t0, x1>>}
MCBase    == [src |-> s0, test |-> t0, newtest |-> Absent, agents |-> Absent,
              new |-> Absent]
MCBases   == {MCBase, [MCBase EXCEPT !.agents = a0, !.new = nul],
              [MCBase EXCEPT !.new = latin]}

Stale     == [MCBase EXCEPT !.src = s1]

\* Diffs against the base commit and against another, one that reaches out
\* of the repository, and edit plans.
MCAnswers ==
  {[kind |-> "prose"], [kind |-> "fence"]} \cup
  {[kind |-> "patch", patch |-> d] : d \in
     { Diff(MCBase, [MCBase EXCEPT !.src = x1, !.test = x1]),
       Diff(MCBase, [MCBase EXCEPT !.new = t0, !.test = Absent]),
       Diff(MCBase, [MCBase EXCEPT !.test = x1]),
       Diff(MCBase, [MCBase EXCEPT !.new = nul]),
       Diff(MCBase, [MCBase EXCEPT !.agents = x1, !.src = Absent]),
       Diff(Stale, [Stale EXCEPT !.src = x1]),
       {Chunk(outside, outside, Absent, x1)} }} \cup
  {[kind |-> "edits", edits |-> e] : e \in
     { [p \in {"src", "test"} |-> x1], [p \in {"new", "agents"} |-> x1],
       [p \in {"new"} |-> nul], [p \in {outside} |-> x1],
       [p \in {"src"} |-> s0], [p \in {folder} |-> x1] }}
=============================================================================
