------------------------- MODULE PatchNormalization -------------------------
(***************************************************************************)
(* One attempt's workspace, from the checkout of the base commit to the    *)
(* patch that is put on record: what the solver does to the files and to   *)
(* git, the text it answers with, and what normalize_patch.py makes of the *)
(* two.  A tree is a function from paths to contents; a unified diff is a  *)
(* set of chunks, one per file; git keeps three trees (HEAD, the index and *)
(* the files).  Attempts have a workspace each, so one is modelled.        *)
(* Ignored files, line endings and file modes are left out.                *)
(***************************************************************************)
EXTENDS Naturals, FiniteSets

CONSTANTS
  Paths,        \* the paths a solver may touch
  Absent,       \* "no such file"
  Bases,        \* trees the base commit may have
  Agents,       \* the path of AGENTS.md
  Override,     \* the benchmark's text for it
  Written,      \* contents a solver may write, besides Override
  Binary,       \* contents with a NUL byte
  Garbled,      \* contents that are not UTF-8
  Similar,      \* pairs of contents git takes for one file's, changed a little
  Blocked,      \* paths in the repository no file can be written at: that of
                \* a directory, or one below a file
  TestPatch,    \* the row's test_patch, as a diff
  Answers,      \* texts a solver may answer with, see HoldsPatch and the rest
  MaxEdits      \* bound: what the solver does to its workspace

Contents == Written \cup {Absent, Override} \cup
              UNION {{b[p] : p \in Paths} : b \in Bases}
Trees    == [Paths -> Contents]

ASSUME PathAssumption ==
  /\ IsFiniteSet(Paths)
  /\ Agents \in Paths /\ Blocked \cap Paths = {}
  /\ \A c \in TestPatch : {c.from, c.path} \subseteq Paths \ {Agents}
  /\ Bases \subseteq Trees
  /\ Binary \cup Garbled \subseteq Contents /\ MaxEdits \in Nat
  /\ Absent \notin Written \cup Binary \cup Garbled \cup {Override}
  /\ \A a \in Answers :
       \/ a.kind \in {"prose", "fence"}
       \/ a.kind = "patch" /\ a.patch # {}
       \/ /\ a.kind = "edits" /\ DOMAIN a.edits # {}
          \* of two files that cannot be written the first decides; one is enough
          /\ DOMAIN a.edits \cap Blocked # {} =>
               \A p \in DOMAIN a.edits : p \in Paths \cup Blocked /\ a.edits[p] \notin Binary

VARIABLES
  base,      \* tree of the base commit
  step,      \* "new", "solving", "answered", "recorded" or "closed"
  git,       \* [head, index, files]: the three trees of the workspace
  answer,    \* the text the solver answered with
  edits,     \* number of things the solver did
  touched,   \* git commands the solver used against its instructions
  outcome,   \* [status, patch, normalized]: what is put on record; a patch
             \* that is not normalised is the solver's text as it came
  homes,     \* copies of the user's credentials that lie under the attempt
  present,   \* does the checkout still exist?
  faulty     \* did the machine fail a step of the normalisation?

vars == <<base, step, git, answer, edits, touched, outcome, homes, present, faulty>>

-----------------------------------------------------------------------------
(* Diffs.  A chunk goes by the path of its b side, so a deletion goes by   *)
(* the path it deletes and a rename by its new path.                       *)

Chunk(a, b, old, new) == [from |-> a, path |-> b, old |-> old, new |-> new]

\* The files the benchmark owns are those its test patch goes by: of a rename,
\* the new path.
Withheld == {c.path : c \in TestPatch}

\* git diff pairs files that went with files that came and are alike, one to
\* one and as far as it goes, those that are the same first; of several that
\* would do it takes any.
Alike(c, d) == c = d \/ <<c, d>> \in Similar
Shares(r, s) == r[1] = s[1] \/ r[2] = s[2]
Pairs(t, u) ==
  {r \in Paths \X Paths : /\ t[r[1]] # Absent /\ u[r[1]] = Absent
                          /\ t[r[2]] = Absent /\ u[r[2]] # Absent
                          /\ Alike(t[r[1]], u[r[2]])}
Exact(t, u) == {r \in Pairs(t, u) : t[r[1]] = u[r[2]]}

Matching(taken, pairs) ==
  CHOOSE m \in SUBSET (taken \cup pairs) :
    /\ taken \subseteq m
    /\ \A r, s \in m : Shares(r, s) => r = s
    /\ \A r \in pairs : \E s \in m : Shares(r, s)
Renames(t, u) == Matching(Matching({}, Exact(t, u)), Pairs(t, u))

Diff(t, u) ==
  LET renames == Renames(t, u)
      paired  == {r[1] : r \in renames} \cup {r[2] : r \in renames}
  IN {Chunk(r[1], r[2], t[r[1]], u[r[2]]) : r \in renames} \cup
     {Chunk(p, p, t[p], u[p]) : p \in {x \in Paths \ paired : t[x] # u[x]}}

\* git apply: all of the chunks fit, or none is applied.
Fits(d, t) ==
  \A c \in d : /\ c.from \in Paths /\ c.path \in Paths
               /\ t[c.from] = c.old
               /\ c.from # c.path => t[c.path] = Absent
Patched(d, t) ==
  [p \in Paths |->
     IF \E c \in d : c.path = p THEN (CHOOSE c \in d : c.path = p).new
     ELSE IF \E c \in d : c.from = p THEN Absent ELSE t[p]]

-----------------------------------------------------------------------------
(* The git steps of a normalisation: each takes the three trees and gives  *)
(* the three trees.                                                        *)

Stage(g) == [g EXCEPT !.index = g.files]

\* git reset --hard and git clean -fd.
Restore(g) == [head |-> base, index |-> base, files |-> base]

\* MUTANT of DiscardAgents: the benchmark's AGENTS.md stays.
KeepAgents(g) == g

\* AGENTS.md, if it is there, goes back to what the index has, or goes.
DiscardAgents(g) ==
  IF g.files[Agents] = Absent THEN g
  ELSE [g EXCEPT !.files[Agents] = g.index[Agents]]

Changed(g) == {p \in Paths : g.head[p] # g.index[p]}

\* What a normalisation ends with: a patch, a PatchNormalizationError, or an
\* error of another kind.
Got(d)  == [kind |-> "patch", patch |-> d]
Refused == [kind |-> "refused", patch |-> {}]
Raised  == [kind |-> "raised", patch |-> {}]

\* The workspace's own changes as a patch against HEAD.  git counts no lines
\* of a file that is or was binary, which refuses the patch; the text of a
\* change that is not UTF-8 cannot be read.
FromWorkspace(g0) ==
  LET g == Stage(DiscardAgents(g0))
      d == Diff(g.head, g.index)
  IN IF \/ Changed(g) = {}
        \/ \E p \in Changed(g) : {g.head[p], g.index[p]} \cap Binary # {}
     THEN Refused
     ELSE IF \E c \in d : c.old # c.new /\ {c.old, c.new} \cap Garbled # {}
     THEN Raised ELSE Got(d)

\* A patch taken out of the answer, put on the base commit and read back.
FromPatch(d) ==
  IF ~Fits(d, base) THEN Refused
  ELSE FromWorkspace([Restore(git) EXCEPT !.files = Patched(d, base)])

\* The files of an edit plan, written over the base commit.
FromEdits(e) ==
  IF \E p \in DOMAIN e : p \notin Paths \cup Blocked \/ e[p] \in Binary THEN Refused
  ELSE IF DOMAIN e \cap Blocked # {} THEN Raised
  ELSE FromWorkspace([Restore(git) EXCEPT !.files =
         [p \in Paths |-> IF p \in DOMAIN e THEN e[p] ELSE base[p]]])

ExcludedOf(d) == {c \in d : c.path \in Withheld}

\* What is left of a patch once the withheld paths are cut out of it.
ExcludeWithheld(r) ==
  LET cut  == ExcludedOf(r.patch)
      kept == r.patch \ cut
  IN IF r.kind # "patch" \/ cut = {} THEN r
     ELSE IF kept = {} THEN Got({})
     ELSE FromPatch(kept)

(* What the answer's text holds: a diff, fenced or bare or in a field of a *)
(* JSON event; failing that an edit plan; failing that nothing.  The plan's *)
(* reader does not get past a block that is labelled json and is not.      *)
HoldsPatch(a)      == a.kind = "patch" /\ a.patch # {}
HoldsPlan(a)       == a.kind = "edits" /\ DOMAIN a.edits # {}
HoldsBrokenPlan(a) == a.kind = "fence"
HoldsNothing(a)    == a.kind = "prose"

\* What the answer's text gives, where `left' is what the workspace gave.
FromAnswer(a, left) ==
  IF HoldsPatch(a) THEN IF Fits(a.patch, base) THEN FromPatch(a.patch) ELSE left
  ELSE IF HoldsBrokenPlan(a) THEN Raised
  ELSE IF HoldsPlan(a) THEN FromEdits(a.edits) ELSE left

\* MUTANT of Normalize: the workspace is read after it was reset.
NormalizeLate(a) ==
  ExcludeWithheld(FromAnswer(a, FromWorkspace(Restore(git))))

\* A patch in the answer comes first, then an edit plan, then what the
\* workspace holds; the workspace is read before the others are put in its
\* place, and kept for a patch that does not apply.
Normalize(a) ==
  LET fallback == FromWorkspace(git) IN
  IF fallback = Raised THEN Raised
  ELSE ExcludeWithheld(FromAnswer(a, fallback))

-----------------------------------------------------------------------------
NoOutcome == [status |-> "none", patch |-> {}, normalized |-> FALSE]
NoGit     == [head |-> base, index |-> base, files |-> base]

Init ==
  /\ base \in Bases
  /\ step = "new" /\ git = NoGit
  /\ answer = [kind |-> "prose"] /\ edits = 0 /\ touched = {}
  /\ outcome = NoOutcome /\ homes = {} /\ present = FALSE /\ faulty = FALSE

\* A clone of the repository, at the base commit and without a remote; one
\* that fails is removed, and its attempt has failed.
CheckoutFails ==
  /\ step = "new"
  /\ step' = "closed" /\ outcome' = [NoOutcome EXCEPT !.status = "failed"]
  /\ UNCHANGED <<base, git, answer, edits, touched, present, homes, faulty>>

\* The clone, the benchmark's AGENTS.md over the repository's, and the home
\* directories with the user's credentials.
Prepare ==
  /\ step = "new"
  /\ step' = "solving" /\ present' = TRUE /\ homes' = {"codex", "claude"}
  /\ git' = [NoGit EXCEPT !.files[Agents] = Override]
  /\ UNCHANGED <<base, answer, edits, touched, outcome, faulty>>

\* One of the writes after the clone fails: the clone goes, what was copied
\* by then stays.
PrepareFails ==
  /\ step = "new"
  /\ homes' \in {{}, {"codex"}, {"codex", "claude"}}
  /\ step' = "closed" /\ outcome' = [NoOutcome EXCEPT !.status = "failed"]
  /\ UNCHANGED <<base, git, answer, edits, touched, present, faulty>>

Solve(g) ==
  /\ step = "solving" /\ edits < MaxEdits
  /\ g # git /\ git' = g /\ edits' = edits + 1
  /\ UNCHANGED <<base, step, answer, outcome, homes, present, faulty>>

WriteFile(p, c) == Solve([git EXCEPT !.files[p] = c]) /\ UNCHANGED touched
MoveFile(p, q)  ==
  /\ git.files[p] # Absent /\ git.files[q] = Absent
  /\ Solve([git EXCEPT !.files[q] = git.files[p], !.files[p] = Absent])
  /\ UNCHANGED touched
GitAdd ==
  Solve(Stage(git)) /\ touched' = touched \cup {"add"}
GitCommit ==
  Solve([Stage(git) EXCEPT !.head = git.files])
    /\ touched' = touched \cup {"commit"}

\* The solver ends with a text, or without success: then its work is not
\* read.
Answer(a) ==
  /\ step = "solving"
  /\ step' = "answered" /\ answer' = a
  /\ UNCHANGED <<base, git, edits, touched, outcome, homes, present, faulty>>

GiveUp ==
  /\ step = "solving"
  /\ step' = "recorded"
  /\ outcome' = [NoOutcome EXCEPT !.status = "failed"]
  /\ UNCHANGED <<base, git, answer, edits, touched, homes, present, faulty>>

\* The text of a solver that gave up cannot be written down: the error goes
\* through the workspace's context, which removes the checkout alone.
GiveUpRaises ==
  /\ step = "solving"
  /\ step' = "closed" /\ present' = FALSE /\ faulty' = TRUE
  /\ outcome' = [NoOutcome EXCEPT !.status = "failed"]
  /\ UNCHANGED <<base, git, answer, edits, touched, homes>>

\* A normalisation ends: with the attempt's patch or the reason it has none,
\* or with an error nothing expects.  That goes through the workspace's
\* context, and leaves the adapter's result as it was: succeeded, with the
\* answer as it came in the place of the patch.
Record(r) ==
  /\ step = "answered"
  /\ IF r.kind = "raised"
     THEN /\ outcome' = [NoOutcome EXCEPT !.status = "succeeded"]
          /\ step' = "closed" /\ present' = FALSE
     ELSE /\ outcome' = [status |-> IF r.kind = "patch" THEN "succeeded" ELSE "invalid_patch",
                         patch |-> r.patch, normalized |-> r.kind = "patch"]
          /\ step' = "recorded" /\ UNCHANGED present
  /\ UNCHANGED <<base, git, answer, edits, touched, homes>>

\* The trees are kept as the solver left them, for the properties: what the
\* normalisation makes of them goes with the checkout.
NormalizeAnswer == Record(Normalize(answer)) /\ UNCHANGED faulty

\* git or the disk fails a step of it: an error the code turns into a refusal
\* (git reset) or one it does not expect (a write).
NormalizeFaults == (\E r \in {Refused, Raised} : Record(r)) /\ faulty' = TRUE

\* The context is left: the checkout and the home directories go.
Close ==
  /\ step = "recorded"
  /\ step' = "closed" /\ present' = FALSE /\ homes' = {}
  /\ UNCHANGED <<base, git, answer, edits, touched, outcome, faulty>>

Done == step = "closed" /\ UNCHANGED vars

Next ==
  \/ CheckoutFails \/ Prepare \/ PrepareFails \/ GitAdd \/ GitCommit \/ GiveUp
  \/ GiveUpRaises \/ NormalizeAnswer \/ NormalizeFaults \/ Close \/ Done
  \/ \E p \in Paths, c \in Written \cup {Absent, Override} : WriteFile(p, c)
  \/ \E p, q \in Paths : MoveFile(p, q)
  \/ \E a \in Answers : Answer(a)

Spec == Init /\ [][Next]_vars

-----------------------------------------------------------------------------
\* An attempt's trees stay trees over the same paths through every git step,
\* an answer is of one kind, and its row has a status the scheduler knows.
TypeOK ==
  /\ step \in {"new", "solving", "answered", "recorded", "closed"}
  /\ base \in Bases
  /\ git \in [head: Trees, index: Trees, files: Trees]
  /\ \/ HoldsPatch(answer) \/ HoldsPlan(answer)
     \/ HoldsBrokenPlan(answer) \/ HoldsNothing(answer)
  /\ edits \in 0..MaxEdits
  /\ touched \subseteq {"add", "commit"}
  /\ outcome.status \in {"none", "failed", "succeeded", "invalid_patch"}
  /\ outcome.normalized \in BOOLEAN /\ present \in BOOLEAN /\ faulty \in BOOLEAN
  /\ homes \subseteq {"codex", "claude"}

\* A file was moved: its contents are, but for a change git sees through,
\* those of a renamed file of the patch (git may pair that with another file
\* like it), or were staged as AGENTS.md, which is taken out when the patch
\* is put on the base commit again.
MovedAway(p) ==
  \/ \E c \in outcome.patch : c.from # c.path /\ Alike(base[p], c.new)
  \/ touched # {} /\ base[p] # Absent /\ Alike(base[p], git.index[Agents])

\* A patch that was normalised applies to the base commit and leaves the
\* withheld test files as they are - for a solver that did not commit, as
\* AGENTS.md tells it not to; one that moves a withheld file away can have
\* it removed, never changed.  And unless a solver stages AGENTS.md its patch
\* puts no text there, the benchmark's first of all; where the solver itself
\* moved or copied that text, it is a file like another.
PatchIsClean ==
  outcome.normalized /\ "commit" \notin touched =>
    /\ Fits(outcome.patch, base)
    /\ \A p \in Withheld :
         \/ Patched(outcome.patch, base)[p] = base[p]
         \/ Patched(outcome.patch, base)[p] = Absent /\ MovedAway(p)
    /\ touched = {} => \A c \in outcome.patch : c.path = Agents => c.new = Absent

\* The files as the solver left them, AGENTS.md taken out.
Left == DiscardAgents(git).files

\* A change the patch cannot show: to a file that is or was one of them.
Changes(contents) == \E p \in Paths : Left[p] # base[p] /\ {Left[p], base[p]} \cap contents # {}

\* Nothing a solver did is lost on the way: when its answer holds no patch
\* that applies and no edit plan, it left git alone and the machine worked,
\* the patch turns the base commit into the files the solver left, save the
\* withheld ones and one that was renamed to a withheld one's path; it is
\* refused only if nothing changed, or a file that is or was binary; and it
\* is not made at all only if a change is not UTF-8.
WorkIsKept ==
  /\ touched = {} /\ ~faulty
  /\ \/ HoldsNothing(answer)
     \/ HoldsPatch(answer) /\ ~Fits(answer.patch, base)
  =>
  /\ outcome.normalized =>
       \A p \in Paths \ Withheld :
         \/ Patched(outcome.patch, base)[p] = Left[p]
         \/ \E c \in Diff(base, Left) : c.from = p /\ c.path \in Withheld
  /\ outcome.status = "invalid_patch" => Left = base \/ Changes(Binary)
  /\ outcome.status = "succeeded" => outcome.normalized \/ Changes(Garbled)

\* bead plan :2234, "Every solver attempt yields either a normalized patch or
\* an explicit failure reason": a success has a normalised patch, if the
\* machine worked.
PatchOrReason == outcome.status = "succeeded" /\ ~faulty => outcome.normalized

\* test_attempt_workspaces.py:90-94, what is true once an attempt's context
\* has been left: neither the checkout nor a home directory exists.
NothingLeftBehind == step = "closed" => ~present /\ homes = {}
=============================================================================
