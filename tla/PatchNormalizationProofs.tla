----------------------- MODULE PatchNormalizationProofs -----------------------
(***************************************************************************)
(* What is proved of PatchNormalization for every set of paths, base       *)
(* commit, test patch and answer, whatever git takes for a rename, and     *)
(* whatever a solver does to its workspace: that a diff applied to what it *)
(* is a diff of gives what it is a diff to, and from it that a normalised  *)
(* patch is clean and that a solver's work is kept.                        *)
(***************************************************************************)
EXTENDS PatchNormalization, FiniteSetTheorems, WellFoundedInduction, TLAPS

-----------------------------------------------------------------------------
(* Renames: there is a pairing that goes as far as it can, so git's is one. *)

Less == {ss \in Nat \X Nat : ss[1] < ss[2]}
OneToOne(m) == \A r, s \in m : Shares(r, s) => r = s
Covers(m, pairs) == \A r \in pairs : \E s \in m : Shares(r, s)

\* The largest of the pairings leaves no pair that could be added.
LEMMA MatchingIs ==
  ASSUME NEW taken, NEW pairs, IsFiniteSet(taken), IsFiniteSet(pairs), OneToOne(taken)
  PROVE  /\ taken \subseteq Matching(taken, pairs)
         /\ Matching(taken, pairs) \subseteq taken \cup pairs
         /\ OneToOne(Matching(taken, pairs)) /\ Covers(Matching(taken, pairs), pairs)
<1> DEFINE U  == taken \cup pairs
           MS == {m \in SUBSET U : taken \subseteq m /\ OneToOne(m)}
           T  == {Cardinality(U) - Cardinality(m) : m \in MS}
<1>1. IsFiniteSet(U) /\ Cardinality(U) \in Nat
  BY FS_Union, FS_CardinalityType
<1>2. ASSUME NEW m \in MS
      PROVE  IsFiniteSet(m) /\ Cardinality(m) \in Nat /\ Cardinality(m) <= Cardinality(U)
  <2>1. m \subseteq U
    OBVIOUS
  <2> HIDE DEF U, MS
  <2> QED BY <1>1, <2>1, FS_Subset, FS_CardinalityType
<1>3. T \subseteq Nat /\ T # {}
  <2>1. taken \in MS
    OBVIOUS
  <2>2. \A m \in MS : Cardinality(U) - Cardinality(m) \in Nat
    BY <1>1, <1>2
  <2> HIDE DEF MS, U
  <2> QED BY <2>1, <2>2
<1>4. PICK n \in T : \A k \in T : ~(<<k, n>> \in Less)
  <2>1. IsWellFoundedOn(Less, Nat)
    BY NatLessThanWellFounded DEF OpToRel, Less
  <2> HIDE DEF T
  <2> QED BY <1>3, <2>1, WFMin
<1>5. \A k \in T : ~(k < n)
  <2> HIDE DEF T
  <2> QED BY <1>3, <1>4 DEF Less
<1>6. PICK m \in MS : n = Cardinality(U) - Cardinality(m)
  OBVIOUS
<1>7. Covers(m, pairs)
  <2> SUFFICES ASSUME NEW r \in pairs, \A s \in m : ~Shares(r, s)
               PROVE  FALSE
    BY DEF Covers
  <2>1. r \notin m
    BY DEF Shares
  <2>2. (m \cup {r}) \in MS
    BY DEF OneToOne, Shares
  <2>3. Cardinality(m \cup {r}) = Cardinality(m) + 1
    BY <1>2, <2>1, FS_AddElement
  <2>4. Cardinality(U) - Cardinality(m \cup {r}) \in T
    BY <2>2
  <2> HIDE DEF MS, U, T
  <2>5. Cardinality(U) - Cardinality(m \cup {r}) < n
    BY <1>1, <1>2, <1>6, <2>3
  <2> QED BY <1>5, <2>4, <2>5
<1> HIDE DEF T
<1>8. \E x \in SUBSET (taken \cup pairs) :
         taken \subseteq x /\ OneToOne(x) /\ Covers(x, pairs)
  BY <1>7
<1> QED
  BY <1>8 DEF Matching, OneToOne, Covers

LEMMA RenamesAre ==
  ASSUME NEW t, NEW u
  PROVE  /\ Renames(t, u) \subseteq Pairs(t, u)
         /\ Covers(Renames(t, u), Pairs(t, u))
<1> DEFINE exact == Matching({}, Exact(t, u))
<1>1. IsFiniteSet(Pairs(t, u))
  <2>1. IsFiniteSet(Paths \X Paths)
    BY PathAssumption, FS_Product
  <2>2. Pairs(t, u) \subseteq Paths \X Paths
    BY DEF Pairs
  <2> QED BY <2>1, <2>2, FS_Subset
<1>2. Exact(t, u) \subseteq Pairs(t, u) /\ IsFiniteSet(Exact(t, u))
  <2>1. Exact(t, u) \subseteq Pairs(t, u)
    BY DEF Exact
  <2> QED BY <1>1, <2>1, FS_Subset
<1>3. exact \subseteq {} \cup Exact(t, u) /\ OneToOne(exact)
  <2>1. IsFiniteSet({}) /\ OneToOne({})
    BY FS_EmptySet DEF OneToOne
  <2> QED BY <1>2, <2>1, MatchingIs
<1> HIDE DEF exact
<1>4. exact \subseteq Pairs(t, u) /\ IsFiniteSet(exact)
  <2>1. exact \subseteq Pairs(t, u)
    BY <1>2, <1>3
  <2> QED BY <1>1, <2>1, FS_Subset
<1>5. /\ Matching(exact, Pairs(t, u)) \subseteq exact \cup Pairs(t, u)
      /\ Covers(Matching(exact, Pairs(t, u)), Pairs(t, u))
  BY <1>1, <1>3, <1>4, MatchingIs
<1>6. Renames(t, u) = Matching(exact, Pairs(t, u))
  BY DEF Renames, exact
<1> QED
  BY <1>4, <1>5, <1>6

LEMMA PairFacts ==
  ASSUME NEW t, NEW u, NEW r \in Pairs(t, u)
  PROVE  /\ r[1] \in Paths /\ r[2] \in Paths /\ r[1] # r[2]
         /\ t[r[1]] # Absent /\ u[r[1]] = Absent
         /\ t[r[2]] = Absent /\ u[r[2]] # Absent
         /\ Alike(t[r[1]], u[r[2]])
  BY DEF Pairs

-----------------------------------------------------------------------------
(* Diffs: what their chunks say, and what a part of one does when applied. *)

LEMMA DiffIs ==
  ASSUME NEW t, NEW u
  PROVE  /\ \A c \in Diff(t, u) :
              \/ \E r \in Renames(t, u) : c = Chunk(r[1], r[2], t[r[1]], u[r[2]])
              \/ \E p \in Paths : t[p] # u[p] /\ c = Chunk(p, p, t[p], u[p])
         /\ \A r \in Renames(t, u) : Chunk(r[1], r[2], t[r[1]], u[r[2]]) \in Diff(t, u)
         /\ \A p \in Paths :
              \/ t[p] = u[p]
              \/ Chunk(p, p, t[p], u[p]) \in Diff(t, u)
              \/ \E r \in Renames(t, u) : p = r[1] \/ p = r[2]
<1> DEFINE R      == Renames(t, u)
           paired == {r[1] : r \in R} \cup {r[2] : r \in R}
           moved  == {Chunk(r[1], r[2], t[r[1]], u[r[2]]) : r \in R}
           same   == {Chunk(p, p, t[p], u[p]) : p \in {x \in Paths \ paired : t[x] # u[x]}}
<1>1. Diff(t, u) = moved \cup same
  BY DEF Diff
<1>2. ASSUME NEW p \in Paths
      PROVE  t[p] = u[p] \/ Chunk(p, p, t[p], u[p]) \in same \/ p \in paired
  OBVIOUS
<1> HIDE DEF R
<1> QED
  BY <1>1, <1>2 DEF R

LEMMA DiffChunks ==
  ASSUME NEW t, NEW u, NEW c \in Diff(t, u)
  PROVE  /\ c.from \in Paths /\ c.path \in Paths
         /\ c.old = t[c.from] /\ c.new = u[c.path] /\ t[c.path] # u[c.path]
         /\ c.from # c.path => /\ t[c.path] = Absent /\ t[c.from] # Absent
                               /\ u[c.from] = Absent /\ u[c.path] # Absent
                               /\ Alike(t[c.from], u[c.path])
<1>1. ASSUME NEW p \in Paths, t[p] # u[p], c = Chunk(p, p, t[p], u[p])
      PROVE  /\ c.from = p /\ c.path = p /\ c.old = t[p] /\ c.new = u[p]
  BY <1>1 DEF Chunk
<1>2. ASSUME NEW r \in Renames(t, u), c = Chunk(r[1], r[2], t[r[1]], u[r[2]])
      PROVE  /\ r \in Pairs(t, u)
             /\ c.from = r[1] /\ c.path = r[2] /\ c.old = t[r[1]] /\ c.new = u[r[2]]
  BY <1>2, RenamesAre DEF Chunk
<1>3. CASE \E p \in Paths : t[p] # u[p] /\ c = Chunk(p, p, t[p], u[p])
  BY <1>1, <1>3
<1>4. CASE \E r \in Renames(t, u) : c = Chunk(r[1], r[2], t[r[1]], u[r[2]])
  <2>1. PICK r \in Renames(t, u) : c = Chunk(r[1], r[2], t[r[1]], u[r[2]])
    BY <1>4
  <2> QED BY <1>2, <2>1, PairFacts
<1> QED
  BY <1>3, <1>4, DiffIs

\* Every path that differs has a chunk, or is one that a chunk moved.
LEMMA DiffCovers ==
  ASSUME NEW t, NEW u, NEW p \in Paths, t[p] # u[p]
  PROVE  \E c \in Diff(t, u) : c.path = p \/ c.from = p
<1>1. CASE Chunk(p, p, t[p], u[p]) \in Diff(t, u)
  <2>1. Chunk(p, p, t[p], u[p]).path = p
    BY DEF Chunk
  <2> QED BY <1>1, <2>1
<1>2. ASSUME NEW r \in Renames(t, u), p = r[1] \/ p = r[2]
      PROVE  \E c \in Diff(t, u) : c.path = p \/ c.from = p
  <2>1. PICK c \in Diff(t, u) : c = Chunk(r[1], r[2], t[r[1]], u[r[2]])
    BY DiffIs
  <2>2. c.from = r[1] /\ c.path = r[2]
    BY <2>1 DEF Chunk
  <2> QED BY <1>2, <2>2
<1> QED
  BY <1>1, <1>2, DiffIs

\* Of a path that went and one that came that are alike, one is in a rename.
LEMMA DiffRenames ==
  ASSUME NEW t, NEW u, NEW p \in Paths, NEW q \in Paths,
         t[p] # Absent, u[p] = Absent, t[q] = Absent, u[q] # Absent, Alike(t[p], u[q])
  PROVE  \E c \in Diff(t, u) : c.from # c.path /\ (c.from = p \/ c.path = q)
<1>1. <<p, q>> \in Pairs(t, u)
  BY DEF Pairs
<1>2. PICK r \in Renames(t, u) : p = r[1] \/ q = r[2]
  BY <1>1, RenamesAre DEF Covers, Shares
<1>3. r[1] # r[2]
  BY RenamesAre, PairFacts
<1>4. PICK c \in Diff(t, u) : c = Chunk(r[1], r[2], t[r[1]], u[r[2]])
  BY DiffIs
<1>5. c.from = r[1] /\ c.path = r[2]
  BY <1>4 DEF Chunk
<1> QED
  BY <1>2, <1>3, <1>5

\* A path with a chunk gets what one of its chunks has for it.
LEMMA PatchedAt ==
  ASSUME NEW K, NEW t, NEW p \in Paths, \E c \in K : c.path = p
  PROVE  \E c \in K : c.path = p /\ Patched(K, t)[p] = c.new
<1>1. PICK d : d = CHOOSE c \in K : c.path = p
  OBVIOUS
<1>2. d \in K /\ d.path = p
  BY <1>1
<1>3. Patched(K, t)[p] = d.new
  BY <1>1 DEF Patched
<1> QED
  BY <1>2, <1>3

\* A part of a diff fits, and does to each path what the diff does or nothing.
LEMMA PartPatched ==
  ASSUME NEW t, NEW u, NEW K \in SUBSET Diff(t, u)
  PROVE  /\ Fits(K, t)
         /\ \A p \in Paths :
              /\ (\E c \in K : c.path = p) => Patched(K, t)[p] = u[p]
              /\ (\A c \in K : c.path # p) /\ (\E c \in K : c.from = p) =>
                   Patched(K, t)[p] = Absent /\ u[p] = Absent
              /\ (\A c \in K : c.path # p /\ c.from # p) => Patched(K, t)[p] = t[p]
<1>1. Fits(K, t)
  BY DiffChunks DEF Fits
<1>2. ASSUME NEW p \in Paths, NEW c \in K, c.path = p PROVE Patched(K, t)[p] = u[p]
  <2>1. PICK d \in K : d.path = p /\ Patched(K, t)[p] = d.new
    BY <1>2, PatchedAt
  <2> QED BY <2>1, DiffChunks
<1>3. ASSUME NEW p \in Paths, \A c \in K : c.path # p, NEW c \in K, c.from = p
      PROVE  Patched(K, t)[p] = Absent /\ u[p] = Absent
  BY <1>3, DiffChunks DEF Patched
<1>4. ASSUME NEW p \in Paths, \A c \in K : c.path # p /\ c.from # p
      PROVE  Patched(K, t)[p] = t[p]
  BY <1>4 DEF Patched
<1> QED
  BY <1>1, <1>2, <1>3, <1>4

\* A diff applied to what it was taken of gives what it was taken to.
LEMMA RoundTrip ==
  ASSUME NEW t, NEW u
  PROVE  Fits(Diff(t, u), t) /\ \A p \in Paths : Patched(Diff(t, u), t)[p] = u[p]
<1> DEFINE d == Diff(t, u)
<1>1. d \in SUBSET Diff(t, u)
  OBVIOUS
<1> HIDE DEF d
<1>2. ASSUME NEW p \in Paths PROVE Patched(d, t)[p] = u[p]
  <2>1. CASE \E c \in d : c.path = p
    BY <1>1, <2>1, PartPatched
  <2>2. CASE (\A c \in d : c.path # p) /\ \E c \in d : c.from = p
    <3>1. PICK c \in d : c.from = p /\ c.path # p
      BY <2>2
    <3>2. u[p] = Absent
      BY <1>1, <3>1, DiffChunks
    <3>3. Patched(d, t)[p] = Absent
      BY <2>2 DEF Patched
    <3> QED BY <3>2, <3>3
  <2>3. CASE \A c \in d : c.path # p /\ c.from # p
    <3>1. t[p] = u[p]
      BY <2>3, DiffCovers DEF d
    <3> QED BY <1>1, <2>3, <3>1, PartPatched
  <2> QED BY <2>1, <2>2, <2>3
<1> QED
  BY <1>1, <1>2, PartPatched DEF d

-----------------------------------------------------------------------------
(* Readings: the patch of a workspace is the diff to the files left in it. *)

LeftIn(g) == DiscardAgents(g).files

\* A file that is or was one of the contents differs.
Differs(t, u, contents) ==
  \E p \in Paths : t[p] # u[p] /\ {t[p], u[p]} \cap contents # {}

\* r is what reading gives when the tree u is compared with the tree t.
Reading(r, t, u) ==
  /\ r \in {Refused, Raised, Got(Diff(t, u))}
  /\ r = Refused <=> (\A p \in Paths : t[p] = u[p]) \/ Differs(t, u, Binary)
  /\ r = Raised => Differs(t, u, Garbled)

LEMMA Outcomes ==
  /\ Refused # Raised /\ Refused.kind = "refused" /\ Raised.kind = "raised"
  /\ \A d : /\ Got(d) # Refused /\ Got(d) # Raised
            /\ Got(d).kind = "patch" /\ Got(d).patch = d
<1>1. \A d : Got(d).kind = "patch" /\ Got(d).patch = d
  BY DEF Got
<1>2. Refused.kind = "refused" /\ Raised.kind = "raised"
  BY DEF Refused, Raised
<1> QED
  BY <1>1, <1>2

LEMMA GotOne == \A d, e : Got(d) = Got(e) => d = e
  BY Outcomes

LEMMA WorkspaceRead ==
  ASSUME NEW g, DOMAIN g.files = Paths,
         g = [head |-> g.head, index |-> g.index, files |-> g.files]
  PROVE  /\ Reading(FromWorkspace(g), g.head, LeftIn(g))
         /\ DOMAIN LeftIn(g) = Paths
         /\ \A p \in Paths \ {Agents} : LeftIn(g)[p] = g.files[p]
         /\ LeftIn(g)[Agents] = IF g.files[Agents] = Absent THEN Absent ELSE g.index[Agents]
<1>0. Agents \in Paths
  BY PathAssumption
<1>1. /\ \A p \in Paths \ {Agents} : LeftIn(g)[p] = g.files[p]
      /\ LeftIn(g)[Agents] = IF g.files[Agents] = Absent THEN Absent ELSE g.index[Agents]
      /\ DOMAIN LeftIn(g) = Paths
  <2>1. CASE g.files[Agents] = Absent
    BY <2>1 DEF LeftIn, DiscardAgents
  <2>2. CASE g.files[Agents] # Absent
    <3>1. LeftIn(g) = [g.files EXCEPT ![Agents] = g.index[Agents]]
      BY <2>2 DEF LeftIn, DiscardAgents
    <3> QED BY <1>0, <2>2, <3>1
  <2> QED BY <2>1, <2>2
<1>2. PICK s : s = Stage(DiscardAgents(g))
  OBVIOUS
<1>3. s.head = g.head /\ s.index = LeftIn(g)
  <2>1. CASE g.files[Agents] = Absent
    BY <1>2, <2>1 DEF LeftIn, DiscardAgents, Stage
  <2>2. CASE g.files[Agents] # Absent
    BY <1>2, <2>2 DEF LeftIn, DiscardAgents, Stage
  <2> QED BY <2>1, <2>2
<1> DEFINE t == g.head
           u == LeftIn(g)
           d == Diff(t, u)
           unread == \E c \in d : c.old # c.new /\ {c.old, c.new} \cap Garbled # {}
           none   == (\A p \in Paths : t[p] = u[p]) \/ Differs(t, u, Binary)
<1>4. FromWorkspace(g) =
        IF Changed(s) = {} \/ \E p \in Changed(s) : {s.head[p], s.index[p]} \cap Binary # {}
        THEN Refused ELSE IF unread THEN Raised ELSE Got(d)
  BY <1>2, <1>3 DEF FromWorkspace
<1>5. Changed(s) = {p \in Paths : t[p] # u[p]}
  BY <1>3 DEF Changed
<1>6. none <=> Changed(s) = {} \/ \E p \in Changed(s) : {s.head[p], s.index[p]} \cap Binary # {}
  <2> HIDE DEF t, u
  <2> QED BY <1>3, <1>5 DEF Differs, t, u
<1>7. unread => Differs(t, u, Garbled)
  <2> SUFFICES ASSUME NEW c \in d, c.old # c.new, {c.old, c.new} \cap Garbled # {}
               PROVE  Differs(t, u, Garbled)
    OBVIOUS
  <2> HIDE DEF t, u
  <2>1. /\ c.from \in Paths /\ c.path \in Paths /\ c.old = t[c.from] /\ c.new = u[c.path]
        /\ t[c.path] # u[c.path]
        /\ c.from # c.path => u[c.from] = Absent /\ t[c.from] # Absent
    BY DiffChunks
  <2>2. t[c.from] # u[c.from]
    BY <2>1
  <2> QED BY <2>1, <2>2 DEF Differs
<1> HIDE DEF none, unread, d
<1>8. FromWorkspace(g) = IF none THEN Refused ELSE IF unread THEN Raised ELSE Got(d)
  BY <1>4, <1>6
<1>9. /\ FromWorkspace(g) \in {Refused, Raised, Got(d)}
      /\ FromWorkspace(g) = Refused <=> none
      /\ FromWorkspace(g) = Raised => unread
  BY <1>8, Outcomes
<1>10. Reading(FromWorkspace(g), g.head, LeftIn(g))
  BY <1>7, <1>9 DEF Reading, none, d
<1> QED
  BY <1>1, <1>10

\* Files put on the base commit and read back.
LEMMA RestoredRead ==
  ASSUME NEW f, DOMAIN f = Paths
  PROVE  \E u : /\ Reading(FromWorkspace([Restore(git) EXCEPT !.files = f]), base, u)
                /\ \A p \in Paths \ {Agents} : u[p] = f[p]
                /\ u[Agents] = IF f[Agents] = Absent THEN Absent ELSE base[Agents]
<1> DEFINE g == [Restore(git) EXCEPT !.files = f]
<1>1. g = [head |-> base, index |-> base, files |-> f]
  BY DEF Restore
<1>2. g.head = base /\ g.index = base /\ g.files = f
  BY <1>1
<1>3. g = [head |-> g.head, index |-> g.index, files |-> g.files]
  BY <1>1, <1>2
<1> HIDE DEF g
<1>4. /\ Reading(FromWorkspace(g), base, LeftIn(g))
      /\ \A p \in Paths \ {Agents} : LeftIn(g)[p] = f[p]
      /\ LeftIn(g)[Agents] = IF f[Agents] = Absent THEN Absent ELSE base[Agents]
  BY <1>2, <1>3, WorkspaceRead
<1> QED
  BY <1>4 DEF g

LEMMA PatchRead ==
  ASSUME NEW d, Fits(d, base)
  PROVE  \E u : /\ Reading(FromPatch(d), base, u)
                /\ \A p \in Paths \ {Agents} : u[p] = Patched(d, base)[p]
                /\ u[Agents] = IF Patched(d, base)[Agents] = Absent
                               THEN Absent ELSE base[Agents]
<1>1. DOMAIN Patched(d, base) = Paths
  BY DEF Patched
<1>2. FromPatch(d) = FromWorkspace([Restore(git) EXCEPT !.files = Patched(d, base)])
  BY DEF FromPatch
<1> QED
  BY <1>1, <1>2, RestoredRead

-----------------------------------------------------------------------------
(* The inductive invariant: what git holds of a solver that left it alone, *)
(* and that nothing is on record before the answer is read.                *)

Untouched ==
  /\ "commit" \notin touched => git.head = base
  /\ touched = {} => git.index = base
Unrecorded == step \in {"new", "solving", "answered"} => outcome = NoOutcome
AttemptInv == TypeOK /\ Untouched /\ Unrecorded

LEMMA GitRecord ==
  ASSUME TypeOK
  PROVE  /\ git = [head |-> git.head, index |-> git.index, files |-> git.files]
         /\ DOMAIN git.files = Paths /\ DOMAIN base = Paths
         /\ git.head \in Trees /\ git.index \in Trees /\ git.files \in Trees /\ base \in Trees
  BY PathAssumption DEF TypeOK, Trees

LEMMA InitAttempt == Init => AttemptInv
<1> SUFFICES ASSUME Init PROVE AttemptInv
  OBVIOUS
<1>1. base \in Trees
  BY PathAssumption DEF Init
<1>2. git = [head |-> base, index |-> base, files |-> base]
  BY DEF Init, NoGit
<1>3. git \in [head: Trees, index: Trees, files: Trees]
  BY <1>1, <1>2
<1>4. TypeOK
  <2>1. answer.kind = "prose"
    BY DEF Init
  <2>2. outcome.status = "none" /\ outcome.normalized = FALSE
    BY DEF Init, NoOutcome
  <2>3. HoldsNothing(answer)
    BY <2>1 DEF HoldsNothing
  <2>4. /\ step = "new" /\ base \in Bases /\ edits \in 0 .. MaxEdits /\ touched = {}
        /\ homes = {} /\ present = FALSE /\ faulty = FALSE
    BY PathAssumption DEF Init
  <2> QED BY <1>3, <2>2, <2>3, <2>4 DEF TypeOK
<1>5. Untouched
  BY <1>2 DEF Init, Untouched
<1>6. Unrecorded
  BY DEF Init, Unrecorded
<1> QED
  BY <1>4, <1>5, <1>6 DEF AttemptInv

\* What the solver does to git and the files, and what it leaves.
LEMMA SolveStep ==
  ASSUME AttemptInv, NEW g \in [head: Trees, index: Trees, files: Trees], Solve(g),
         touched' \subseteq {"add", "commit"},
         "commit" \notin touched' => g.head = base,
         touched' = {} => g.index = base
  PROVE  AttemptInv'
<1>1. git' = g /\ UNCHANGED <<base, step, answer, outcome, homes, present, faulty>>
      /\ edits' \in 0 .. MaxEdits /\ step = "solving"
  BY PathAssumption DEF Solve, AttemptInv, TypeOK
<1>2. TypeOK'
  BY <1>1 DEF AttemptInv, TypeOK, HoldsPatch, HoldsPlan, HoldsBrokenPlan, HoldsNothing
<1>3. Untouched' /\ Unrecorded'
  BY <1>1 DEF AttemptInv, Untouched, Unrecorded, NoOutcome
<1> QED
  BY <1>1, <1>2, <1>3 DEF AttemptInv

LEMMA SolvesKeep ==
  ASSUME AttemptInv,
         \/ GitAdd \/ GitCommit
         \/ \E p \in Paths, c \in Written \cup {Absent, Override} : WriteFile(p, c)
         \/ \E p, q \in Paths : MoveFile(p, q)
  PROVE  AttemptInv'
<1>0. /\ git = [head |-> git.head, index |-> git.index, files |-> git.files]
      /\ DOMAIN git.files = Paths
      /\ git.head \in Trees /\ git.index \in Trees /\ git.files \in Trees
      /\ touched \subseteq {"add", "commit"} /\ Untouched
  BY GitRecord DEF AttemptInv, TypeOK
<1>1. CASE GitAdd
  <2> DEFINE g == Stage(git)
  <2>1. g = [head |-> git.head, index |-> git.files, files |-> git.files]
    BY <1>0 DEF Stage
  <2>2. touched' = touched \cup {"add"} /\ Solve(g)
    BY <1>1 DEF GitAdd
  <2> QED BY <1>0, <2>1, <2>2, SolveStep DEF Untouched
<1>2. CASE GitCommit
  <2> DEFINE g == [Stage(git) EXCEPT !.head = git.files]
  <2>0. Stage(git) = [head |-> git.head, index |-> git.files, files |-> git.files]
    BY <1>0 DEF Stage
  <2>1. g = [head |-> git.files, index |-> git.files, files |-> git.files]
    BY <2>0
  <2>2. touched' = touched \cup {"commit"} /\ Solve(g)
    BY <1>2 DEF GitCommit
  <2> QED BY <1>0, <2>1, <2>2, SolveStep DEF Untouched
<1>3. ASSUME NEW p \in Paths, NEW c \in Written \cup {Absent, Override}, WriteFile(p, c)
      PROVE  AttemptInv'
  <2> DEFINE g == [git EXCEPT !.files[p] = c]
             f == [git.files EXCEPT ![p] = c]
  <2>1. g = [head |-> git.head, index |-> git.index, files |-> f]
    BY <1>0
  <2>2. touched' = touched /\ Solve(g)
    BY <1>3 DEF WriteFile
  <2>3. f \in Trees
    BY <1>0 DEF Trees, Contents
  <2> HIDE DEF f, g
  <2> QED BY <1>0, <2>1, <2>2, <2>3, SolveStep DEF Untouched
<1>4. ASSUME NEW p \in Paths, NEW q \in Paths, MoveFile(p, q)
      PROVE  AttemptInv'
  <2> DEFINE g == [git EXCEPT !.files[q] = git.files[p], !.files[p] = Absent]
             h == [git EXCEPT !.files[q] = git.files[p]]
             e == [git.files EXCEPT ![q] = git.files[p]]
             f == [e EXCEPT ![p] = Absent]
  <2>0. h = [head |-> git.head, index |-> git.index, files |-> e]
    BY <1>0
  <2>1. g = [head |-> git.head, index |-> git.index, files |-> f]
    <3>1. g = [h EXCEPT !.files[p] = Absent]
      OBVIOUS
    <3>2. f = [e EXCEPT ![p] = Absent]
      OBVIOUS
    <3> HIDE DEF h, g, e, f
    <3> QED BY <2>0, <3>1, <3>2
  <2>2. touched' = touched /\ Solve(g)
    BY <1>4 DEF MoveFile
  <2>3. Absent \in Contents
    BY DEF Contents
  <2>4. f \in Trees
    BY <1>0, <2>3 DEF Trees
  <2> HIDE DEF f, g
  <2> QED BY <1>0, <2>1, <2>2, <2>4, SolveStep DEF Untouched
<1> QED
  BY <1>1, <1>2, <1>3, <1>4

\* Every normalisation gives a patch or fails in one of two ways.
Sound(r) == r = Refused \/ r = Raised \/ \E d : r = Got(d)

LEMMA AlwaysSound == \A a : Sound(Normalize(a))
<1>1. \A g : Sound(FromWorkspace(g))
  BY DEF FromWorkspace, Sound
<1>2. \A d : Sound(FromPatch(d))
  BY <1>1 DEF FromPatch, Sound
<1>3. \A e : Sound(FromEdits(e))
  BY <1>1 DEF FromEdits, Sound
<1>4. \A r : Sound(r) => Sound(ExcludeWithheld(r))
  <2> SUFFICES ASSUME NEW r, Sound(r) PROVE Sound(ExcludeWithheld(r))
    OBVIOUS
  <2>1. ExcludeWithheld(r) \in {r, Got({}), FromPatch(r.patch \ ExcludedOf(r.patch))}
    BY DEF ExcludeWithheld
  <2>2. Sound(Got({}))
    BY DEF Sound
  <2> QED BY <1>2, <2>1, <2>2
<1>5. ASSUME NEW a PROVE Sound(Normalize(a))
  <2> DEFINE first == FromAnswer(a, FromWorkspace(git))
  <2>1. Sound(first)
    <3>1. Sound(Raised)
      BY DEF Sound
    <3> QED BY <1>1, <1>2, <1>3, <3>1 DEF FromAnswer
  <2>2. Normalize(a) \in {Raised, ExcludeWithheld(first)}
    BY DEF Normalize
  <2>3. Sound(Raised)
    BY DEF Sound
  <2> HIDE DEF first
  <2> QED BY <1>4, <2>1, <2>2, <2>3
<1> QED
  BY <1>5

\* What a normalisation that ends in r puts on record.
LEMMA RecordOf ==
  ASSUME NEW r, Sound(r), Record(r)
  PROVE  /\ UNCHANGED <<base, git, answer, edits, touched, homes>>
         /\ step = "answered" /\ step' \in {"closed", "recorded"} /\ present' \in {FALSE, present}
         /\ \/ r = Raised /\ outcome'.status = "succeeded" /\ outcome'.normalized = FALSE
            \/ r = Refused /\ outcome'.status = "invalid_patch" /\ outcome'.normalized = FALSE
            \/ /\ r = Got(outcome'.patch)
               /\ outcome'.status = "succeeded" /\ outcome'.normalized = TRUE
<1>1. /\ UNCHANGED <<base, git, answer, edits, touched, homes>>
      /\ step = "answered" /\ step' \in {"closed", "recorded"} /\ present' \in {FALSE, present}
  BY DEF Record
<1>2. CASE r = Raised
  BY <1>1, <1>2, Outcomes DEF Record, NoOutcome
<1>3. CASE r = Refused
  <2>1. r.kind = "refused"
    BY <1>3, Outcomes
  <2>2. outcome' = [status |-> "invalid_patch", patch |-> r.patch, normalized |-> FALSE]
    BY <2>1 DEF Record
  <2> QED BY <1>1, <1>3, <2>2
<1>4. ASSUME NEW d, r = Got(d)
      PROVE  /\ r = Got(outcome'.patch)
             /\ outcome'.status = "succeeded" /\ outcome'.normalized = TRUE
  <2>1. r.kind = "patch" /\ r.patch = d
    BY <1>4, Outcomes
  <2>2. outcome' = [status |-> "succeeded", patch |-> d, normalized |-> TRUE]
    BY <2>1 DEF Record
  <2> QED BY <1>4, <2>2
<1> QED
  BY <1>1, <1>2, <1>3, <1>4 DEF Sound

LEMMA FaultRecords ==
  ASSUME NormalizeFaults
  PROVE  /\ UNCHANGED <<base, git, answer, edits, touched, homes>> /\ faulty' = TRUE
         /\ step = "answered" /\ step' \in {"closed", "recorded"} /\ present' \in {FALSE, present}
         /\ outcome'.status \in {"succeeded", "invalid_patch"} /\ outcome'.normalized = FALSE
<1>1. PICK r \in {Refused, Raised} : Record(r)
  BY DEF NormalizeFaults
<1>2. Sound(r) /\ \A d : r # Got(d)
  BY Outcomes DEF Sound
<1>3. faulty' = TRUE
  BY DEF NormalizeFaults
<1> QED
  BY <1>1, <1>2, <1>3, RecordOf

LEMMA StepAttempt == AttemptInv /\ [Next]_vars => AttemptInv'
<1> SUFFICES ASSUME AttemptInv, [Next]_vars PROVE AttemptInv'
  OBVIOUS
<1>0. TypeOK /\ Untouched /\ Unrecorded
  BY DEF AttemptInv
<1> USE DEF AttemptInv, TypeOK, HoldsPatch, HoldsPlan, HoldsBrokenPlan, HoldsNothing,
            Untouched, Unrecorded
<1>1. CASE CheckoutFails
  BY <1>1 DEF CheckoutFails, NoOutcome
<1>2. CASE Prepare
  <2> DEFINE f == [base EXCEPT ![Agents] = Override]
  <2>1. git' = [head |-> base, index |-> base, files |-> f]
    BY <1>2 DEF Prepare, NoGit
  <2>2. base \in Trees /\ base \in Bases /\ Override \in Contents
    BY GitRecord DEF Contents
  <2>3. f \in Trees
    BY <2>2 DEF Trees
  <2>4. git' \in [head: Trees, index: Trees, files: Trees]
    BY <2>1, <2>2, <2>3
  <2>5. git'.head = base /\ git'.index = base
    BY <2>1
  <2>6. /\ UNCHANGED <<base, answer, edits, touched, outcome, faulty>>
        /\ step = "new" /\ step' = "solving" /\ homes' = {"codex", "claude"}
        /\ present' = TRUE
    BY <1>2 DEF Prepare
  <2> HIDE DEF f
  <2>7. Untouched' /\ TypeOK' /\ Unrecorded'
    BY <2>4, <2>5, <2>6 DEF NoOutcome
  <2> QED BY <2>7 DEF AttemptInv
<1>3. CASE PrepareFails
  BY <1>3 DEF PrepareFails, NoOutcome
<1>4. CASE \/ GitAdd \/ GitCommit
           \/ \E p \in Paths, c \in Written \cup {Absent, Override} : WriteFile(p, c)
           \/ \E p, q \in Paths : MoveFile(p, q)
  BY <1>4, SolvesKeep
<1>5. ASSUME NEW a \in Answers, Answer(a) PROVE AttemptInv'
  <2>1. HoldsPatch(a) \/ HoldsPlan(a) \/ HoldsBrokenPlan(a) \/ HoldsNothing(a)
    BY PathAssumption
  <2> QED BY <1>5, <2>1 DEF Answer, NoOutcome
<1>6. CASE GiveUp
  BY <1>6 DEF GiveUp, NoOutcome
<1>7. CASE GiveUpRaises
  BY <1>7 DEF GiveUpRaises, NoOutcome
<1>8. CASE NormalizeAnswer
  <2>1. /\ UNCHANGED <<base, git, answer, edits, touched, homes>>
        /\ step = "answered" /\ step' \in {"closed", "recorded"} /\ present' \in {FALSE, present}
        /\ outcome'.status \in {"succeeded", "invalid_patch"} /\ outcome'.normalized \in BOOLEAN
    BY <1>8, RecordOf, AlwaysSound DEF NormalizeAnswer
  <2>2. faulty' = faulty
    BY <1>8 DEF NormalizeAnswer
  <2> QED BY <2>1, <2>2
<1>9. CASE NormalizeFaults
  BY <1>9, FaultRecords
<1>10. CASE Close
  BY <1>10 DEF Close
<1>11. CASE Done \/ UNCHANGED vars
  <2>1. UNCHANGED <<base, step, git, answer, edits, touched, outcome, homes, present, faulty>>
    BY <1>11 DEF Done, vars
  <2>2. TypeOK' /\ Untouched' /\ Unrecorded'
    BY <1>0, <2>1
  <2> QED BY <2>1, <2>2 DEF AttemptInv
<1> QED
  BY <1>1, <1>2, <1>3, <1>4, <1>5, <1>6, <1>7, <1>8, <1>9, <1>10, <1>11 DEF Next

LEMMA AlwaysAttempt == Spec => []AttemptInv
  BY InitAttempt, StepAttempt, PTL DEF Spec

(***************************************************************************)
(* An attempt's trees stay trees, its answer is of one kind and its row    *)
(* has a status the scheduler knows, whatever the solver does.             *)
(***************************************************************************)
THEOREM TypeCorrect == Spec => []TypeOK
  BY AlwaysAttempt, PTL DEF AttemptInv

-----------------------------------------------------------------------------
(* What a normalised patch does to the withheld files.                     *)

\* The patch an answer gives before the withheld paths are cut out of it.
First(a) == FromAnswer(a, FromWorkspace(git))

LEMMA NormalizeIsCut ==
  \A a : \/ FromWorkspace(git) = Raised /\ Normalize(a) = Raised
         \/ FromWorkspace(git) # Raised /\ Normalize(a) = ExcludeWithheld(First(a))
<1> SUFFICES ASSUME NEW a
             PROVE  \/ FromWorkspace(git) = Raised /\ Normalize(a) = Raised
                    \/ /\ FromWorkspace(git) # Raised
                       /\ Normalize(a) = ExcludeWithheld(First(a))
  OBVIOUS
<1>1. CASE FromWorkspace(git) = Raised
  BY <1>1 DEF Normalize
<1>2. CASE FromWorkspace(git) # Raised
  BY <1>2 DEF Normalize, First
<1> QED
  BY <1>1, <1>2

\* A tree whose AGENTS.md is the repository's, or what the solver staged.
Tame(u) == \/ u[Agents] \in {Absent, base[Agents]}
           \/ touched # {} /\ u[Agents] = git.index[Agents]

LEMMA BaseFacts ==
  ASSUME AttemptInv
  PROVE  /\ base \in Bases /\ Agents \in Paths
         /\ Withheld \subseteq Paths \ {Agents}
  BY PathAssumption DEF AttemptInv, TypeOK, Withheld

LEMMA RestoredTame ==
  ASSUME NEW f, DOMAIN f = Paths
  PROVE  \E u : /\ Reading(FromWorkspace([Restore(git) EXCEPT !.files = f]), base, u)
                /\ Tame(u)
  BY RestoredRead DEF Tame

\* The workspace of a solver that left git alone is read as what it left.
LEMMA WorkRead ==
  ASSUME AttemptInv, "commit" \notin touched
  PROVE  /\ Reading(FromWorkspace(git), base, Left) /\ Tame(Left)
         /\ DOMAIN Left = Paths
         /\ touched = {} => Left[Agents] \in {Absent, base[Agents]}
<1>1. /\ Reading(FromWorkspace(git), git.head, LeftIn(git))
      /\ DOMAIN LeftIn(git) = Paths
      /\ LeftIn(git)[Agents] \in {Absent, git.index[Agents]}
  BY GitRecord, WorkspaceRead DEF AttemptInv
<1>2. LeftIn(git) = Left
  BY DEF LeftIn, Left
<1>3. git.head = base /\ (touched = {} => git.index = base)
  BY DEF AttemptInv, Untouched
<1> QED
  BY <1>1, <1>2, <1>3 DEF Tame

LEMMA FirstRead ==
  ASSUME AttemptInv, "commit" \notin touched
  PROVE  First(answer) \in {Refused, Raised} \/ \E u : Reading(First(answer), base, u) /\ Tame(u)
<1>1. \E u : Reading(FromWorkspace(git), base, u) /\ Tame(u)
  BY WorkRead
<1>2. ASSUME NEW d
      PROVE  FromPatch(d) = Refused \/ \E u : Reading(FromPatch(d), base, u) /\ Tame(u)
  <2> DEFINE f == Patched(d, base)
  <2>1. DOMAIN f = Paths
    BY DEF Patched
  <2>2. CASE Fits(d, base)
    <3>1. FromPatch(d) = FromWorkspace([Restore(git) EXCEPT !.files = f])
      BY <2>2 DEF FromPatch
    <3> HIDE DEF f
    <3> QED BY <2>1, <3>1, RestoredTame
  <2>3. CASE ~Fits(d, base)
    BY <2>3 DEF FromPatch
  <2> QED BY <2>2, <2>3
<1>3. ASSUME NEW e
      PROVE  FromEdits(e) \in {Refused, Raised} \/ \E u : Reading(FromEdits(e), base, u) /\ Tame(u)
  <2> DEFINE f == [p \in Paths |-> IF p \in DOMAIN e THEN e[p] ELSE base[p]]
  <2>1. DOMAIN f = Paths
    OBVIOUS
  <2>2. FromEdits(e) \in {Refused, Raised, FromWorkspace([Restore(git) EXCEPT !.files = f])}
    BY DEF FromEdits
  <2> HIDE DEF f
  <2>3. \E u : Reading(FromWorkspace([Restore(git) EXCEPT !.files = f]), base, u) /\ Tame(u)
    BY <2>1, RestoredTame
  <2> QED BY <2>2, <2>3
<1>4. \/ First(answer) = FromWorkspace(git) \/ First(answer) = Raised
      \/ \E d : First(answer) = FromPatch(d)
      \/ \E e : First(answer) = FromEdits(e)
  BY DEF First, FromAnswer
<1> QED
  BY <1>1, <1>2, <1>3, <1>4

MovedIn(p, d) ==
  \/ \E c \in d : c.from # c.path /\ Alike(base[p], c.new)
  \/ touched # {} /\ base[p] # Absent /\ Alike(base[p], git.index[Agents])
Clean(d) ==
  /\ Fits(d, base)
  /\ \A p \in Withheld :
       \/ Patched(d, base)[p] = base[p]
       \/ Patched(d, base)[p] = Absent /\ MovedIn(p, d)
  /\ touched = {} => \A c \in d : c.path = Agents => c.new = Absent

\* A diff that touches no withheld path can only have moved one away.
LEMMA UncutIsClean ==
  ASSUME AttemptInv, NEW u, Tame(u), ExcludedOf(Diff(base, u)) = {}
  PROVE  Clean(Diff(base, u))
<1> DEFINE d == Diff(base, u)
<1>1. d \in SUBSET Diff(base, u) /\ \A c \in d : c.path \notin Withheld
  BY DEF ExcludedOf
<1>2. \A c \in d : c.new = u[c.path] /\ c.path \in Paths /\ base[c.path] # u[c.path]
  BY DiffChunks
<1> HIDE DEF d
<1>3. /\ Fits(d, base)
      /\ \A p \in Paths :
           (\A c \in d : c.path # p /\ c.from # p) => Patched(d, base)[p] = base[p]
  <2>1. PICK K \in SUBSET Diff(base, u) : K = d
    BY <1>1
  <2>2. /\ Fits(K, base)
        /\ \A p \in Paths :
             (\A c \in K : c.path # p /\ c.from # p) => Patched(K, base)[p] = base[p]
    BY PartPatched
  <2> QED BY <2>1, <2>2
<1>4. touched = {} => \A c \in d : c.path = Agents => c.new = Absent
  BY <1>2 DEF Tame
<1>5. ASSUME NEW p \in Withheld
      PROVE  \/ Patched(d, base)[p] = base[p]
             \/ Patched(d, base)[p] = Absent /\ MovedIn(p, d)
  <2>0. p \in Paths
    BY BaseFacts
  <2>1. \A c \in d : c.path # p
    BY <1>1
  <2>2. CASE \A c \in d : c.from # p
    BY <1>3, <2>0, <2>1, <2>2
  <2>3. ASSUME NEW c \in d, c.from = p
        PROVE  Patched(d, base)[p] = Absent /\ MovedIn(p, d)
    <3>1. c.from # c.path /\ Alike(base[p], c.new)
      BY <1>1, <2>1, <2>3, DiffChunks
    <3>2. Patched(d, base)[p] = Absent
      BY <2>0, <2>1, <2>3 DEF Patched
    <3> QED BY <3>1, <3>2 DEF MovedIn
  <2> QED BY <2>2, <2>3
<1> QED
  BY <1>3, <1>4, <1>5 DEF Clean, d

\* What is left of a diff without its withheld chunks, put on the base commit
\* and read again.
Kept(u) == Diff(base, u) \ ExcludedOf(Diff(base, u))

LEMMA KeptRead ==
  ASSUME NEW u
  PROVE  /\ Kept(u) \in SUBSET Diff(base, u)
         /\ \A c \in Kept(u) : c.path \notin Withheld
         /\ \A p \in Paths :
              /\ (\E c \in Kept(u) : c.path = p) => Patched(Kept(u), base)[p] = u[p]
              /\ Patched(Kept(u), base)[p] \in {u[p], base[p]}
              /\ (\A c \in Kept(u) : c.path # p /\ c.from # p) =>
                   Patched(Kept(u), base)[p] = base[p]
         /\ \E v : /\ Reading(FromPatch(Kept(u)), base, v)
                   /\ \A p \in Paths \ {Agents} : v[p] = Patched(Kept(u), base)[p]
                   /\ v[Agents] = IF Patched(Kept(u), base)[Agents] = Absent
                                  THEN Absent ELSE base[Agents]
<1>1. Kept(u) \in SUBSET Diff(base, u) /\ \A c \in Kept(u) : c.path \notin Withheld
  BY DEF Kept, ExcludedOf
<1>2. PICK K \in SUBSET Diff(base, u) : K = Kept(u)
  BY <1>1
<1>3. /\ Fits(K, base)
      /\ \A p \in Paths :
           /\ (\E c \in K : c.path = p) => Patched(K, base)[p] = u[p]
           /\ (\A c \in K : c.path # p) /\ (\E c \in K : c.from = p) =>
                Patched(K, base)[p] = Absent /\ u[p] = Absent
           /\ (\A c \in K : c.path # p /\ c.from # p) => Patched(K, base)[p] = base[p]
  BY PartPatched
<1>4. \A p \in Paths : Patched(K, base)[p] \in {u[p], base[p]}
  BY <1>3
<1>5. \E v : /\ Reading(FromPatch(K), base, v)
             /\ \A p \in Paths \ {Agents} : v[p] = Patched(K, base)[p]
             /\ v[Agents] = IF Patched(K, base)[Agents] = Absent THEN Absent ELSE base[Agents]
  BY <1>3, PatchRead
<1> QED
  BY <1>1, <1>2, <1>3, <1>4, <1>5

LEMMA CutIsClean ==
  ASSUME AttemptInv, NEW u, Tame(u), NEW d, FromPatch(Kept(u)) = Got(d)
  PROVE  Clean(d)
<1>0. /\ Kept(u) \in SUBSET Diff(base, u) /\ \A c \in Kept(u) : c.path \notin Withheld
      /\ Agents \in Paths /\ Withheld \subseteq Paths \ {Agents}
  BY KeptRead, BaseFacts
<1>1. PICK v : /\ Reading(FromPatch(Kept(u)), base, v)
               /\ \A p \in Paths \ {Agents} : v[p] = Patched(Kept(u), base)[p]
               /\ v[Agents] \in {Absent, base[Agents]}
  BY KeptRead
<1>2. d = Diff(base, v)
  BY <1>1, Outcomes, GotOne DEF Reading
<1>3. /\ Fits(d, base) /\ \A p \in Paths : Patched(d, base)[p] = v[p]
      /\ \A c \in d : c.new = v[c.path] /\ c.path \in Paths /\ base[c.path] # v[c.path]
  BY <1>2, RoundTrip, DiffChunks
<1>4. ASSUME NEW p \in Withheld
      PROVE  \/ v[p] = base[p]
             \/ v[p] = Absent /\ MovedIn(p, d)
  <2>0. p \in Paths /\ v[p] = Patched(Kept(u), base)[p]
    BY <1>0, <1>1
  <2>1. \A c \in Kept(u) : c.path # p
    BY <1>0
  <2>2. CASE \A c \in Kept(u) : c.from # p
    BY <2>0, <2>1, <2>2, KeptRead
  <2>3. ASSUME NEW c \in Kept(u), c.from = p
        PROVE  v[p] = Absent /\ MovedIn(p, d)
    <3>1. v[p] = Absent
      BY <2>0, <2>1, <2>3 DEF Patched
    <3>2. PICK q \in Paths : q = c.path
      BY <1>0, DiffChunks
    <3>3. /\ base[q] = Absent /\ base[p] # Absent
          /\ u[q] # Absent /\ Alike(base[p], u[q])
      BY <1>0, <2>1, <2>3, <3>2, DiffChunks
    <3>4. Patched(Kept(u), base)[q] = u[q]
      BY <2>3, <3>2, KeptRead
    <3>5. CASE q # Agents
      <4>1. v[q] = u[q]
        BY <1>1, <3>4, <3>5
      <4>2. PICK e \in d : e.from # e.path /\ (e.from = p \/ e.path = q)
        BY <1>2, <2>0, <3>1, <3>3, <4>1, DiffRenames
      <4>3. e.new = v[e.path] /\ Alike(base[e.from], v[e.path])
        BY <1>2, <4>2, DiffChunks
      <4>4. Alike(base[p], e.new)
        BY <3>3, <4>1, <4>2, <4>3
      <4> QED BY <3>1, <4>2, <4>4 DEF MovedIn
    <3>6. CASE q = Agents
      BY <3>1, <3>3, <3>6 DEF MovedIn, Tame
    <3> QED BY <3>5, <3>6
  <2> QED BY <2>2, <2>3
<1>5. touched = {} => \A c \in d : c.path = Agents => c.new = Absent
  BY <1>1, <1>3
<1>6. \A p \in Withheld : Patched(d, base)[p] = v[p]
  BY <1>0, <1>3
<1> QED
  BY <1>3, <1>4, <1>5, <1>6 DEF Clean

LEMMA NothingIsClean == ASSUME AttemptInv PROVE Clean({})
<1>1. \A p \in Withheld : Patched({}, base)[p] = base[p]
  BY BaseFacts DEF Patched
<1> QED
  BY <1>1 DEF Clean, Fits

\* The three ways a normalisation that starts with the diff to u goes on.
LEMMA CutOf ==
  ASSUME NEW u
  PROVE  \/ /\ ExcludedOf(Diff(base, u)) = {}
            /\ ExcludeWithheld(Got(Diff(base, u))) = Got(Diff(base, u))
         \/ /\ Kept(u) = {}
            /\ ExcludeWithheld(Got(Diff(base, u))) = Got({})
         \/ /\ Kept(u) # {}
            /\ ExcludeWithheld(Got(Diff(base, u))) = FromPatch(Kept(u))
<1>1. PICK r : r = Got(Diff(base, u))
  OBVIOUS
<1>2. r.kind = "patch" /\ r.patch = Diff(base, u)
  BY <1>1, Outcomes
<1> QED
  BY <1>1, <1>2 DEF ExcludeWithheld, Kept

LEMMA CutFails == ExcludeWithheld(Refused) = Refused /\ ExcludeWithheld(Raised) = Raised
  BY DEF ExcludeWithheld, Refused, Raised

LEMMA NormalIsClean ==
  ASSUME AttemptInv, "commit" \notin touched, NEW d, Normalize(answer) = Got(d)
  PROVE  Clean(d)
<1>1. PICK r : r = First(answer)
  OBVIOUS
<1>2. Got(d) = ExcludeWithheld(r)
  BY <1>1, NormalizeIsCut, Outcomes
<1>3. r # Refused /\ r # Raised
  BY <1>2, CutFails, Outcomes
<1>4. PICK u : Reading(r, base, u) /\ Tame(u)
  BY <1>1, <1>3, FirstRead
<1>5. r = Got(Diff(base, u))
  BY <1>3, <1>4 DEF Reading
<1>6. CASE ExcludedOf(Diff(base, u)) = {} /\ Got(d) = Got(Diff(base, u))
  <2>1. d = Diff(base, u)
    BY <1>6, GotOne
  <2> QED BY <1>4, <1>6, <2>1, UncutIsClean
<1>7. CASE Got(d) = Got({})
  BY <1>7, GotOne, NothingIsClean
<1>8. CASE Got(d) = FromPatch(Kept(u))
  BY <1>4, <1>8, CutIsClean
<1> QED
  BY <1>2, <1>5, <1>6, <1>7, <1>8, CutOf

\* Of the other steps, none puts a patch on record or changes one that is.
LEMMA OtherSteps ==
  ASSUME AttemptInv, [Next]_vars, ~NormalizeAnswer
  PROVE  \/ outcome'.normalized = FALSE /\ (faulty' \/ outcome'.status \in {"none", "failed"})
         \/ UNCHANGED <<base, git, answer, touched, outcome, faulty>>
<1>1. NoOutcome.normalized = FALSE /\ NoOutcome.status = "none"
  BY DEF NoOutcome
<1>2. CASE CheckoutFails \/ PrepareFails \/ GiveUp \/ GiveUpRaises
  BY <1>2 DEF CheckoutFails, PrepareFails, GiveUp, GiveUpRaises, NoOutcome
<1>3. CASE NormalizeFaults
  BY <1>3, FaultRecords
<1>4. CASE Close \/ Done \/ UNCHANGED vars
  BY <1>4 DEF Close, Done, vars
<1>5. CASE \/ Prepare \/ GitAdd \/ GitCommit
           \/ \E p \in Paths, c \in Written \cup {Absent, Override} : WriteFile(p, c)
           \/ \E p, q \in Paths : MoveFile(p, q)
           \/ \E a \in Answers : Answer(a)
  <2>1. step \in {"new", "solving"} /\ outcome' = outcome
    BY <1>5 DEF Prepare, GitAdd, GitCommit, WriteFile, MoveFile, Answer, Solve
  <2> QED BY <1>1, <2>1 DEF AttemptInv, Unrecorded
<1> QED
  BY <1>2, <1>3, <1>4, <1>5 DEF Next

(***************************************************************************)
(* A normalised patch of a solver that did not commit applies to the base  *)
(* commit, changes no withheld file but one that was moved away, and puts  *)
(* no text at AGENTS.md unless the solver staged it.                       *)
(***************************************************************************)
THEOREM PatchesAreClean == Spec => []PatchIsClean
<1>1. Init => PatchIsClean
  BY DEF Init, NoOutcome, PatchIsClean
<1>2. AttemptInv /\ PatchIsClean /\ [Next]_vars => PatchIsClean'
  <2> SUFFICES ASSUME AttemptInv, PatchIsClean, [Next]_vars PROVE PatchIsClean'
    OBVIOUS
  <2>1. CASE ~NormalizeAnswer
    <3>1. CASE outcome'.normalized = FALSE
      BY <3>1 DEF PatchIsClean
    <3>2. CASE UNCHANGED <<base, git, answer, touched, outcome>>
      BY <3>2 DEF PatchIsClean, MovedAway
    <3> QED BY <2>1, <3>1, <3>2, OtherSteps
  <2>2. CASE NormalizeAnswer
    <3> SUFFICES ASSUME outcome'.normalized, "commit" \notin touched'
                 PROVE  /\ Fits(outcome.patch, base)'
                        /\ \A p \in Withheld :
                             \/ (Patched(outcome.patch, base)[p] = base[p])'
                             \/ (Patched(outcome.patch, base)[p] = Absent /\ MovedAway(p))'
                        /\ touched' = {} =>
                             \A c \in outcome'.patch : c.path = Agents => c.new = Absent
      BY DEF PatchIsClean
    <3>1. UNCHANGED <<base, git, touched>> /\ Normalize(answer) = Got(outcome'.patch)
      BY <2>2, RecordOf, AlwaysSound DEF NormalizeAnswer
    <3>2. PICK d : d = outcome'.patch
      OBVIOUS
    <3>3. Clean(d)
      BY <3>1, <3>2, NormalIsClean
    <3> QED BY <3>1, <3>2, <3>3 DEF Clean, MovedIn, MovedAway
  <2> QED BY <2>1, <2>2
<1> QED
  BY <1>1, <1>2, AlwaysAttempt, PTL DEF Spec

-----------------------------------------------------------------------------
(* The solver's work.                                                      *)

\* The answer names no patch that applies and no plan: the workspace counts.
WorkCounts == /\ touched = {}
              /\ \/ HoldsNothing(answer)
                 \/ HoldsPatch(answer) /\ ~Fits(answer.patch, base)
RenamedAway(p) == \E c \in Diff(base, Left) : c.from = p /\ c.path \in Withheld

LEMMA FirstIsWork ==
  ASSUME AttemptInv, WorkCounts
  PROVE  /\ First(answer) = FromWorkspace(git)
         /\ Reading(FromWorkspace(git), base, Left)
         /\ DOMAIN Left = Paths /\ Left[Agents] \in {Absent, base[Agents]}
<1>1. First(answer) = FromWorkspace(git)
  BY DEF WorkCounts, First, FromAnswer, HoldsNothing, HoldsPatch, HoldsPlan, HoldsBrokenPlan
<1> QED
  BY <1>1, WorkRead DEF WorkCounts

LEMMA LeftIsTree ==
  ASSUME AttemptInv
  PROVE  Left \in Trees
<1>1. git.files \in [Paths -> Contents] /\ git.index \in [Paths -> Contents] /\ Agents \in Paths
  BY GitRecord, BaseFacts DEF AttemptInv, Trees
<1>2. CASE git.files[Agents] = Absent
  BY <1>1, <1>2 DEF Left, DiscardAgents, Trees
<1>3. CASE git.files[Agents] # Absent
  <2>1. Left = [git.files EXCEPT ![Agents] = git.index[Agents]]
    BY <1>3 DEF Left, DiscardAgents
  <2> QED BY <1>1, <2>1 DEF Trees
<1> QED
  BY <1>2, <1>3

LEMMA ChangesAre == \A contents : Changes(contents) <=> Differs(base, Left, contents)
  BY DEF Changes, Differs

\* Work is lost from the cut patch only where a withheld path took it over.
LEMMA KeptWork ==
  ASSUME NEW p \in Paths \ Withheld
  PROVE  Patched(Kept(Left), base)[p] = Left[p] \/ RenamedAway(p)
<1>1. CASE \E c \in Kept(Left) : c.path = p
  BY <1>1, KeptRead
<1>2. ASSUME \A c \in Kept(Left) : c.path # p, NEW c \in Kept(Left), c.from = p
      PROVE  Patched(Kept(Left), base)[p] = Left[p]
  <2>1. Patched(Kept(Left), base)[p] = Absent
    BY <1>2 DEF Patched
  <2>2. Left[p] = Absent
    BY <1>2, DiffChunks DEF Kept
  <2> QED BY <2>1, <2>2
<1>3. CASE \A c \in Kept(Left) : c.path # p /\ c.from # p
  <2>1. Patched(Kept(Left), base)[p] = base[p]
    BY <1>3, KeptRead
  <2>2. ASSUME base[p] # Left[p] PROVE RenamedAway(p)
    <3>1. PICK c \in Diff(base, Left) : c.path = p \/ c.from = p
      BY <2>2, DiffCovers
    <3>2. c.path \in Withheld
      BY <1>3, <3>1 DEF Kept, ExcludedOf
    <3> QED BY <3>1, <3>2 DEF RenamedAway
  <2> QED BY <2>1, <2>2
<1> QED
  BY <1>1, <1>2, <1>3

\* The cut patch, put on the base commit, leaves each file as the solver did or
\* as it was; not all of them as they were.
LEMMA CutWork ==
  ASSUME AttemptInv, WorkCounts
  PROVE  \E v : /\ Reading(FromPatch(Kept(Left)), base, v)
                /\ \A p \in Paths : v[p] \in {Left[p], base[p]}
                /\ \A p \in Paths \ Withheld : v[p] = Left[p] \/ RenamedAway(p)
                /\ Kept(Left) # {} => \E p \in Paths : base[p] # v[p]
<1>0. Agents \in Paths /\ Left[Agents] \in {Absent, base[Agents]}
  BY BaseFacts, FirstIsWork
<1>1. PICK v : /\ Reading(FromPatch(Kept(Left)), base, v)
               /\ \A p \in Paths \ {Agents} : v[p] = Patched(Kept(Left), base)[p]
               /\ v[Agents] = IF Patched(Kept(Left), base)[Agents] = Absent
                              THEN Absent ELSE base[Agents]
  BY KeptRead
<1>2. ASSUME NEW p \in Paths
      PROVE  /\ v[p] \in {Left[p], base[p]}
             /\ Patched(Kept(Left), base)[p] = Left[p] => v[p] = Left[p]
  <2>1. Patched(Kept(Left), base)[p] \in {Left[p], base[p]}
    BY KeptRead
  <2> QED BY <1>0, <1>1, <2>1
<1>3. ASSUME Kept(Left) # {} PROVE \E p \in Paths : base[p] # v[p]
  <2>1. PICK c \in Kept(Left) : TRUE
    BY <1>3
  <2>2. PICK p \in Paths : p = c.path
    BY DiffChunks DEF Kept
  <2>3. base[p] # Left[p]
    BY <2>2, DiffChunks DEF Kept
  <2>4. Patched(Kept(Left), base)[p] = Left[p]
    BY <2>1, <2>2, KeptRead
  <2> QED BY <1>2, <2>3, <2>4
<1>4. \A p \in Paths \ Withheld : v[p] = Left[p] \/ RenamedAway(p)
  BY <1>2, KeptWork
<1> QED
  BY <1>1, <1>2, <1>3, <1>4

\* What a normalisation that reads the workspace makes of the solver's work.
KeepsWork(r) ==
  /\ r = Refused => (\A p \in Paths : Left[p] = base[p]) \/ Changes(Binary)
  /\ r = Raised => Changes(Garbled)
  /\ \A d : r = Got(d) =>
       \A p \in Paths \ Withheld : Patched(d, base)[p] = Left[p] \/ RenamedAway(p)

LEMMA CutKeepsWork ==
  ASSUME AttemptInv, WorkCounts, FromWorkspace(git) = Got(Diff(base, Left)), Kept(Left) # {}
  PROVE  KeepsWork(FromPatch(Kept(Left)))
<1>1. PICK v : /\ Reading(FromPatch(Kept(Left)), base, v)
               /\ \A p \in Paths : v[p] \in {Left[p], base[p]}
               /\ \A p \in Paths \ Withheld : v[p] = Left[p] \/ RenamedAway(p)
               /\ \E p \in Paths : base[p] # v[p]
  BY CutWork
<1>2. ASSUME NEW contents, Differs(base, v, contents) PROVE Changes(contents)
  BY <1>1, <1>2, ChangesAre DEF Differs
<1>3. FromPatch(Kept(Left)) # Refused
  <2>1. ~Changes(Binary)
    BY FirstIsWork, ChangesAre, Outcomes DEF Reading
  <2> QED BY <1>1, <1>2, <2>1 DEF Reading
<1>4. FromPatch(Kept(Left)) = Raised => Changes(Garbled)
  BY <1>1, <1>2 DEF Reading
<1>5. ASSUME NEW d, FromPatch(Kept(Left)) = Got(d), NEW p \in Paths \ Withheld
      PROVE  Patched(d, base)[p] = Left[p] \/ RenamedAway(p)
  <2>1. d = Diff(base, v)
    BY <1>1, <1>5, Outcomes, GotOne DEF Reading
  <2>2. Patched(d, base)[p] = v[p]
    BY <2>1, RoundTrip
  <2> QED BY <1>1, <2>2
<1> QED
  BY <1>3, <1>4, <1>5 DEF KeepsWork

LEMMA NormalKeeps ==
  ASSUME AttemptInv, WorkCounts
  PROVE  KeepsWork(Normalize(answer))
<1>1. PICK r : r = FromWorkspace(git)
  OBVIOUS
<1>2. Reading(r, base, Left) /\ First(answer) = r
  BY <1>1, FirstIsWork
<1>3. CASE r = Refused
  <2>1. Normalize(answer) = Refused
    BY <1>1, <1>2, <1>3, NormalizeIsCut, CutFails, Outcomes
  <2>2. (\A p \in Paths : Left[p] = base[p]) \/ Changes(Binary)
    BY <1>2, <1>3, ChangesAre DEF Reading
  <2> QED BY <2>1, <2>2, Outcomes DEF KeepsWork
<1>4. CASE r = Raised
  <2>1. Normalize(answer) = Raised
    BY <1>1, <1>4, NormalizeIsCut
  <2>2. Changes(Garbled)
    BY <1>2, <1>4, ChangesAre DEF Reading
  <2> QED BY <2>1, <2>2, Outcomes DEF KeepsWork
<1>5. CASE r = Got(Diff(base, Left))
  <2>1. Normalize(answer) = ExcludeWithheld(Got(Diff(base, Left)))
    BY <1>1, <1>2, <1>5, NormalizeIsCut, Outcomes
  <2>2. CASE Normalize(answer) = Got(Diff(base, Left))
    <3>1. \A p \in Paths : Patched(Diff(base, Left), base)[p] = Left[p]
      BY RoundTrip
    <3> QED BY <2>2, <3>1, Outcomes, GotOne DEF KeepsWork
  <2>3. CASE Kept(Left) = {} /\ Normalize(answer) = Got({})
    <3>1. \A p \in Paths \ Withheld : Patched({}, base)[p] = Left[p] \/ RenamedAway(p)
      BY <2>3, KeptWork
    <3> QED BY <2>3, <3>1, Outcomes, GotOne DEF KeepsWork
  <2>4. CASE Kept(Left) # {} /\ Normalize(answer) = FromPatch(Kept(Left))
    BY <1>1, <1>5, <2>4, CutKeepsWork
  <2> QED BY <2>1, <2>2, <2>3, <2>4, CutOf
<1> QED
  BY <1>2, <1>3, <1>4, <1>5 DEF Reading

(***************************************************************************)
(* Nothing a solver did is lost on the way: if its answer holds no patch   *)
(* that applies and no edit plan, it left git alone and the machine        *)
(* worked, its patch leads from the base commit to the files it left, save *)
(* the withheld ones and one that took a withheld one's path; it is        *)
(* refused only if nothing changed or a file that is or was binary, and    *)
(* not made at all only if a change is not UTF-8.                          *)
(***************************************************************************)
THEOREM WorkIsAlwaysKept == Spec => []WorkIsKept
<1>1. Init => WorkIsKept
  BY DEF Init, NoOutcome, WorkIsKept
<1>2. AttemptInv /\ WorkIsKept /\ [Next]_vars => WorkIsKept'
  <2> SUFFICES ASSUME AttemptInv, WorkIsKept, [Next]_vars PROVE WorkIsKept'
    OBVIOUS
  <2>1. CASE ~NormalizeAnswer
    <3>1. CASE outcome'.normalized = FALSE /\ outcome'.status \in {"none", "failed"}
      BY <3>1 DEF WorkIsKept
    <3>2. CASE faulty'
      BY <3>2 DEF WorkIsKept
    <3>3. CASE UNCHANGED <<base, git, answer, touched, outcome, faulty>>
      BY <3>3 DEF WorkIsKept, HoldsNothing, HoldsPatch, Changes, Left
    <3> QED BY <2>1, <3>1, <3>2, <3>3, OtherSteps
  <2>2. CASE NormalizeAnswer
    <3>1. /\ UNCHANGED <<base, git, answer, touched>>
          /\ \/ Normalize(answer) = Raised /\ outcome'.status = "succeeded" /\ ~outcome'.normalized
             \/ Normalize(answer) = Refused /\ outcome'.status = "invalid_patch"
                  /\ ~outcome'.normalized
             \/ Normalize(answer) = Got(outcome'.patch) /\ outcome'.status = "succeeded"
                  /\ outcome'.normalized
      BY <2>2, RecordOf, AlwaysSound DEF NormalizeAnswer
    <3>2. UNCHANGED Left
      BY <3>1 DEF Left
    <3> SUFFICES ASSUME WorkCounts
                 PROVE  /\ outcome'.normalized =>
                             \A p \in Paths \ Withheld :
                               (Patched(outcome.patch, base)[p] = Left[p])' \/ RenamedAway(p)
                        /\ outcome'.status = "invalid_patch" => Left = base \/ Changes(Binary)
                        /\ outcome'.status = "succeeded" => outcome'.normalized \/ Changes(Garbled)
      BY <3>1, <3>2 DEF WorkIsKept, WorkCounts, RenamedAway, HoldsNothing, HoldsPatch, Changes
    <3>3. PICK d : d = outcome'.patch
      OBVIOUS
    <3>4. KeepsWork(Normalize(answer))
      BY NormalKeeps
    <3>5. ASSUME outcome'.normalized, NEW p \in Paths \ Withheld
          PROVE  (Patched(outcome.patch, base)[p] = Left[p])' \/ RenamedAway(p)
      <4>1. Patched(d, base)[p] = Left[p] \/ RenamedAway(p)
        BY <3>1, <3>3, <3>4, <3>5 DEF KeepsWork
      <4> QED BY <3>1, <3>2, <3>3, <4>1
    <3>6. ASSUME outcome'.status = "invalid_patch" PROVE Left = base \/ Changes(Binary)
      <4>1. (\A p \in Paths : Left[p] = base[p]) \/ Changes(Binary)
        BY <3>1, <3>4, <3>6 DEF KeepsWork
      <4>2. Left \in [Paths -> Contents] /\ base \in [Paths -> Contents]
        BY LeftIsTree, GitRecord DEF AttemptInv, Trees
      <4> QED BY <4>1, <4>2
    <3>7. ASSUME outcome'.status = "succeeded" PROVE outcome'.normalized \/ Changes(Garbled)
      BY <3>1, <3>4, <3>7 DEF KeepsWork
    <3> QED BY <3>5, <3>6, <3>7
  <2> QED BY <2>1, <2>2
<1> QED
  BY <1>1, <1>2, AlwaysAttempt, PTL DEF Spec
=============================================================================
