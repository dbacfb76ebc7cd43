---------------------------- MODULE PathWalkProofs ----------------------------
(***************************************************************************)
(* Proofs about PathWalk, for any file system, any links, any path and any *)
(* renames.                                                                *)
(***************************************************************************)
EXTENDS PathWalk, WellFoundedInduction, TLAPS

(* Obligations over whole states get more time than the default.            *)
USE SMTT(30), ZenonT(30)

-----------------------------------------------------------------------------
(* What is below a directory.                                               *)

(* The entries of a directory are nodes.                                    *)
LEMMA EntriesAreNodes ==
  ASSUME NEW t \in FileSystem, NEW d \in Dir
  PROVE  Entries(t, d) \subseteq Node
  BY DEF Entries, FileSystem

(* A directory is below itself, and so is what is in a directory below it.  *)
LEMMA BelowClosed ==
  ASSUME NEW t \in FileSystem, NEW d \in Dir
  PROVE  /\ d \in Below(t, d) /\ Below(t, d) \subseteq Node
         /\ \A y \in Below(t, d) \cap Dir : Entries(t, y) \subseteq Below(t, d)
  <1>1. d \in DirsBelow(t, d) /\ DirsBelow(t, d) \subseteq Dir
    BY DEF DirsBelow
  <1>2. ASSUME NEW y \in DirsBelow(t, d), NEW z \in Entries(t, y), z \in Dir
        PROVE  z \in DirsBelow(t, d)
    BY <1>2 DEF DirsBelow
  <1>3. Below(t, d) \cap Dir = DirsBelow(t, d)
    BY <1>1, <1>2 DEF Below
  <1>4. Below(t, d) \subseteq Node
    BY <1>1, EntriesAreNodes DEF Below, Node
  <1> QED BY <1>1, <1>3, <1>4 DEF Below

(* It is in every set that has the directory and what is in its members.    *)
LEMMA BelowLeast ==
  ASSUME NEW t \in FileSystem, NEW d \in Dir, NEW S, d \in S,
         \A y \in S \cap Dir : Entries(t, y) \subseteq S
  PROVE  Below(t, d) \subseteq S
  <1>1. DirsBelow(t, d) \subseteq S \cap Dir
    <2>1. S \cap Dir \in SUBSET Dir /\ d \in S \cap Dir
      OBVIOUS
    <2>2. \A y \in S \cap Dir : Entries(t, y) \cap Dir \subseteq S \cap Dir
      OBVIOUS
    <2> QED BY Zenon, <2>1, <2>2 DEF DirsBelow
  <1> QED BY <1>1 DEF Below

-----------------------------------------------------------------------------
(* The recursion of Resolve ends.                                           *)

(* A set of numbers has a least one.                                        *)
LEMMA LeastOf ==
  ASSUME NEW T, T \subseteq Nat, T # {}
  PROVE  \E x \in T : \A y \in T : x <= y
  <1> DEFINE R == OpToRel(<, Nat)
  <1>1. IsWellFoundedOn(R, Nat)
    BY NatLessThanWellFounded
  <1>2. \A x, y \in Nat : x < y => <<x, y>> \in R
    BY DEF OpToRel
  <1> HIDE DEF R
  <1>3. PICK x \in T : \A y \in T : ~(<<y, x>> \in R)
    BY Zenon, <1>1, WFMin
  <1>4. ASSUME NEW y \in T PROVE x <= y
    <2>1. ~(y < x)
      BY Zenon, <1>2, <1>3
    <2> QED BY <2>1
  <1> QED BY <1>4

(* A resolution is shorter when it has followed more links, or has less of  *)
(* the path left.                                                           *)
Shorter(r, s) ==
  r.links > s.links \/ (r.links = s.links /\ Len(r.path) < Len(s.path))

(* What a resolution carries.                                               *)
LEMMA ResolutionParts ==
  ASSUME NEW s \in Resolution
  PROVE  /\ s.dir \in Dir /\ s.path \in Seq(Component) /\ s.links \in 0..MaxSymlinks
         /\ s.links \in Int /\ Len(s.path) \in Nat /\ MaxSymlinks - s.links \in Nat
         /\ s = At(s.dir, s.path, s.links)
  BY WalkConstants DEF Resolution, At

(* What is shorter than a shorter resolution is shorter.                    *)
LEMMA ShorterTransitive ==
  ASSUME NEW r \in Resolution, NEW s \in Resolution, NEW u \in Resolution,
         Shorter(r, s), Shorter(s, u)
  PROVE  Shorter(r, u)
  BY ResolutionParts DEF Shorter

(* Every set of resolutions has one that no other is shorter than.          *)
LEMMA ShortestOf ==
  ASSUME NEW T, T \subseteq Resolution, T # {}
  PROVE  \E s \in T : \A r \in T : ~Shorter(r, s)
  <1> DEFINE L == {MaxSymlinks - s.links : s \in T}
  <1>1. PICK l \in L : \A k \in L : l <= k
    <2>1. L \subseteq Nat /\ L # {}
      BY ResolutionParts
    <2> HIDE DEF L
    <2> QED BY Zenon, <2>1, LeastOf
  <1>2. PICK s1 \in T : l = MaxSymlinks - s1.links
    OBVIOUS
  <1> DEFINE U == {s \in T : s.links = s1.links}
             P == {Len(s.path) : s \in U}
  <1>3. PICK n \in P : \A k \in P : n <= k
    <2>1. \A s \in U : Len(s.path) \in Nat
      BY ResolutionParts
    <2>2. s1 \in U
      OBVIOUS
    <2>3. P \subseteq Nat /\ P # {}
      BY Zenon, <2>1, <2>2
    <2> HIDE DEF P
    <2> QED BY Zenon, <2>3, LeastOf
  <1>4. PICK s \in U : n = Len(s.path)
    OBVIOUS
  <1>5. ASSUME NEW r \in T PROVE ~Shorter(r, s)
    <2>1. /\ r.links \in Int /\ s.links \in Int /\ Len(r.path) \in Nat /\ Len(s.path) \in Nat
          /\ MaxSymlinks \in Int /\ s1.links \in Int
      BY ResolutionParts, WalkConstants
    <2>2. MaxSymlinks - s1.links <= MaxSymlinks - r.links
      BY <1>1, <1>2
    <2>3. s.links = s1.links
      OBVIOUS
    <2>4. r.links = s1.links => Len(s.path) <= Len(r.path)
      BY <1>3, <1>4
    <2> HIDE DEF U, L, P
    <2> QED BY <2>1, <2>2, <2>3, <2>4 DEF Shorter
  <1> QED BY <1>5

(* Where ".." leads to is a directory.                                      *)
LEMMA ParentIsDir ==
  ASSUME NEW t, NEW d \in Dir
  PROVE  Parent(t, d) \in Dir
  BY DEF Parent

(* The next resolutions are shorter.                                        *)
LEMMA StepsAreShorter ==
  ASSUME NEW s \in Resolution, s.path # <<>>
  PROVE  /\ Head(s.path) \in Component /\ Tail(s.path) \in Seq(Component)
         /\ \A d \in Dir : /\ At(d, Tail(s.path), s.links) \in Resolution
                           /\ Shorter(At(d, Tail(s.path), s.links), s)
         /\ s.links # MaxSymlinks =>
              \A d \in Dir, x \in Link :
                /\ At(d, Target[x].path \o Tail(s.path), s.links + 1) \in Resolution
                /\ Shorter(At(d, Target[x].path \o Tail(s.path), s.links + 1), s)
  <1>1. s.path \in Seq(Component) /\ s.links \in 0..MaxSymlinks
    BY ResolutionParts
  <1>2. /\ Head(s.path) \in Component /\ Tail(s.path) \in Seq(Component)
        /\ Len(Tail(s.path)) = Len(s.path) - 1 /\ Len(s.path) \in Nat
    BY <1>1
  <1>3. ASSUME NEW d \in Dir
        PROVE  /\ At(d, Tail(s.path), s.links) \in Resolution
               /\ Shorter(At(d, Tail(s.path), s.links), s)
    BY <1>1, <1>2 DEF At, Resolution, Shorter
  <1>4. ASSUME s.links # MaxSymlinks, NEW d \in Dir, NEW x \in Link
        PROVE  /\ At(d, Target[x].path \o Tail(s.path), s.links + 1) \in Resolution
               /\ Shorter(At(d, Target[x].path \o Tail(s.path), s.links + 1), s)
    <2>1. Target[x].path \in Seq(Component)
      BY WalkConstants
    <2>2. Target[x].path \o Tail(s.path) \in Seq(Component)
      BY <1>2, <2>1
    <2>3. s.links + 1 \in 0..MaxSymlinks /\ s.links + 1 > s.links
      BY <1>1, <1>4, WalkConstants
    <2> QED BY <2>2, <2>3 DEF At, Resolution, Shorter
  <1> QED BY <1>2, <1>3, <1>4

(* The result depends on f at the shorter resolutions only.                 *)
LEMMA ResolveLocal ==
  ASSUME NEW t \in FileSystem, NEW f, NEW g, NEW s \in Resolution,
         \A r \in Resolution : Shorter(r, s) => f[r] = g[r]
  PROVE  Resolve(t, f, s) = Resolve(t, g, s)
  <1>1. CASE s.path = <<>>
    BY <1>1 DEF Resolve
  <1>2. CASE s.path # <<>>
    <2> DEFINE c == Head(s.path)
               rest == Tail(s.path)
               x == t[s.dir][c]
               up == IF s.dir = Root THEN Root ELSE Parent(t, s.dir)
    <2>1. s.dir \in Dir /\ Root \in Dir /\ c \in Component /\ up \in Dir
      BY <1>2, ResolutionParts, StepsAreShorter, ParentIsDir, WalkConstants
    <2>2. \A d \in Dir : f[At(d, rest, s.links)] = g[At(d, rest, s.links)]
      BY <1>2, StepsAreShorter
    <2>3. ASSUME s.links # MaxSymlinks, NEW d \in Dir, NEW y \in Link
          PROVE  f[At(d, Target[y].path \o rest, s.links + 1)] = g[At(d, Target[y].path \o rest, s.links + 1)]
      BY <1>2, <2>3, StepsAreShorter
    <2>4. c \in Name => x \in Node \cup {NoNode}
      BY <2>1 DEF FileSystem
    <2>5. CASE c = "."
      BY Zenon, <1>2, <2>1, <2>2, <2>5, WalkConstants DEF Resolve
    <2>6. CASE c = ".."
      BY Zenon, <1>2, <2>1, <2>2, <2>6, WalkConstants DEF Resolve
    <2>7. CASE c \in Name
      <3>0. c # "." /\ c # ".."
        BY <2>7, WalkConstants
      <3>1. CASE x = NoNode
        BY <1>2, <2>7, <3>0, <3>1, WalkConstants DEF Resolve, Node
      <3>2. CASE x \in Dir
        BY Zenon, <1>2, <2>2, <2>7, <3>0, <3>2, WalkConstants DEF Resolve, Node
      <3>3. CASE x \in File
        BY Zenon, <1>2, <2>7, <3>0, <3>3, WalkConstants DEF Resolve, Node
      <3>4. CASE x \in Link
        BY Zenon, <1>2, <2>1, <2>3, <2>7, <3>0, <3>4, WalkConstants DEF Resolve, Node
      <3> QED BY <2>4, <2>7, <3>1, <3>2, <3>3, <3>4 DEF Node
    <2> QED BY <2>1, <2>5, <2>6, <2>7 DEF Component
  <1> QED BY <1>1, <1>2

(* The results of a resolution and of those shorter than it.                *)
UpTo(s) == {r \in Resolution : r = s \/ Shorter(r, s)}
Solves(g, t, s) == g = [r \in UpTo(s) |-> Resolve(t, g, r)]
Solution(t, s) == CHOOSE g : Solves(g, t, s)

(* Two solutions of the equations of a resolution agree where both are      *)
(* defined: the shortest disagreement would follow from shorter ones.       *)
LEMMA SolutionsAgree ==
  ASSUME NEW t \in FileSystem, NEW s \in Resolution, NEW u \in Resolution, NEW g, NEW h,
         Solves(g, t, s), Solves(h, t, u), NEW r0 \in UpTo(s), r0 \in UpTo(u)
  PROVE  g[r0] = h[r0]
  <1> DEFINE T == {r \in UpTo(s) \cap UpTo(u) : g[r] # h[r]}
  <1> SUFFICES ASSUME T # {} PROVE FALSE
    OBVIOUS
  <1>1. PICK r \in T : \A z \in T : ~Shorter(z, r)
    <2>1. T \subseteq Resolution
      BY DEF UpTo
    <2> HIDE DEF T
    <2> QED BY <2>1, ShortestOf
  <1>2. r \in Resolution /\ r \in UpTo(s) /\ r \in UpTo(u) /\ g[r] # h[r]
    BY DEF UpTo
  <1>3. \A z \in Resolution : Shorter(z, r) => z \in UpTo(s) /\ z \in UpTo(u)
    BY <1>2, ShorterTransitive DEF UpTo
  <1>4. \A z \in Resolution : Shorter(z, r) => g[z] = h[z]
    BY <1>1, <1>3
  <1> HIDE DEF T
  <1>5. Resolve(t, g, r) = Resolve(t, h, r)
    BY <1>2, <1>4, ResolveLocal
  <1>6. g[r] = Resolve(t, g, r) /\ h[r] = Resolve(t, h, r)
    BY <1>2 DEF Solves
  <1> QED BY <1>2, <1>5, <1>6

(* The results of the shorter ones give those of a resolution.              *)
LEMMA SolutionBuilt ==
  ASSUME NEW t \in FileSystem, NEW S, S \subseteq Resolution,
         \A r \in S, z \in Resolution : Shorter(z, r) => z \in S,
         \A r \in S : Solves(Solution(t, r), t, r)
  PROVE  \A r \in S : Solution(t, r)[r] = Resolve(t, [z \in S |-> Solution(t, z)[z]], r)
  <1> SUFFICES ASSUME NEW r \in S
               PROVE  Solution(t, r)[r] = Resolve(t, [z \in S |-> Solution(t, z)[z]], r)
    OBVIOUS
  <1> DEFINE g == Solution(t, r)
             f == [z \in S |-> Solution(t, z)[z]]
  <1>1. ASSUME NEW z \in Resolution, Shorter(z, r) PROVE g[z] = f[z]
    <2>1. z \in S /\ z \in UpTo(r) /\ z \in UpTo(z) /\ r \in Resolution
      BY <1>1 DEF UpTo
    <2>2. Solves(g, t, r) /\ Solves(Solution(t, z), t, z)
      BY <2>1
    <2> HIDE DEF g
    <2>3. g[z] = Solution(t, z)[z]
      BY <2>1, <2>2, SolutionsAgree
    <2> QED BY <2>1, <2>3
  <1>2. Solves(g, t, r) /\ r \in UpTo(r) /\ r \in Resolution
    BY DEF UpTo
  <1> HIDE DEF g, f
  <1>3. g[r] = Resolve(t, g, r)
    BY <1>2 DEF Solves
  <1>4. Resolve(t, g, r) = Resolve(t, f, r)
    BY <1>1, <1>2, ResolveLocal
  <1> QED BY <1>3, <1>4 DEF g, f

(* The equations of a resolution have a solution: the shortest resolution   *)
(* without one would have it, put together from those of shorter ones.      *)
LEMMA SolutionExists ==
  ASSUME NEW t \in FileSystem, NEW s0 \in Resolution
  PROVE  Solves(Solution(t, s0), t, s0)
  <1> DEFINE T == {s \in Resolution : ~Solves(Solution(t, s), t, s)}
  <1> SUFFICES ASSUME T # {} PROVE FALSE
    OBVIOUS
  <1>1. PICK s \in T : \A r \in T : ~Shorter(r, s)
    <2>1. T \subseteq Resolution
      OBVIOUS
    <2> HIDE DEF T
    <2> QED BY <2>1, ShortestOf
  <1> DEFINE S == {r \in Resolution : Shorter(r, s)}
             f == [z \in S |-> Solution(t, z)[z]]
             h == [r \in UpTo(s) |-> Resolve(t, f, r)]
  <1>2. /\ S \subseteq Resolution /\ s \in Resolution /\ ~Solves(Solution(t, s), t, s)
        /\ \A r \in S, z \in Resolution : Shorter(z, r) => z \in S
        /\ \A r \in S : Solves(Solution(t, r), t, r)
    BY <1>1, ShorterTransitive
  <1>3. \A r \in S : f[r] = Resolve(t, f, r) /\ r \in UpTo(s)
    BY <1>2, SolutionBuilt DEF UpTo
  <1> HIDE DEF T, f
  <1>4. ASSUME NEW r \in UpTo(s) PROVE Resolve(t, f, r) = Resolve(t, h, r)
    <2>1. r \in Resolution
      BY DEF UpTo
    <2>2. ASSUME NEW z \in Resolution, Shorter(z, r) PROVE z \in S
      BY <1>2, <2>1, <2>2, ShorterTransitive DEF UpTo
    <2>3. \A z \in Resolution : Shorter(z, r) => f[z] = h[z]
      BY <1>3, <2>2
    <2> HIDE DEF h
    <2> QED BY <2>1, <2>3, ResolveLocal
  <1>5. h = [r \in UpTo(s) |-> Resolve(t, h, r)]
    <2>1. h = [r \in UpTo(s) |-> Resolve(t, f, r)]
      OBVIOUS
    <2> HIDE DEF h
    <2> QED BY <1>4, <2>1
  <1> HIDE DEF h
  <1>6. \E g : Solves(g, t, s)
    BY <1>5 DEF Solves
  <1>7. Solves(Solution(t, s), t, s)
    BY <1>6 DEF Solution
  <1> QED BY <1>2, <1>7

(* Resolve says what the resolution of a path is.                           *)
LEMMA ResolvedIs ==
  ASSUME NEW t \in FileSystem
  PROVE  \A s \in Resolution : Resolved(t)[s] = Resolve(t, Resolved(t), s)
  <1> DEFINE h == [z \in Resolution |-> Solution(t, z)[z]]
             IsResult(f) == f = [s \in Resolution |-> Resolve(t, f, s)]
  <1>1. \A s \in Resolution : Solution(t, s)[s] = Resolve(t, h, s)
    BY SolutionExists, SolutionBuilt
  <1>2. h = [s \in Resolution |-> Solution(t, s)[s]]
    OBVIOUS
  <1> HIDE DEF h
  <1>3. IsResult(h)
    BY <1>1, <1>2
  <1>4. Resolved(t) = CHOOSE f : IsResult(f)
    BY DEF Resolved
  <1> HIDE DEF IsResult
  <1>5. IsResult(Resolved(t))
    BY <1>3, <1>4
  <1> QED BY <1>5 DEF IsResult

(* The cases of Resolve.                                                    *)
ResolutionStep(t, s) ==
  LET c == Head(s.path)
      rest == Tail(s.path)
      x == t[s.dir][c]
      F == Resolved(t)
  IN /\ c \in Component
     /\ c \in Name => x \in Node \cup {NoNode}
     /\ c = "." => F[s] = F[At(s.dir, rest, s.links)]
     /\ c = ".." => F[s] = F[At(IF s.dir = Root THEN Root ELSE Parent(t, s.dir), rest, s.links)]
     /\ c \in Name /\ x = NoNode => F[s] = "ENOENT"
     /\ c \in Name /\ x \in Dir => F[s] = F[At(x, rest, s.links)]
     /\ c \in Name /\ x \in File => F[s] = IF rest = <<>> THEN x ELSE "ENOTDIR"
     /\ c \in Name /\ x \in Link =>
          F[s] = IF s.links = MaxSymlinks THEN "ELOOP"
                 ELSE F[At(IF Target[x].abs THEN Root ELSE s.dir, Target[x].path \o rest, s.links + 1)]

(* What a resolution finds, case by case: the result at a path depends on   *)
(* the first component and on the result at the rest.                       *)
LEMMA ResolvedCases ==
  ASSUME NEW t \in FileSystem, NEW s \in Resolution
  PROVE  /\ s.path = <<>> => Resolved(t)[s] = s.dir
         /\ s.path # <<>> => ResolutionStep(t, s)
  <1> DEFINE c == Head(s.path)
             rest == Tail(s.path)
             x == t[s.dir][c]
  <1> DEFINE F == Resolved(t)
  <1>0. F[s] = Resolve(t, F, s)
    BY ResolvedIs
  <1> HIDE DEF F
  <1>1. s.path = <<>> => F[s] = s.dir
    BY <1>0 DEF Resolve
  <1>2. s.path # <<>> => c \in Component /\ s.dir \in Dir
    BY StepsAreShorter, ResolutionParts
  <1>3. s.path # <<>> /\ c \in Name => x \in Node \cup {NoNode} /\ c # "." /\ c # ".."
    BY <1>2, WalkConstants DEF FileSystem
  <1>4. s.path # <<>> /\ c = "." => F[s] = F[At(s.dir, rest, s.links)]
    BY Zenon, <1>0, WalkConstants DEF Resolve
  <1>5. s.path # <<>> /\ c = ".." =>
          F[s] = F[At(IF s.dir = Root THEN Root ELSE Parent(t, s.dir), rest, s.links)]
    BY Zenon, <1>0, WalkConstants DEF Resolve
  <1>6. s.path # <<>> /\ c \in Name /\ x = NoNode => F[s] = "ENOENT"
    BY <1>0, <1>3, WalkConstants DEF Resolve, Node
  <1>7. s.path # <<>> /\ c \in Name /\ x \in Dir => F[s] = F[At(x, rest, s.links)]
    BY Zenon, <1>0, <1>3, WalkConstants DEF Resolve, Node
  <1>8. s.path # <<>> /\ c \in Name /\ x \in File => F[s] = IF rest = <<>> THEN x ELSE "ENOTDIR"
    BY Zenon, <1>0, <1>3, WalkConstants DEF Resolve, Node
  <1>9. s.path # <<>> /\ c \in Name /\ x \in Link =>
          F[s] = IF s.links = MaxSymlinks THEN "ELOOP"
                 ELSE F[At(IF Target[x].abs THEN Root ELSE s.dir, Target[x].path \o rest, s.links + 1)]
    BY Zenon, <1>0, <1>3, WalkConstants DEF Resolve, Node
  <1> QED BY Zenon, <1>1, <1>2, <1>3, <1>4, <1>5, <1>6, <1>7, <1>8, <1>9 DEF F, ResolutionStep

-----------------------------------------------------------------------------
(* ".." leads from an entry to its directory.                               *)
LEMMA ParentOfEntry ==
  ASSUME NEW t, TreeOK(t), NEW p \in Dir, NEW x \in Dir, x \in Entries(t, p)
  PROVE  Parent(t, x) = p
  <1>1. Parent(t, x) \in Dir /\ x \in Entries(t, Parent(t, x))
    BY DEF Parent
  <1>2. PICK n \in Name : t[p][n] = x
    BY DEF Entries
  <1>3. PICK m \in Name : t[Parent(t, x)][m] = x
    BY <1>1 DEF Entries
  <1> QED BY <1>1, <1>2, <1>3 DEF TreeOK, OnePlace

(* From below the root, ".." does not lead out of it.                       *)
LEMMA ParentBelow ==
  ASSUME NEW t, TreeOK(t), NEW x \in Below(t, Root), x \in Dir, x # Root
  PROVE  Parent(t, x) \in Below(t, Root)
  <1> SUFFICES ASSUME Parent(t, x) \notin Below(t, Root) PROVE FALSE
    OBVIOUS
  <1> DEFINE S == Below(t, Root) \ {x}
  <1>0. t \in FileSystem /\ Root \in Dir
    BY WalkConstants DEF TreeOK
  <1>1. Root \in S
    BY <1>0, BelowClosed
  <1>2. \A y \in S \cap Dir : Entries(t, y) \subseteq S
    BY <1>0, BelowClosed, ParentOfEntry
  <1> HIDE DEF S
  <1>3. Below(t, Root) \subseteq S
    BY <1>0, <1>1, <1>2, BelowLeast
  <1> QED BY <1>3 DEF S

(* What openat2() finds is below the root, and no link.                     *)
LEMMA ResolvedBelow ==
  ASSUME NEW t, TreeOK(t), NEW s0 \in Resolution, s0.dir \in Below(t, Root),
         Resolved(t)[s0] \in Node
  PROVE  Resolved(t)[s0] \in Below(t, Root) \ Link
  <1> DEFINE Bad(s) == /\ s.dir \in Below(t, Root) /\ Resolved(t)[s] \in Node
                       /\ Resolved(t)[s] \notin Below(t, Root) \ Link
             T == {s \in Resolution : Bad(s)}
  <1> SUFFICES ASSUME T # {} PROVE FALSE
    OBVIOUS
  <1>0. t \in FileSystem /\ Root \in Dir /\ Root \in Below(t, Root)
    BY WalkConstants, BelowClosed DEF TreeOK
  <1>1. PICK s \in T : \A r \in T : ~Shorter(r, s)
    <2>1. T \subseteq Resolution
      OBVIOUS
    <2> HIDE DEF T
    <2> QED BY <2>1, ShortestOf
  <1>2. s \in Resolution /\ Bad(s) /\ s.dir \in Dir
    BY ResolutionParts
  <1>3. \A r \in Resolution : Shorter(r, s) /\ r.dir \in Below(t, Root) => Resolved(t)[r] # Resolved(t)[s]
    BY <1>1
  <1> HIDE DEF T
  <1> DEFINE c == Head(s.path)
             rest == Tail(s.path)
             x == t[s.dir][c]
  <1>4. CASE s.path = <<>>
    BY <1>0, <1>2, <1>4, ResolvedCases, WalkConstants
  <1>5. CASE s.path # <<>>
    <2>0. ResolutionStep(t, s)
      BY <1>0, <1>2, <1>5, ResolvedCases
    <2>1. ASSUME NEW d \in Dir, d \in Below(t, Root)
          PROVE  Resolved(t)[At(d, rest, s.links)] # Resolved(t)[s]
      <3>1. At(d, rest, s.links) \in Resolution /\ Shorter(At(d, rest, s.links), s)
        BY <1>2, <1>5, StepsAreShorter
      <3>2. At(d, rest, s.links).dir = d
        BY DEF At
      <3> QED BY <1>3, <2>1, <3>1, <3>2
    <2>2. ASSUME NEW d \in Dir, d \in Below(t, Root), NEW y \in Link, s.links # MaxSymlinks
          PROVE  Resolved(t)[At(d, Target[y].path \o rest, s.links + 1)] # Resolved(t)[s]
      <3> DEFINE r == At(d, Target[y].path \o rest, s.links + 1)
      <3>1. r \in Resolution /\ Shorter(r, s)
        BY <1>2, <1>5, <2>2, StepsAreShorter
      <3>2. r.dir = d
        BY DEF At
      <3> HIDE DEF r
      <3>3. Resolved(t)[r] # Resolved(t)[s]
        BY <1>3, <2>2, <3>1, <3>2
      <3> QED BY <3>3 DEF r
    <2>3. c \in Name => x \in Node \cup {NoNode} /\ (x \in Node => x \in Below(t, Root))
      <3>1. c \in Name => x \in Node \cup {NoNode}
        BY Zenon, <2>0 DEF ResolutionStep
      <3>2. c \in Name /\ x # NoNode => x \in Entries(t, s.dir)
        BY DEF Entries
      <3> QED BY <1>0, <1>2, <3>1, <3>2, BelowClosed, WalkConstants
    <2>4. IF s.dir = Root THEN TRUE ELSE Parent(t, s.dir) \in Below(t, Root) /\ Parent(t, s.dir) \in Dir
      BY <1>0, <1>2, ParentBelow, ParentIsDir
    <2> HIDE DEF Bad
    <2>5. c # "."
      <3>1. c = "." => Resolved(t)[s] = Resolved(t)[At(s.dir, rest, s.links)]
        BY Zenon, <2>0 DEF ResolutionStep
      <3> QED BY <1>2, <2>1, <3>1 DEF Bad
    <2>6. c # ".."
      <3> DEFINE up == IF s.dir = Root THEN Root ELSE Parent(t, s.dir)
      <3>1. c = ".." => Resolved(t)[s] = Resolved(t)[At(up, rest, s.links)]
        BY Zenon, <2>0 DEF ResolutionStep
      <3>2. up \in Dir /\ up \in Below(t, Root)
        BY <1>0, <2>4
      <3> HIDE DEF up
      <3> QED BY <2>1, <3>1, <3>2
    <2>7. c \in Name
      BY Zenon, <2>0, <2>5, <2>6 DEF ResolutionStep, Component
    <2>8. CASE x \in Dir
      <3>1. Resolved(t)[s] = Resolved(t)[At(x, rest, s.links)]
        BY Zenon, <2>0, <2>7, <2>8 DEF ResolutionStep
      <3> QED BY <2>1, <2>3, <2>7, <2>8, <3>1 DEF Node
    <2>9. CASE x \in File
      <3>1. Resolved(t)[s] \in {x, "ENOTDIR"}
        BY Zenon, <2>0, <2>7, <2>9 DEF ResolutionStep
      <3>2. x \in Below(t, Root) \ Link /\ "ENOTDIR" \notin Node
        BY <2>3, <2>7, <2>9, WalkConstants DEF Node, Errno
      <3> QED BY <1>2, <3>1, <3>2 DEF Bad
    <2>10. CASE x \in Link
      <3>1. CASE s.links = MaxSymlinks
        <4>1. Resolved(t)[s] = "ELOOP"
          BY <2>0, <2>7, <2>10, <3>1 DEF ResolutionStep
        <4> QED BY <1>2, <4>1, WalkConstants DEF Errno, Bad
      <3>2. CASE s.links # MaxSymlinks
        <4> DEFINE d == IF Target[x].abs THEN Root ELSE s.dir
        <4>1. Resolved(t)[s] = Resolved(t)[At(d, Target[x].path \o rest, s.links + 1)]
          BY Zenon, <2>0, <2>7, <2>10, <3>2 DEF ResolutionStep
        <4>2. d \in Dir /\ d \in Below(t, Root)
          BY <1>0, <1>2 DEF Bad
        <4> HIDE DEF d
        <4> QED BY Zenon, <2>2, <2>10, <3>2, <4>1, <4>2
      <3> QED BY <3>1, <3>2
    <2>11. CASE x = NoNode
      <3>1. Resolved(t)[s] = "ENOENT"
        BY <2>0, <2>7, <2>11 DEF ResolutionStep
      <3> QED BY <1>2, <3>1, WalkConstants DEF Errno, Bad
    <2> QED BY <2>3, <2>7, <2>8, <2>9, <2>10, <2>11 DEF Node
  <1> QED BY <1>4, <1>5

-----------------------------------------------------------------------------
(* The invariant of the walk.                                               *)
WalkTypes ==
  /\ walk = [pc |-> walk.pc, path |-> walk.path, pending |-> walk.pending, dirs |-> walk.dirs,
             symlink_count |-> walk.symlink_count, component |-> walk.component,
             result |-> walk.result, by |-> walk.by]
  /\ walk.pc \in {"idle", "openat2", "dup", "walk", "reopen", "returned"}
  /\ walk.path \in Seq(Component) /\ walk.pending \in Seq(Component) /\ walk.dirs \in Seq(Dir)
  /\ walk.symlink_count \in 0..MaxSymlinks
  /\ renames = [now |-> renames.now, begin |-> renames.begin]
  /\ renames.now \in Nat /\ renames.begin \in Nat /\ renames.begin <= renames.now

(* visible has what is below the root, and what is in its directories.      *)
VisibleOK ==
  /\ Below(tree, Root) \subseteq visible
  /\ \A d \in visible \cap Dir : Entries(tree, d) \subseteq visible

(* The pinned directories begin with the root.                              *)
Pinned ==
  /\ walk.pc = "openat2" => walk.by = "kernel"
  /\ walk.pc \in {"openat2", "dup"} => walk.symlink_count = 0
  /\ walk.pc \in {"walk", "reopen"} =>
       /\ walk.dirs # <<>> /\ walk.dirs[1] = Root
       /\ \A i \in 1..Len(walk.dirs) : walk.dirs[i] \in visible
  /\ walk.pc = "reopen" => /\ walk.pending # <<>> /\ Tail(walk.pending) = <<>>
                           /\ Head(walk.pending) = walk.component /\ walk.component \in Name

(* Without a rename, they lead from the root to where the walk is, and what *)
(* is left of the path leads from there to where the whole path does.       *)
Following ==
  (walk.pc \in {"walk", "reopen"} /\ renames.now = renames.begin) =>
    /\ \A i \in 1..Len(walk.dirs) : walk.dirs[i] \in Below(tree, Root)
    /\ \A i \in 1..(Len(walk.dirs) - 1) : walk.dirs[i + 1] \in Entries(tree, walk.dirs[i])
    /\ InRoot(tree, walk.path) = Resolved(tree)[At(Top, walk.pending, walk.symlink_count)]
    /\ walk.pc = "reopen" => tree[Top][walk.component] \in Dir \cup File

WalkInv ==
  /\ WalkTypes /\ TreeOK(tree) /\ VisibleOK /\ Pinned /\ Following /\ WalkExact /\ StaysInRoot

(* The descriptors of the walk.                                             *)
WalkFds ==
  IF walk.pc \in {"openat2", "dup"} THEN 1
  ELSE IF walk.pc \in {"walk", "reopen"} THEN 1 + Len(walk.dirs)
  ELSE IF walk.pc = "returned" THEN Opened(walk.result) ELSE 0

(* The open of a path.                                                      *)
LEMMA OpenInv ==
  ASSUME WalkInv, NEW path \in Seq(Component), gu_open_pid_root_path(path),
         NEW other \in Int, fds = other + WalkFds
  PROVE  WalkInv' /\ fds' = other + WalkFds'
  <1>0. /\ WalkTypes /\ TreeOK(tree) /\ tree \in FileSystem /\ Root \in Dir
        /\ tree' = tree /\ walk.pc = "idle" /\ visible' = Below(tree, Root)
        /\ renames'.now = renames.now /\ renames'.begin = renames.now
        /\ renames' = [now |-> renames.now, begin |-> renames.now]
    BY Zenon, WalkConstants DEF WalkInv, WalkTypes, TreeOK, gu_open_pid_root_path
  <1>1. \/ /\ walk' = [NoWalk EXCEPT !.pc = "openat2", !.path = path]
           /\ fds' = fds + 1
        \/ /\ walk' = [NoWalk EXCEPT !.pc = "returned", !.path = path, !.result = "ESRCH"]
           /\ fds' = fds
    BY DEF gu_open_pid_root_path
  <1>2. /\ walk' = [pc |-> walk'.pc, path |-> walk'.path, pending |-> walk'.pending,
                    dirs |-> walk'.dirs, symlink_count |-> walk'.symlink_count,
                    component |-> walk'.component, result |-> walk'.result, by |-> walk'.by]
        /\ walk'.path = path /\ walk'.pending = <<>> /\ walk'.dirs = <<>>
        /\ walk'.symlink_count = 0 /\ walk'.by = "kernel"
        /\ walk'.pc \in {"openat2", "returned"}
        /\ walk'.pc = "returned" => walk'.result = "ESRCH" /\ fds' = fds
        /\ walk'.pc = "openat2" => fds' = fds + 1
    BY Zenon, <1>1 DEF NoWalk
  <1>3. WalkTypes'
    BY <1>0, <1>2, WalkConstants DEF WalkTypes
  <1>4. VisibleOK'
    BY <1>0, BelowClosed DEF VisibleOK
  <1>5. Pinned' /\ Following'
    BY <1>2 DEF Pinned, Following
  <1>6. "ESRCH" \notin Node
    BY WalkConstants DEF Errno
  <1>7. WalkExact' /\ StaysInRoot'
    BY <1>2, <1>6 DEF WalkExact, StaysInRoot
  <1>8. fds' = other + WalkFds'
    BY <1>0, <1>2, <1>6 DEF WalkFds, Opened
  <1> QED BY <1>0, <1>3, <1>4, <1>5, <1>7, <1>8 DEF WalkInv

(* The kernel resolves the path, or does not know openat2().                *)
LEMMA Openat2Inv ==
  ASSUME WalkInv, NEW has \in BOOLEAN, gu_openat2_in_root(has),
         NEW other \in Int, fds = other + WalkFds
  PROVE  WalkInv' /\ fds' = other + WalkFds'
  <1>0. /\ WalkTypes /\ TreeOK(tree) /\ tree \in FileSystem /\ Root \in Dir /\ VisibleOK
        /\ UNCHANGED <<tree, renames, visible>> /\ walk.pc = "openat2"
        /\ walk.by = "kernel" /\ walk.symlink_count = 0 /\ fds = other + 1
    BY WalkConstants DEF WalkInv, TreeOK, gu_openat2_in_root, Pinned, WalkFds
  <1>1. VisibleOK'
    BY <1>0 DEF VisibleOK
  <1>2. CASE walk' = [walk EXCEPT !.pc = "dup", !.by = "compat"] /\ fds' = fds
    <2>1. /\ WalkTypes' /\ walk'.pc = "dup" /\ walk'.symlink_count = 0
      BY Zenon, <1>0, <1>2 DEF WalkTypes
    <2> QED BY <1>0, <1>1, <1>2, <2>1
            DEF WalkInv, Pinned, Following, WalkExact, StaysInRoot, WalkFds
  <1>3. ASSUME NEW r, r \in {InRoot(tree, walk.path), "EAGAIN"}, walk' = Returned(walk, r),
               fds' = fds - 1 + Opened(r)
        PROVE  WalkInv' /\ fds' = other + WalkFds'
    <2>1. WalkTypes' /\ walk'.pc = "returned" /\ walk'.by = "kernel" /\ walk'.result = r
      BY Zenon, <1>0, <1>3 DEF WalkTypes, Returned
    <2>2. r \in Node => r \in Below(tree, Root) \ Link
      <3>1. CASE r = "EAGAIN"
        BY <3>1, WalkConstants DEF Errno
      <3>2. CASE r = InRoot(tree, walk.path)
        <4> DEFINE s == At(Root, walk.path, 0)
        <4>1. s \in Resolution /\ s.dir = Root
          BY <1>0, WalkConstants DEF WalkTypes, At, Resolution
        <4>2. Root \in Below(tree, Root)
          BY <1>0, BelowClosed
        <4> HIDE DEF s
        <4>3. r = Resolved(tree)[s]
          BY <3>2 DEF InRoot, s
        <4> QED BY <1>0, <4>1, <4>2, <4>3, ResolvedBelow
      <3> QED BY <1>3, <3>1, <3>2
    <2>3. StaysInRoot'
      BY <1>0, <2>1, <2>2 DEF StaysInRoot, VisibleOK
    <2>4. Opened(r) \in Int
      BY DEF Opened
    <2>5. fds' = other + WalkFds'
      BY <1>0, <1>3, <2>1, <2>4 DEF WalkFds, Opened
    <2> QED BY <1>0, <1>1, <2>1, <2>3, <2>5 DEF WalkInv, Pinned, Following, WalkExact
  <1> QED BY <1>2, <1>3 DEF gu_openat2_in_root

(* The compat walk begins with the root.                                    *)
LEMMA CompatBeginInv ==
  ASSUME WalkInv, CompatBegin, NEW other \in Int, fds = other + WalkFds
  PROVE  WalkInv' /\ fds' = other + WalkFds'
  <1>0. /\ WalkTypes /\ TreeOK(tree) /\ tree \in FileSystem /\ Root \in Dir /\ VisibleOK
        /\ UNCHANGED <<tree, renames, visible>> /\ walk.pc = "dup"
        /\ walk.symlink_count = 0 /\ fds = other + 1
    BY WalkConstants DEF WalkInv, TreeOK, CompatBegin, Pinned, WalkFds
  <1>1. VisibleOK'
    BY <1>0 DEF VisibleOK
  <1>2. CASE /\ walk' = [walk EXCEPT !.pc = "walk", !.pending = walk.path, !.dirs = <<Root>>]
             /\ fds' = fds + 1
    <2>1. /\ walk'.pc = "walk" /\ walk'.pending = walk.path /\ walk'.path = walk.path
          /\ walk'.dirs = <<Root>> /\ walk'.symlink_count = 0
      BY <1>0, <1>2 DEF WalkTypes
    <2>2. WalkTypes'
      <3>1. <<Root>> \in Seq(Dir)
        BY <1>0
      <3> QED BY Zenon, <1>0, <1>2, <2>1, <3>1 DEF WalkTypes
    <2>3. Root \in Below(tree, Root) /\ Root \in visible
      BY <1>0, BelowClosed DEF VisibleOK
    <2>4. Pinned'
      BY <1>0, <2>1, <2>3 DEF Pinned
    <2>5. Top' = Root
      BY <2>1 DEF Top
    <2>6. Following'
      BY <1>0, <2>1, <2>3, <2>5 DEF Following, InRoot
    <2> QED BY <1>0, <1>1, <1>2, <2>1, <2>2, <2>4, <2>6 DEF WalkInv, WalkExact, StaysInRoot, WalkFds
  <1>3. CASE walk' = Returned(walk, "EMFILE") /\ fds' = fds - 1
    <2>1. WalkTypes' /\ walk'.pc = "returned" /\ walk'.result = "EMFILE"
      BY Zenon, <1>0, <1>3 DEF WalkTypes, Returned
    <2>2. "EMFILE" \notin Node
      BY WalkConstants DEF Errno
    <2> QED BY <1>0, <1>1, <1>3, <2>1, <2>2
            DEF WalkInv, Pinned, Following, WalkExact, StaysInRoot, WalkFds, Opened
  <1> QED BY <1>2, <1>3 DEF CompatBegin

(* The walk in progress: where it is and what is next.                      *)
LEMMA WalkParts ==
  ASSUME WalkInv, walk.pc \in {"walk", "reopen"}
  PROVE  /\ WalkTypes /\ TreeOK(tree) /\ tree \in FileSystem /\ Root \in Dir /\ VisibleOK
         /\ Len(walk.dirs) \in Nat /\ Len(walk.dirs) >= 1 /\ walk.dirs \in Seq(Dir)
         /\ Top \in Dir /\ Top \in visible /\ walk.dirs[1] = Root
         /\ \A i \in 1..Len(walk.dirs) : walk.dirs[i] \in visible
         /\ At(Top, walk.pending, walk.symlink_count) \in Resolution
  <1>1. /\ WalkTypes /\ TreeOK(tree) /\ tree \in FileSystem /\ Root \in Dir /\ VisibleOK
        /\ walk.dirs \in Seq(Dir) /\ walk.dirs # <<>> /\ walk.dirs[1] = Root
        /\ \A i \in 1..Len(walk.dirs) : walk.dirs[i] \in visible
    BY WalkConstants DEF WalkInv, WalkTypes, TreeOK, Pinned
  <1>2. Len(walk.dirs) \in Nat /\ Len(walk.dirs) >= 1 /\ Len(walk.dirs) \in 1..Len(walk.dirs)
    BY <1>1
  <1>3. Top \in Dir /\ Top \in visible
    BY <1>1, <1>2 DEF Top
  <1> QED BY <1>1, <1>2, <1>3 DEF WalkTypes, At, Resolution

(* The walk returns r.                                                      *)
LEMMA StopInv ==
  ASSUME WalkInv, walk.pc \in {"walk", "reopen"}, UNCHANGED <<tree, renames, visible>>,
         NEW r, Stop(r), r \in Node => r \in visible \ Link,
         (renames.now = renames.begin /\ r \notin {"EMFILE", "ENAMETOOLONG"})
           => r = InRoot(tree, walk.path),
         NEW other \in Int, fds = other + WalkFds
  PROVE  WalkInv' /\ fds' = other + WalkFds'
  <1>1. /\ WalkTypes' /\ walk'.pc = "returned" /\ walk'.result = r /\ walk'.path = walk.path
        /\ fds' = fds - Len(walk.dirs) - 1 + Opened(r)
    BY Zenon, WalkParts DEF WalkTypes, Stop, Returned
  <1>2. VisibleOK' /\ TreeOK(tree)'
    BY WalkParts DEF VisibleOK
  <1>3. WalkExact' /\ StaysInRoot'
    BY <1>1 DEF WalkExact, StaysInRoot
  <1>4. fds' = other + WalkFds'
    <2>1. Opened(r) \in Int /\ Len(walk.dirs) \in Int
      BY WalkParts DEF Opened
    <2>2. WalkFds = 1 + Len(walk.dirs)
      BY DEF WalkFds
    <2>3. WalkFds' = Opened(r)
      BY Zenon, <1>1 DEF WalkFds, Opened
    <2> QED BY <1>1, <2>1, <2>2, <2>3
  <1> QED BY <1>1, <1>2, <1>3, <1>4 DEF WalkInv, Pinned, Following

(* The walk goes on.                                                        *)
LEMMA GoOn ==
  ASSUME WalkInv, walk.pc = "walk", UNCHANGED <<tree, renames, visible>>,
         walk'.pc = "walk", WalkTypes', walk'.path = walk.path,
         walk'.dirs # <<>>, walk'.dirs[1] = Root,
         \A i \in 1..Len(walk'.dirs) : walk'.dirs[i] \in visible,
         renames.now = renames.begin =>
           /\ \A i \in 1..Len(walk'.dirs) : walk'.dirs[i] \in Below(tree, Root)
           /\ \A i \in 1..(Len(walk'.dirs) - 1) : walk'.dirs[i + 1] \in Entries(tree, walk'.dirs[i])
           /\ Resolved(tree)[At(Top, walk.pending, walk.symlink_count)]
                = Resolved(tree)[At(Top', walk'.pending, walk'.symlink_count)]
  PROVE  WalkInv'
  <1>1. VisibleOK' /\ TreeOK(tree)'
    BY WalkParts DEF VisibleOK
  <1>2. Following'
    BY DEF WalkInv, Following, InRoot
  <1> QED BY Zenon, <1>1, <1>2 DEF WalkInv, Pinned, WalkExact, StaysInRoot

(* The walk that runs out of components opens where it stands.              *)
LEMMA WalkEndInv ==
  ASSUME WalkInv, WalkEnd, NEW other \in Int, fds = other + WalkFds
  PROVE  WalkInv' /\ fds' = other + WalkFds'
  <1>0. /\ walk.pc = "walk" /\ walk.pending = <<>> /\ Stop(Top) /\ UNCHANGED <<tree, renames, visible>>
    BY DEF WalkEnd
  <1> DEFINE s == At(Top, walk.pending, walk.symlink_count)
  <1>1. s.path = <<>> /\ s.dir = Top
    BY <1>0 DEF At
  <1>2. Resolved(tree)[s] = Top
    <2> HIDE DEF s
    <2>1. s \in Resolution /\ tree \in FileSystem
      BY <1>0, WalkParts DEF s
    <2> QED BY <1>1, <2>1, ResolvedCases
  <1>3. renames.now = renames.begin => Top = InRoot(tree, walk.path)
    BY <1>0, <1>2 DEF WalkInv, Following
  <1>4. Top \in visible \ Link
    BY <1>0, WalkParts, WalkConstants
  <1> HIDE DEF s
  <1> QED BY <1>0, <1>3, <1>4, StopInv

(* The last component is opened by name once more: the node it names now,   *)
(* or the error of a name that vanished or became a link.                   *)
LEMMA WalkReopenInv ==
  ASSUME WalkInv, WalkReopen, NEW other \in Int, fds = other + WalkFds
  PROVE  WalkInv' /\ fds' = other + WalkFds'
  <1> DEFINE x == tree[Top][walk.component]
             r == IF x = NoNode THEN "ENOENT" ELSE IF x \in Link THEN "ELOOP" ELSE x
             s == At(Top, walk.pending, walk.symlink_count)
  <1>0. /\ walk.pc = "reopen" /\ Stop(r) /\ UNCHANGED <<tree, renames, visible>>
        /\ walk.component \in Name /\ walk.pending # <<>> /\ Tail(walk.pending) = <<>>
        /\ Head(walk.pending) = walk.component /\ Top \in Dir /\ tree \in FileSystem
    BY Zenon, WalkParts DEF WalkReopen, WalkInv, Pinned
  <1>1. x \in Node \cup {NoNode} /\ (x # NoNode => x \in visible)
    <2>1. x \in Node \cup {NoNode}
      BY <1>0 DEF FileSystem
    <2>2. x # NoNode => x \in Entries(tree, Top)
      BY <1>0 DEF Entries
    <2> QED BY <1>0, <2>1, <2>2, WalkParts DEF VisibleOK
  <1>2. r \in Node => r \in visible \ Link
    BY <1>1, WalkConstants DEF Errno
  <1>3. ASSUME renames.now = renames.begin PROVE r = InRoot(tree, walk.path)
    <2>1. x \in Dir \cup File /\ InRoot(tree, walk.path) = Resolved(tree)[s]
      BY <1>0, <1>3 DEF WalkInv, Following
    <2>2. r = x
      BY <2>1, WalkConstants DEF Node
    <2>3. s \in Resolution /\ s.dir = Top /\ s.path = walk.pending /\ s.links = walk.symlink_count
      BY <1>0, WalkParts DEF At
    <2> HIDE DEF s
    <2>4. ResolutionStep(tree, s)
      BY <1>0, <2>3, ResolvedCases
    <2>5. CASE x \in File
      BY Zenon, <1>0, <2>1, <2>2, <2>3, <2>4, <2>5 DEF ResolutionStep
    <2>6. CASE x \in Dir
      <3> DEFINE u == At(x, Tail(s.path), s.links)
      <3>1. u \in Resolution
        BY <1>0, <2>3, <2>6, StepsAreShorter
      <3>2. u.dir = x /\ u.path = <<>>
        BY Zenon, <1>0, <2>3 DEF At
      <3>3. Resolved(tree)[s] = Resolved(tree)[u]
        BY Zenon, <1>0, <2>3, <2>4, <2>6 DEF ResolutionStep
      <3> HIDE DEF u
      <3>4. Resolved(tree)[u] = x
        BY <1>0, <3>1, <3>2, ResolvedCases
      <3> QED BY <2>1, <2>2, <3>3, <3>4
    <2> QED BY <2>1, <2>5, <2>6
  <1> HIDE DEF r, s, x
  <1> QED BY Zenon, <1>0, <1>2, <1>3, StopInv

(* "." and "..".                                                            *)
LEMMA WalkDotsInv ==
  ASSUME WalkInv, WalkDots, NEW other \in Int, fds = other + WalkFds
  PROVE  WalkInv' /\ fds' = other + WalkFds'
  <1> DEFINE s == At(Top, walk.pending, walk.symlink_count)
             c == Head(walk.pending)
             n == Len(walk.dirs)
  <1>0. /\ walk.pc = "walk" /\ walk.pending # <<>> /\ c \in {".", ".."}
        /\ UNCHANGED <<tree, renames, visible>> /\ n \in Nat /\ n >= 1
        /\ walk.pending \in Seq(Component) /\ Tail(walk.pending) \in Seq(Component)
        /\ walk.dirs \in Seq(Dir) /\ tree \in FileSystem /\ Top \in Dir
    BY WalkParts DEF WalkDots, WalkTypes
  <1>1. s \in Resolution /\ s.dir = Top /\ s.path = walk.pending /\ s.links = walk.symlink_count
    BY <1>0, WalkParts DEF At
  <1> HIDE DEF s
  <1>2. ResolutionStep(tree, s)
    BY <1>0, <1>1, ResolvedCases
  <1>3. renames.now = renames.begin =>
          /\ \A i \in 1..n : walk.dirs[i] \in Below(tree, Root)
          /\ \A i \in 1..(n - 1) : walk.dirs[i + 1] \in Entries(tree, walk.dirs[i])
    BY <1>0 DEF WalkInv, Following
  <1>4. CASE c = ".." /\ n > 1
    <2> DEFINE dirs == Popped(walk.dirs)
    <2>1. /\ walk' = [walk EXCEPT !.pending = Tail(@), !.dirs = Popped(@)] /\ fds' = fds - 1
      BY <1>4 DEF WalkDots
    <2>2. dirs \in Seq(Dir) /\ Len(dirs) = n - 1 /\ \A i \in 1..(n - 1) : dirs[i] = walk.dirs[i]
      BY <1>0, <1>4 DEF Popped
    <2> HIDE DEF dirs
    <2>3. /\ walk'.pc = "walk" /\ walk'.pending = Tail(walk.pending) /\ walk'.dirs = dirs
          /\ walk'.symlink_count = walk.symlink_count /\ walk'.path = walk.path
      BY <1>0, <2>1, WalkParts DEF WalkTypes, dirs
    <2>4. WalkTypes'
      BY Zenon, <1>0, <2>1, <2>2, <2>3, WalkParts DEF WalkTypes, dirs
    <2>5. Top' = walk.dirs[n - 1] /\ n - 1 \in 1..n /\ Top = walk.dirs[n]
      BY <1>0, <1>4, <2>2, <2>3 DEF Top
    <2>6. ASSUME renames.now = renames.begin
          PROVE  Resolved(tree)[s] = Resolved(tree)[At(Top', walk'.pending, walk'.symlink_count)]
      <3>1. Top \in Entries(tree, walk.dirs[n - 1]) /\ walk.dirs[n - 1] \in Below(tree, Root)
        BY <1>0, <1>3, <1>4, <2>5, <2>6
      <3>2. walk.dirs[n - 1] \in Dir
        BY <1>0, <2>5
      <3>3. Top # Root
        BY <1>0, <3>1, <3>2, WalkParts DEF TreeOK, RootOutside
      <3>4. Parent(tree, Top) = walk.dirs[n - 1]
        BY Zenon, <1>0, <3>1, <3>2, WalkParts, ParentOfEntry
      <3> QED BY Zenon, <1>0, <1>1, <1>2, <1>4, <2>3, <2>5, <3>3, <3>4 DEF ResolutionStep
    <2>7. walk'.dirs # <<>> /\ walk'.dirs[1] = Root
      BY <1>0, <1>4, <2>2, <2>3, WalkParts
    <2>8. WalkInv'
      <3>0. \A i \in 1..n : walk.dirs[i] \in visible
        BY <1>0, WalkParts
      <3> HIDE DEF n
      <3>1. ASSUME NEW i \in 1..Len(walk'.dirs) PROVE walk'.dirs[i] \in visible
        <4>1. i \in 1..(n - 1) /\ i \in 1..n
          BY <1>0, <2>2, <2>3
        <4> QED BY <2>2, <2>3, <3>0, <4>1
      <3>2. renames.now = renames.begin =>
              /\ \A i \in 1..Len(walk'.dirs) : walk'.dirs[i] \in Below(tree, Root)
              /\ \A i \in 1..(Len(walk'.dirs) - 1) : walk'.dirs[i + 1] \in Entries(tree, walk'.dirs[i])
        <4> SUFFICES ASSUME renames.now = renames.begin
                     PROVE  /\ \A i \in 1..(n - 1) : dirs[i] \in Below(tree, Root)
                            /\ \A i \in 1..(n - 2) : dirs[i + 1] \in Entries(tree, dirs[i])
          BY <1>0, <2>2, <2>3
        <4>1. ASSUME NEW i \in 1..(n - 1) PROVE dirs[i] \in Below(tree, Root)
          <5>1. i \in 1..n
            BY <1>0
          <5> QED BY <1>3, <2>2, <5>1
        <4>2. ASSUME NEW i \in 1..(n - 2) PROVE dirs[i + 1] \in Entries(tree, dirs[i])
          <5>1. i \in 1..(n - 1) /\ i + 1 \in 1..(n - 1)
            BY <1>0
          <5> QED BY Zenon, <1>3, <2>2, <5>1
        <4> QED BY <4>1, <4>2
      <3>3. renames.now = renames.begin =>
              Resolved(tree)[At(Top, walk.pending, walk.symlink_count)]
                = Resolved(tree)[At(Top', walk'.pending, walk'.symlink_count)]
        BY <2>6 DEF s
      <3> QED BY <1>0, <2>3, <2>4, <2>7, <3>1, <3>2, <3>3, GoOn
    <2>9. fds' = other + WalkFds'
      <3>1. WalkFds = 1 + n /\ WalkFds' = 1 + (n - 1)
        BY <1>0, <2>2, <2>3 DEF WalkFds
      <3> QED BY <1>0, <2>1, <3>1
    <2> QED BY <2>8, <2>9
  <1>5. CASE ~(c = ".." /\ n > 1)
    <2>1. walk' = [walk EXCEPT !.pending = Tail(@)] /\ fds' = fds
      BY <1>5 DEF WalkDots
    <2>2. /\ walk'.pc = "walk" /\ walk'.pending = Tail(walk.pending) /\ walk'.dirs = walk.dirs
          /\ walk'.symlink_count = walk.symlink_count /\ walk'.path = walk.path
      BY <1>0, <2>1, WalkParts DEF WalkTypes
    <2>3. WalkTypes'
      BY Zenon, <1>0, <2>1, <2>2, WalkParts DEF WalkTypes
    <2>4. Top' = Top
      BY <2>2 DEF Top
    <2>5. Resolved(tree)[s] = Resolved(tree)[At(Top, Tail(walk.pending), walk.symlink_count)]
      <3>1. CASE c = "."
        BY ZenonT(30), <1>1, <1>2, <3>1 DEF ResolutionStep
      <3>2. CASE c = ".."
        <4>1. Top = Root
          BY <1>0, <1>5, <3>2, WalkParts DEF Top
        <4> QED BY Zenon, <1>1, <1>2, <3>2, <4>1 DEF ResolutionStep
      <3> QED BY Zenon, <1>0, <3>1, <3>2
    <2>6. WalkInv'
      <3>1. /\ walk'.dirs # <<>> /\ walk'.dirs[1] = Root
            /\ \A i \in 1..Len(walk'.dirs) : walk'.dirs[i] \in visible
        BY <1>0, <2>2, WalkParts
      <3>2. renames.now = renames.begin =>
              /\ \A i \in 1..Len(walk'.dirs) : walk'.dirs[i] \in Below(tree, Root)
              /\ \A i \in 1..(Len(walk'.dirs) - 1) : walk'.dirs[i + 1] \in Entries(tree, walk'.dirs[i])
        BY <1>3, <2>2
      <3>3. Resolved(tree)[At(Top, walk.pending, walk.symlink_count)]
              = Resolved(tree)[At(Top', walk'.pending, walk'.symlink_count)]
        BY <2>2, <2>4, <2>5 DEF s
      <3> QED BY <1>0, <2>2, <2>3, <3>1, <3>2, <3>3, GoOn
    <2>7. fds' = other + WalkFds'
      <3>1. WalkFds' = WalkFds
        BY <1>0, <2>2 DEF WalkFds
      <3> QED BY <2>1, <3>1
    <2> QED BY <2>6, <2>7
  <1> QED BY <1>4, <1>5

(* A link is followed.                                                      *)
LEMMA FollowLinkInv ==
  ASSUME WalkInv, walk.pc = "walk", walk.pending # <<>>, Head(walk.pending) \in Name,
         NEW x \in Link, x = tree[Top][Head(walk.pending)],
         FollowLink(x, Tail(walk.pending)), UNCHANGED <<tree, renames, visible>>,
         NEW other \in Int, fds = other + WalkFds
  PROVE  WalkInv' /\ fds' = other + WalkFds'
  <1> DEFINE s == At(Top, walk.pending, walk.symlink_count)
             rest == Tail(walk.pending)
             n == Len(walk.dirs)
             d == IF Target[x].abs THEN Root ELSE Top
             dirs == IF Target[x].abs THEN <<Root>> ELSE walk.dirs
  <1>0. /\ n \in Nat /\ n >= 1 /\ tree \in FileSystem /\ walk.dirs \in Seq(Dir) /\ Root \in Dir
        /\ walk.pending \in Seq(Component) /\ rest \in Seq(Component) /\ fds = other + (1 + n)
        /\ Target[x].path \in Seq(Component) /\ Target[x].path \o rest \in Seq(Component)
    BY WalkParts, WalkConstants DEF WalkTypes, WalkFds
  <1>1. s \in Resolution /\ s.dir = Top /\ s.path = walk.pending /\ s.links = walk.symlink_count
    BY WalkParts DEF At
  <1> HIDE DEF s, n
  <1>2. ResolutionStep(tree, s)
    BY Zenon, <1>0, <1>1, ResolvedCases
  <1>3. renames.now = renames.begin => InRoot(tree, walk.path) = Resolved(tree)[s]
    BY DEF WalkInv, Following, s
  <1>4. CASE walk.symlink_count = MaxSymlinks
    <2>1. Stop("ELOOP")
      BY <1>4 DEF FollowLink
    <2>2. "ELOOP" \notin Node
      BY Zenon, WalkConstants DEF Errno
    <2>3. Resolved(tree)[s] = "ELOOP"
      BY <1>1, <1>2, <1>4 DEF ResolutionStep
    <2> QED BY <1>3, <2>1, <2>2, <2>3, StopInv
  <1>5. CASE walk.symlink_count # MaxSymlinks
    <2>1. /\ walk' = [walk EXCEPT !.symlink_count = @ + 1, !.pending = Target[x].path \o rest,
                                  !.dirs = dirs]
          /\ fds' = IF Target[x].abs THEN fds - (n - 1) ELSE fds
      BY Zenon, <1>5 DEF FollowLink, n
    <2>2. /\ dirs \in Seq(Dir) /\ Len(dirs) = (IF Target[x].abs THEN 1 ELSE n)
          /\ dirs[Len(dirs)] = d /\ dirs[1] = Root /\ dirs # <<>>
          /\ \A i \in 1..Len(dirs) : dirs[i] \in visible
      <3>1. CASE Target[x].abs
        <4>1. dirs = <<Root>>
          BY Zenon, <3>1
        <4>2. Root \in visible
          BY <1>0, WalkParts, BelowClosed DEF VisibleOK
        <4> HIDE DEF dirs
        <4> QED BY <1>0, <3>1, <4>1, <4>2
      <3>2. CASE ~Target[x].abs
        <4>1. dirs = walk.dirs /\ d = Top
          BY Zenon, <3>2
        <4> HIDE DEF dirs, d
        <4>2. walk.dirs[1] = Root /\ Top = walk.dirs[n] /\ \A i \in 1..n : walk.dirs[i] \in visible
          BY WalkParts DEF Top, n
        <4>3. Len(walk.dirs) = n /\ walk.dirs # <<>>
          BY <1>0 DEF n
        <4> QED BY Zenon, <1>0, <3>2, <4>1, <4>2, <4>3
      <3> QED BY Zenon, <3>1, <3>2
    <2>3. renames.now = renames.begin =>
            /\ \A i \in 1..Len(dirs) : dirs[i] \in Below(tree, Root)
            /\ \A i \in 1..(Len(dirs) - 1) : dirs[i + 1] \in Entries(tree, dirs[i])
      <3>1. CASE Target[x].abs
        <4>1. dirs = <<Root>>
          BY <3>1
        <4>2. Root \in Below(tree, Root)
          BY Zenon, <1>0, BelowClosed
        <4> HIDE DEF dirs
        <4> QED BY <4>1, <4>2
      <3>2. CASE ~Target[x].abs
        BY <3>2 DEF WalkInv, Following
      <3> QED BY Zenon, <3>1, <3>2
    <2> HIDE DEF dirs, d
    <2>4. walk.symlink_count + 1 \in 0..MaxSymlinks
      BY <1>5, WalkParts, WalkConstants DEF WalkTypes
    <2>5. /\ walk'.pc = "walk" /\ walk'.pending = Target[x].path \o rest /\ walk'.dirs = dirs
          /\ walk'.symlink_count = walk.symlink_count + 1 /\ walk'.path = walk.path
      BY Zenon, <2>1, WalkParts DEF WalkTypes
    <2>6. WalkTypes'
      BY Zenon, <1>0, <2>1, <2>2, <2>4, <2>5, WalkParts DEF WalkTypes
    <2>7. Top' = d
      BY Zenon, <2>2, <2>5 DEF Top
    <2>8. Resolved(tree)[s] = Resolved(tree)[At(d, Target[x].path \o rest, walk.symlink_count + 1)]
      BY Zenon, <1>1, <1>2, <1>5 DEF ResolutionStep, d
    <2>9. WalkInv'
      <3>1. Resolved(tree)[At(Top, walk.pending, walk.symlink_count)]
              = Resolved(tree)[At(Top', walk'.pending, walk'.symlink_count)]
        BY Zenon, <2>5, <2>7, <2>8 DEF s
      <3> QED BY Zenon, <2>2, <2>3, <2>5, <2>6, <3>1, GoOn
    <2>10. fds' = other + WalkFds'
      <3>1. WalkFds' = 1 + Len(dirs)
        BY ZenonT(30), <2>5 DEF WalkFds
      <3>2. CASE Target[x].abs
        BY <1>0, <2>1, <2>2, <3>1, <3>2
      <3>3. CASE ~Target[x].abs
        BY <1>0, <2>1, <2>2, <3>1, <3>3
      <3> QED BY <3>2, <3>3
    <2> QED BY <2>9, <2>10
  <1> QED BY <1>4, <1>5

(* A component is looked up in the innermost pinned directory.              *)
LEMMA WalkComponentInv ==
  ASSUME WalkInv, WalkComponent, NEW other \in Int, fds = other + WalkFds
  PROVE  WalkInv' /\ fds' = other + WalkFds'
  <1> DEFINE s == At(Top, walk.pending, walk.symlink_count)
             c == Head(walk.pending)
             rest == Tail(walk.pending)
             x == tree[Top][c]
             n == Len(walk.dirs)
  <1>0. /\ walk.pc = "walk" /\ walk.pending # <<>> /\ c \in Name
        /\ UNCHANGED <<tree, renames, visible>> /\ n \in Nat /\ n >= 1 /\ fds = other + (1 + n)
        /\ walk.pending \in Seq(Component) /\ rest \in Seq(Component)
        /\ walk.dirs \in Seq(Dir) /\ tree \in FileSystem /\ Top \in Dir
    BY WalkParts DEF WalkComponent, WalkTypes, WalkFds
  <1>1. s \in Resolution /\ s.dir = Top /\ s.path = walk.pending /\ s.links = walk.symlink_count
    BY <1>0, WalkParts DEF At
  <1> HIDE DEF s
  <1>2. ResolutionStep(tree, s)
    BY Zenon, <1>0, <1>1, ResolvedCases
  <1>3. renames.now = renames.begin =>
          /\ InRoot(tree, walk.path) = Resolved(tree)[s]
          /\ \A i \in 1..n : walk.dirs[i] \in Below(tree, Root)
          /\ \A i \in 1..(n - 1) : walk.dirs[i + 1] \in Entries(tree, walk.dirs[i])
    BY Zenon, <1>0 DEF WalkInv, Following, s
  <1>4. x \in Node \cup {NoNode} /\ (x # NoNode => x \in Entries(tree, Top) /\ x \in visible)
    <2>1. x \in Node \cup {NoNode}
      BY <1>0 DEF FileSystem
    <2>2. x # NoNode => x \in Entries(tree, Top)
      BY <1>0 DEF Entries
    <2> QED BY <1>0, <2>1, <2>2, WalkParts DEF VisibleOK
  <1>5. {"ENOENT", "ENOTDIR", "ENAMETOOLONG"} \cap Node = {}
    BY WalkConstants DEF Errno
  <1>6. CASE x = NoNode
    <2>1. Stop("ENOENT")
      BY Zenon, <1>6, WalkConstants DEF WalkComponent, Node
    <2>2. Resolved(tree)[s] = "ENOENT"
      BY Zenon, <1>0, <1>1, <1>2, <1>6 DEF ResolutionStep
    <2> QED BY <1>0, <1>3, <1>5, <2>1, <2>2, StopInv
  <1>7. CASE x \in Link
    <2>1. FollowLink(x, rest)
      BY Zenon, <1>7, WalkConstants DEF WalkComponent, Node
    <2> QED BY <1>0, <1>7, <2>1, FollowLinkInv
  <1>8. CASE x \in Dir \cup File /\ rest = <<>>
    <2>1. walk' = [walk EXCEPT !.pc = "reopen", !.component = c] /\ fds' = fds
      BY Zenon, <1>8, WalkConstants DEF WalkComponent, Node
    <2>2. /\ walk'.pc = "reopen" /\ walk'.component = c /\ walk'.dirs = walk.dirs
          /\ walk'.pending = walk.pending /\ walk'.path = walk.path /\ walk'.by = walk.by
          /\ walk'.symlink_count = walk.symlink_count
      BY <2>1, <1>0, WalkParts DEF WalkTypes
    <2>3. WalkTypes'
      BY Zenon, <1>0, <2>1, <2>2, WalkParts DEF WalkTypes
    <2>4. Top' = Top /\ WalkFds' = WalkFds
      BY <1>0, <2>2 DEF Top, WalkFds
    <2>5. VisibleOK' /\ TreeOK(tree)'
      BY Zenon, <1>0, WalkParts DEF VisibleOK
    <2>6. Pinned'
      BY Zenon, <1>0, <1>8, <2>2 DEF WalkInv, Pinned
    <2>7. Following'
      BY <1>0, <1>3, <1>8, <2>2, <2>4 DEF Following, s
    <2> QED BY <2>1, <2>2, <2>3, <2>4, <2>5, <2>6, <2>7 DEF WalkInv, WalkExact, StaysInRoot
  <1>9. CASE x \in File /\ rest # <<>>
    <2>1. Stop("ENOTDIR")
      BY Zenon, <1>9, WalkConstants DEF WalkComponent, Node
    <2>2. Resolved(tree)[s] = "ENOTDIR"
      BY Zenon, <1>0, <1>1, <1>2, <1>9 DEF ResolutionStep
    <2> QED BY <1>0, <1>3, <1>5, <2>1, <2>2, StopInv
  <1>10. CASE x \in Dir /\ rest # <<>>
    <2>1. IF n = MaxComponents THEN Stop("ENAMETOOLONG")
          ELSE /\ walk' = [walk EXCEPT !.pending = rest, !.dirs = Append(@, x)]
               /\ fds' = fds + 1
      BY Zenon, <1>10, WalkConstants DEF WalkComponent, Node
    <2>2. CASE n = MaxComponents
      BY <1>0, <1>5, <2>1, <2>2, StopInv
    <2>3. CASE n # MaxComponents
      <3> DEFINE dirs == Append(walk.dirs, x)
      <3>1. walk' = [walk EXCEPT !.pending = rest, !.dirs = dirs] /\ fds' = fds + 1
        BY <2>1, <2>3, <1>0, WalkParts DEF WalkTypes
      <3>2. /\ dirs \in Seq(Dir) /\ Len(dirs) = n + 1 /\ dirs[n + 1] = x /\ dirs # <<>>
            /\ \A i \in 1..n : dirs[i] = walk.dirs[i]
        BY <1>0, <1>10
      <3> HIDE DEF dirs
      <3>3. /\ walk'.pc = "walk" /\ walk'.pending = rest /\ walk'.dirs = dirs
            /\ walk'.symlink_count = walk.symlink_count /\ walk'.path = walk.path
        BY <1>0, <3>1, WalkParts DEF WalkTypes
      <3>4. WalkTypes'
        BY Zenon, <1>0, <3>1, <3>2, <3>3, WalkParts DEF WalkTypes
      <3>5. Top' = x /\ Top = walk.dirs[n]
        BY <1>0, <3>2, <3>3 DEF Top
      <3>6. dirs[1] = Root /\ \A i \in 1..Len(dirs) : dirs[i] \in visible
        <4>1. x # NoNode
          BY Zenon, <1>10, WalkConstants DEF Node
        <4>2. ASSUME NEW i \in 1..Len(dirs) PROVE dirs[i] \in visible
          <5>1. i \in 1..n \/ i = n + 1
            BY <1>0, <3>2
          <5> QED BY Zenon, <1>0, <1>4, <3>2, <4>1, <5>1, WalkParts
        <4> QED BY <1>0, <3>2, <4>2, WalkParts
      <3>7. ASSUME renames.now = renames.begin
            PROVE  /\ \A i \in 1..Len(dirs) : dirs[i] \in Below(tree, Root)
                   /\ \A i \in 1..(Len(dirs) - 1) : dirs[i + 1] \in Entries(tree, dirs[i])
        <4>1. x \in Entries(tree, Top) /\ Top \in Below(tree, Root) /\ Root \in Dir
          <5>1. n \in 1..n
            BY <1>0
          <5>2. x # NoNode
            BY Zenon, <1>10, WalkConstants DEF Node
          <5> QED BY Zenon, <1>3, <1>4, <3>5, <3>7, <5>1, <5>2, WalkConstants
        <4>2. x \in Below(tree, Root)
          BY <1>0, <4>1, BelowClosed
        <4>3. ASSUME NEW i \in 1..Len(dirs) PROVE dirs[i] \in Below(tree, Root)
          <5>1. i \in 1..n \/ i = n + 1
            BY <1>0, <3>2
          <5> QED BY <1>3, <3>2, <3>7, <4>2, <5>1
        <4>4. ASSUME NEW i \in 1..(Len(dirs) - 1) PROVE dirs[i + 1] \in Entries(tree, dirs[i])
          <5>1. i \in 1..n /\ (i \in 1..(n - 1) \/ i = n)
            BY <1>0, <3>2
          <5>2. CASE i = n
            BY <3>2, <3>5, <4>1, <5>1, <5>2
          <5>3. CASE i \in 1..(n - 1)
            <6>1. i + 1 \in 1..n
              BY <1>0, <5>3
            <6> QED BY <1>3, <3>2, <3>7, <5>1, <5>3, <6>1
          <5> QED BY <5>1, <5>2, <5>3
        <4> QED BY <4>3, <4>4
      <3>8. Resolved(tree)[At(Top, walk.pending, walk.symlink_count)]
              = Resolved(tree)[At(Top', walk'.pending, walk'.symlink_count)]
        BY ZenonT(30), <1>0, <1>1, <1>2, <1>10, <3>3, <3>5 DEF ResolutionStep, s
      <3>9. WalkInv'
        BY <1>0, <3>2, <3>3, <3>4, <3>6, <3>7, <3>8, GoOn
      <3>10. fds' = other + WalkFds'
        <4>1. WalkFds' = 1 + Len(dirs)
          BY <3>3 DEF WalkFds
        <4> QED BY <1>0, <3>1, <3>2, <4>1
      <3> QED BY <3>9, <3>10
    <2> QED BY <2>2, <2>3
  <1> QED BY Zenon, <1>4, <1>6, <1>7, <1>8, <1>9, <1>10 DEF Node

(* The compat walk keeps the invariant, and counts its descriptors.         *)
LEMMA CompatInv ==
  ASSUME WalkInv, gu_openat2_in_root_compat, NEW other \in Int, fds = other + WalkFds
  PROVE  WalkInv' /\ fds' = other + WalkFds'
  BY CompatBeginInv, WalkEndInv, WalkDotsInv, WalkComponentInv, WalkReopenInv
     DEF gu_openat2_in_root_compat

(* What is renamed during a walk was below the root.                        *)
LEMMA RenameInv ==
  ASSUME WalkInv, Rename
  PROVE  WalkInv' /\ WalkFds' = WalkFds
  <1> DEFINE S == Below(tree, Root)
  <1>0. /\ WalkTypes /\ TreeOK(tree) /\ tree \in FileSystem /\ Root \in Dir /\ VisibleOK
        /\ walk.pc \notin {"idle", "returned"} /\ UNCHANGED walk
        /\ renames' = [renames EXCEPT !.now = @ + 1]
        /\ visible' = visible \cup Below(tree', Root)
    BY WalkConstants DEF WalkInv, TreeOK, Rename
  <1>1. PICK d \in S \cap Dir, e \in Dir, n \in Name, m \in Name :
          /\ tree[d][n] # NoNode /\ <<d, n>> # <<e, m>>
          /\ tree' = [[tree EXCEPT ![e][m] = tree[d][n]] EXCEPT ![d][n] = NoNode]
    BY ZenonT(30) DEF Rename
  <1> DEFINE x == tree[d][n]
  <1>2. x \in Node /\ x \in Entries(tree, d) /\ x \in S
    <2>1. x \in Node
      BY <1>0, <1>1 DEF FileSystem
    <2>2. x \in Entries(tree, d)
      BY <1>1 DEF Entries
    <2> QED BY <1>0, <2>1, <2>2, BelowClosed
  <1>3. tree' \in FileSystem
    BY Zenon, <1>0, <1>1, <1>2 DEF FileSystem
  <1>4. \A p \in Dir, k \in Name :
          tree'[p][k] = IF p = d /\ k = n THEN NoNode ELSE IF p = e /\ k = m THEN x ELSE tree[p][k]
    BY <1>0, <1>1 DEF FileSystem
  <1> HIDE DEF x, S
  <1>5. ASSUME NEW y \in Dir PROVE Entries(tree', y) \subseteq Entries(tree, y) \cup {x}
    BY <1>4 DEF Entries
  <1>6. Below(tree', Root) \subseteq S
    <2>1. Root \in S /\ \A y \in S \cap Dir : Entries(tree, y) \subseteq S
      BY <1>0, BelowClosed DEF S
    <2>2. \A y \in S \cap Dir : Entries(tree', y) \subseteq S
      BY <1>2, <1>5, <2>1
    <2> QED BY <1>0, <1>3, <2>1, <2>2, BelowLeast
  <1>7. NoNode \notin Dir
    BY WalkConstants DEF Node
  <1>8. OnePlace(tree')
    <2> SUFFICES ASSUME NEW z \in Dir, NEW p \in Dir, NEW q \in Dir, NEW k \in Name, NEW l \in Name,
                        tree'[p][k] = z, tree'[q][l] = z
                 PROVE  p = q /\ k = l
      BY DEF OnePlace
    <2>1. /\ ~(p = d /\ k = n) /\ ~(q = d /\ l = n)
          /\ IF p = e /\ k = m THEN z = x ELSE z = tree[p][k]
          /\ IF q = e /\ l = m THEN z = x ELSE z = tree[q][l]
      BY <1>4, <1>7
    <2>2. \A p1, q1 \in Dir, k1, l1 \in Name :
            tree[p1][k1] = z /\ tree[q1][l1] = z => p1 = q1 /\ k1 = l1
      BY <1>0 DEF TreeOK, OnePlace
    <2>3. tree[d][n] = x /\ d \in Dir
      BY <1>1 DEF x
    <2> QED BY <2>1, <2>2, <2>3
  <1>9. RootOutside(tree')
    <2> SUFFICES ASSUME NEW y \in S \cap Dir PROVE Root \notin Entries(tree', y)
      BY <1>6 DEF RootOutside
    <2>1. Root \notin Entries(tree, y) /\ Root \notin Entries(tree, d)
      BY <1>0, <1>1 DEF TreeOK, RootOutside, S
    <2> QED BY <1>2, <1>5, <2>1
  <1>10. VisibleOK'
    <2>1. visible' = visible
      BY <1>0, <1>6 DEF VisibleOK, S
    <2> QED BY <1>0, <1>2, <1>5, <1>6, <2>1 DEF VisibleOK, S
  <1>11. WalkTypes' /\ renames'.now # renames'.begin
    BY <1>0 DEF WalkTypes
  <1>12. Pinned'
    BY <1>0 DEF WalkInv, Pinned
  <1> QED BY <1>0, <1>3, <1>8, <1>9, <1>10, <1>11, <1>12
          DEF WalkInv, TreeOK, Following, WalkExact, StaysInRoot, WalkFds

(* The caller has taken the result.                                         *)
LEMMA WalkTaken ==
  ASSUME WalkInv, walk' = NoWalk, UNCHANGED <<tree, renames, visible>>
  PROVE  WalkInv' /\ WalkFds' = 0
  <1>1. /\ WalkTypes /\ TreeOK(tree) /\ VisibleOK
    BY Zenon DEF WalkInv
  <1>2. WalkTypes' /\ walk'.pc = "idle"
    BY <1>1, WalkConstants DEF WalkTypes, NoWalk
  <1>3. VisibleOK'
    BY Zenon, <1>1 DEF VisibleOK
  <1> QED BY Zenon, <1>1, <1>2, <1>3 DEF WalkInv, Pinned, Following, WalkExact, StaysInRoot, WalkFds

(* Nothing is opened yet.                                                   *)
LEMMA WalkInitInv ==
  ASSUME TreeOK(tree), WalkInit
  PROVE  WalkInv /\ WalkFds = 0 /\ fds = 0
  <1>1. tree \in FileSystem /\ Root \in Dir
    BY Zenon, WalkConstants DEF TreeOK
  <1>2. WalkTypes /\ walk.pc = "idle" /\ fds = 0
    BY WalkConstants DEF WalkTypes, NoWalk, WalkInit
  <1>3. VisibleOK
    BY Zenon, <1>1, BelowClosed DEF VisibleOK, WalkInit
  <1> QED BY <1>2, <1>3 DEF WalkInv, Pinned, Following, WalkExact, StaysInRoot, WalkFds

(* A step that leaves the walk alone.                                       *)
LEMMA WalkAlone ==
  ASSUME WalkInv, UNCHANGED <<tree, renames, visible, walk>>
  PROVE  WalkInv' /\ WalkFds' = WalkFds
  <1>1. tree' = tree /\ renames' = renames /\ visible' = visible /\ walk' = walk
    BY Zenon
  <1>2. Top' = Top /\ WalkFds' = WalkFds
    BY Zenon, <1>1 DEF Top, WalkFds
  <1>3. TreeOK(tree)' /\ VisibleOK'
    BY Zenon, <1>1 DEF WalkInv, TreeOK, OnePlace, RootOutside, VisibleOK
  <1>4. WalkTypes'
    BY Zenon, <1>1 DEF WalkInv, WalkTypes
  <1>5. Pinned' /\ Following'
    BY Zenon, <1>1, <1>2 DEF WalkInv, Pinned, Following
  <1>6. WalkExact' /\ StaysInRoot'
    BY Zenon, <1>1 DEF WalkInv, WalkExact, StaysInRoot
  <1> QED BY Zenon, <1>2, <1>3, <1>4, <1>5, <1>6 DEF WalkInv
=============================================================================
