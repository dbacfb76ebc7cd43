------------------------------ MODULE PathWalk ------------------------------
(***************************************************************************)
(* Opening a file of the sampled process inside that process' root          *)
(* directory (src/gu_stacktrace.c).  gu_open_pid_root_path() asks the       *)
(* kernel to resolve the path with openat2(RESOLVE_IN_ROOT); on kernels     *)
(* without that call gu_openat2_in_root_compat() walks the path itself,     *)
(* one pinned component at a time.  Other processes rename files while it   *)
(* walks.                                                                   *)
(*                                                                          *)
(* A path is the sequence of its components: repeated and trailing slashes  *)
(* are left out.                                                            *)
(***************************************************************************)
EXTENDS Integers, Sequences

CONSTANTS
  Dir, File, Link,    \* directories, regular files and symbolic links
  NoNode,             \* no directory entry
  Root,               \* what /proc/<pid>/root refers to
  Name,               \* names of directory entries
  Target,             \* of each link: absolute or not, and its components
  MaxSymlinks,        \* GU_OPEN_IN_ROOT_MAX_SYMLINKS
  MaxComponents,      \* GU_OPEN_IN_ROOT_MAX_COMPONENTS: length of dir_fds
  MaxRenames          \* bound of the model: renames in a behaviour

Node == Dir \cup File \cup Link

Component == Name \cup {".", ".."}

(* The errors an open may return.                                           *)
Errno == {"ENOENT", "ENOTDIR", "ELOOP", "EAGAIN", "ESRCH", "EMFILE", "ENAMETOOLONG"}

ASSUME WalkConstants ==
  /\ Root \in Dir
  /\ Dir \cap File = {} /\ Dir \cap Link = {} /\ File \cap Link = {}
  /\ Node \cap ({NoNode} \cup Errno) = {}
  /\ Name \cap {".", ".."} = {}
  /\ Target \in [Link -> [abs : BOOLEAN, path : Seq(Component)]]
  /\ MaxSymlinks \in Nat /\ MaxComponents \in Nat \ {0} /\ MaxRenames \in Nat

VARIABLES
  tree,          \* the file system: the entries of every directory
  renames,       \* renames so far, and those when the walk began
  visible,       \* nodes that were below Root since the walk began
  availability,  \* gu_openat2_in_root_availability: -1 unknown, 0 no, 1 yes
  walk,          \* the locals of the open in progress
  fds            \* descriptors it has open

walkVars == <<tree, renames, visible, availability, walk, fds>>

-----------------------------------------------------------------------------
(* The file system.                                                         *)

Entries(t, d) == {t[d][n] : n \in Name} \ {NoNode}

(* The directories that every set with d and its members' directories has,  *)
(* and what is in them.                                                     *)
DirsBelow(t, d) ==
  {x \in Dir : \A S \in SUBSET Dir :
                 (d \in S /\ \A y \in S : Entries(t, y) \cap Dir \subseteq S) => x \in S}

Below(t, d) == DirsBelow(t, d) \cup UNION {Entries(t, x) : x \in DirsBelow(t, d)}

(* A file system: a directory is in one place, and the root is not below    *)
(* itself.                                                                  *)
FileSystem == [Dir -> [Name -> Node \cup {NoNode}]]

OnePlace(t) ==
  \A x \in Dir : \A p, q \in Dir : \A n, m \in Name :
    t[p][n] = x /\ t[q][m] = x => p = q /\ n = m

RootOutside(t) == \A y \in Below(t, Root) \cap Dir : Root \notin Entries(t, y)

TreeOK(t) == t \in FileSystem /\ OnePlace(t) /\ RootOutside(t)

(* Where ".." leads from a directory; the top of the host is its own parent.*)
Parent(t, d) ==
  IF \E p \in Dir : d \in Entries(t, p)
    THEN CHOOSE p \in Dir : d \in Entries(t, p)
    ELSE d

(* A resolution: the directory it is in, what is left of the path, and the  *)
(* links followed.                                                          *)
Resolution == [dir : Dir, path : Seq(Component), links : 0..MaxSymlinks]
At(d, path, links) == [dir |-> d, path |-> path, links |-> links]

(* openat2(RESOLVE_IN_ROOT): ".." stops at the root, absolute links start   *)
(* there again.  The result, where f has those of the shorter resolutions.  *)
Resolve(t, f, s) ==
  IF s.path = <<>> THEN s.dir
  ELSE LET c == Head(s.path)
           rest == Tail(s.path)
           x == t[s.dir][c]
       IN CASE c = "." -> f[At(s.dir, rest, s.links)]
            [] c = ".." -> f[At(IF s.dir = Root THEN Root ELSE Parent(t, s.dir), rest, s.links)]
            [] c \in Name /\ x = NoNode -> "ENOENT"
            [] c \in Name /\ x \in Dir -> f[At(x, rest, s.links)]
            [] c \in Name /\ x \in File -> IF rest = <<>> THEN x ELSE "ENOTDIR"
            [] c \in Name /\ x \in Link ->
                 IF s.links = MaxSymlinks THEN "ELOOP"
                 ELSE f[At(IF Target[x].abs THEN Root ELSE s.dir, Target[x].path \o rest, s.links + 1)]

Resolved(t) == LET f[s \in Resolution] == Resolve(t, f, s) IN f

InRoot(t, path) == Resolved(t)[At(Root, path, 0)]

(* Some process renames what is below the root: to another place below it,  *)
(* or out of it; what was there is gone.                                    *)
Rename ==
  /\ walk.pc \notin {"idle", "returned"} /\ renames.now < MaxRenames
  /\ \E d \in Below(tree, Root) \cap Dir, e \in Dir, n, m \in Name :
       /\ tree[d][n] # NoNode
       /\ <<d, n>> # <<e, m>>
       /\ tree[e][m] \notin Dir
       /\ tree[d][n] \in Dir => e \notin Below(tree, tree[d][n])
       /\ tree' = [[tree EXCEPT ![e][m] = tree[d][n]] EXCEPT ![d][n] = NoNode]
  /\ renames' = [renames EXCEPT !.now = @ + 1]
  /\ visible' = visible \cup Below(tree', Root)
  /\ UNCHANGED <<availability, walk, fds>>

-----------------------------------------------------------------------------
(* The open.                                                                *)

NoWalk == [pc |-> "idle", path |-> <<>>, pending |-> <<>>, dirs |-> <<>>,
           symlink_count |-> 0, component |-> ".", result |-> NoNode, by |-> "kernel"]

WalkInit ==
  /\ renames = [now |-> 0, begin |-> 0]
  /\ visible = Below(tree, Root)
  /\ availability = -1
  /\ walk = NoWalk
  /\ fds = 0

(* gu_open_pid_root_path(): the root directory is gone when the process is. *)
gu_open_pid_root_path(path) ==
  /\ walk.pc = "idle"
  /\ \/ /\ walk' = [NoWalk EXCEPT !.pc = "openat2", !.path = path]
        /\ fds' = fds + 1
     \/ /\ walk' = [NoWalk EXCEPT !.pc = "returned", !.path = path, !.result = "ESRCH"]
        /\ UNCHANGED fds
  /\ renames' = [renames EXCEPT !.begin = renames.now]
  /\ visible' = Below(tree, Root)
  /\ UNCHANGED <<tree, availability>>

(* close(root_fd) and return.                                               *)
Returned(w, result) == [w EXCEPT !.pc = "returned", !.result = result]

Opened(result) == IF result \in Node THEN 1 ELSE 0

(* gu_openat2_in_root(): the answer is remembered for the whole process.    *)
(* The kernel gives up with EAGAIN when a rename crosses a "..".            *)
gu_openat2_in_root(hasOpenat2) ==
  /\ walk.pc = "openat2"
  /\ IF availability = 0 \/ ~hasOpenat2
       THEN /\ walk' = [walk EXCEPT !.pc = "dup", !.by = "compat"]
            /\ availability' = 0
            /\ UNCHANGED fds
       ELSE \E result \in {InRoot(tree, walk.path)}
                            \cup (IF renames.now # renames.begin THEN {"EAGAIN"} ELSE {}) :
              /\ walk' = Returned(walk, result)
              /\ availability' = IF result \in Node THEN 1 ELSE availability
              /\ fds' = fds - 1 + Opened(result)
  /\ UNCHANGED <<tree, renames, visible>>

(* gu_openat2_in_root_compat(): the root is duplicated into dir_fds[0].     *)
CompatBegin ==
  /\ walk.pc = "dup"
  /\ \/ /\ walk' = [walk EXCEPT !.pc = "walk", !.pending = walk.path, !.dirs = <<Root>>]
        /\ fds' = fds + 1
     \/ /\ walk' = Returned(walk, "EMFILE")
        /\ fds' = fds - 1
  /\ UNCHANGED <<tree, renames, visible, availability>>

Top == walk.dirs[Len(walk.dirs)]

Popped(dirs) == SubSeq(dirs, 1, Len(dirs) - 1)

(* The end of the loop: dir_fds and the root are closed.                    *)
Stop(result) ==
  /\ walk' = Returned(walk, result)
  /\ fds' = fds - Len(walk.dirs) - 1 + Opened(result)

(* Nothing is left of the path: the directory itself is opened.             *)
WalkEnd ==
  /\ walk.pc = "walk" /\ walk.pending = <<>>
  /\ Stop(Top)
  /\ UNCHANGED <<tree, renames, visible, availability>>

(* Mutant: ".." is looked up in the file system.                            *)
WalkDotsByName ==
  /\ walk.pc = "walk" /\ walk.pending # <<>> /\ Head(walk.pending) \in {".", ".."}
  /\ walk' = [walk EXCEPT !.pending = Tail(@),
                          !.dirs[Len(walk.dirs)] =
                             IF Head(walk.pending) = ".." /\ @ # Root THEN Parent(tree, @) ELSE @]
  /\ UNCHANGED <<tree, renames, visible, availability, fds>>

(* "." is skipped, ".." gives up the innermost directory but never the root.*)
WalkDots ==
  /\ walk.pc = "walk" /\ walk.pending # <<>> /\ Head(walk.pending) \in {".", ".."}
  /\ IF Head(walk.pending) = ".." /\ Len(walk.dirs) > 1
       THEN /\ walk' = [walk EXCEPT !.pending = Tail(@), !.dirs = Popped(@)]
            /\ fds' = fds - 1
       ELSE /\ walk' = [walk EXCEPT !.pending = Tail(@)]
            /\ UNCHANGED fds
  /\ UNCHANGED <<tree, renames, visible, availability>>

(* Mutant: an absolute link leaves the pinned directories where they are.   *)
LinkKeepsDirs(link, rest) ==
  IF walk.symlink_count = MaxSymlinks THEN Stop("ELOOP")
  ELSE /\ walk' = [walk EXCEPT !.symlink_count = @ + 1, !.pending = Target[link].path \o rest]
       /\ UNCHANGED fds

(* Mutant: links are not counted.                                           *)
LinkUncounted(link, rest) ==
  /\ walk' = [walk EXCEPT !.pending = Target[link].path \o rest,
                          !.dirs = IF Target[link].abs THEN <<Root>> ELSE @]
  /\ fds' = IF Target[link].abs THEN fds - (Len(walk.dirs) - 1) ELSE fds

(* A link's target takes the place of its name; an absolute one starts      *)
(* again from the root.                                                     *)
FollowLink(link, rest) ==
  IF walk.symlink_count = MaxSymlinks THEN Stop("ELOOP")
  ELSE /\ walk' = [walk EXCEPT !.symlink_count = @ + 1,
                               !.pending = Target[link].path \o rest,
                               !.dirs = IF Target[link].abs THEN <<Root>> ELSE @]
       /\ fds' = IF Target[link].abs THEN fds - (Len(walk.dirs) - 1) ELSE fds

(* A component is pinned with O_PATH | O_NOFOLLOW, then inspected.          *)
WalkComponent ==
  /\ walk.pc = "walk" /\ walk.pending # <<>> /\ Head(walk.pending) \in Name
  /\ LET c == Head(walk.pending)
         rest == Tail(walk.pending)
         x == tree[Top][c]
     IN CASE x = NoNode -> Stop("ENOENT")
          [] x \in Link -> FollowLink(x, rest)
          [] x \in Dir \cup File /\ rest = <<>> ->
               walk' = [walk EXCEPT !.pc = "reopen", !.component = c] /\ UNCHANGED fds
          [] x \in File /\ rest # <<>> -> Stop("ENOTDIR")
          [] x \in Dir /\ rest # <<>> ->
               IF Len(walk.dirs) = MaxComponents THEN Stop("ENAMETOOLONG")
               ELSE /\ walk' = [walk EXCEPT !.pending = rest, !.dirs = Append(@, x)]
                    /\ fds' = fds + 1
  /\ UNCHANGED <<tree, renames, visible, availability>>

(* The last component is opened by name, O_NOFOLLOW: it may have changed    *)
(* since it was pinned.                                                     *)
WalkReopen ==
  /\ walk.pc = "reopen"
  /\ LET x == tree[Top][walk.component]
     IN Stop(IF x = NoNode THEN "ENOENT" ELSE IF x \in Link THEN "ELOOP" ELSE x)
  /\ UNCHANGED <<tree, renames, visible, availability>>

gu_openat2_in_root_compat ==
  CompatBegin \/ WalkEnd \/ WalkDots \/ WalkComponent \/ WalkReopen

-----------------------------------------------------------------------------
(* The walk finds what openat2() would have found: unless a limit stops it  *)
(* or a rename crosses it, the same node or the same error, on any tree and *)
(* through any links.                                                       *)
WalkExact ==
  (/\ walk.pc = "returned" /\ walk.by = "compat"
   /\ renames.now = renames.begin
   /\ walk.result \notin {"EMFILE", "ENAMETOOLONG"})
    => walk.result = InRoot(tree, walk.path)

(* Whatever is renamed meanwhile, the file opened is one that was below the *)
(* sampled process' root during the walk: no link and no ".." leads out.    *)
StaysInRoot ==
  (walk.pc = "returned" /\ walk.result \in Node) => walk.result \in visible \ Link
=============================================================================
