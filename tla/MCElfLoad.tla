------------------------------ MODULE MCElfLoad ------------------------------
(* Small processes for ElfLoad: files, symbol tables, maps and trees.       *)
EXTENDS ElfLoad

Dirs == {"host", "root", "d", "e"}
Files == {"exe", "lib", "dbg", "old", "go", "twin", "bad", "raw", "vdso", "part", "jit"}
Links == {"rel", "abs", "loop"}
Names == {"a", "b", "a x"}
Spaces == "a x" :> "a"
Targets == "rel" :> [abs |-> FALSE, path |-> <<"..", "b">>]
             @@ "abs" :> [abs |-> TRUE, path |-> <<"a", ".", "b">>]
             @@ "loop" :> [abs |-> FALSE, path |-> <<"a">>]
Standard == {"id-exe", "id-lib", "id-old"}

-----------------------------------------------------------------------------
Sym(name, value, size, type) ==
  [name |-> name, value |-> value, size |-> size, type |-> type, exec |-> type # "object"]

(* A function, one without a size, markers, a label, an object.             *)
FullTable ==
  <<Sym("$x", 4, 0, "notype"), Sym("main", 4, 3, "func"), Sym("data", 5, 2, "object"),
    Sym("init", 7, 0, "func"), Sym("label", 9, 0, "notype"), Sym("$d", 6, 0, "notype"),
    Sym("", 10, 1, "func"), Sym("tail", 10, 2, "func"), Sym("none", 0, 9, "func")>>

(* Out of order, and with a function inside another.                        *)
LibTable == <<Sym("second", 12, 0, "func"), Sym("local", 6, 2, "func"), Sym("inner", 7, 1, "func"),
              Sym("first", 4, 2, "func")>>
DynTable == <<Sym("first", 4, 2, "func")>>
(* Linked above 32 bits, as some vDSOs are.                                 *)
HighTable == <<Sym("gettime", 92, 3, "func")>>

BadTable == <<Sym("first", 4, 2, "func"), Sym("second", 6, 2, "func"), Sym("invalid", 8, 2, "func")>>

Seg(vaddr, offset, memsz) ==
  [vaddr |-> vaddr, offset |-> offset, memsz |-> memsz, align |-> 4, exec |-> TRUE]
OneSeg == <<Seg(5, 5, 7)>>
TwoSegs == <<Seg(4, 4, 4), Seg(12, 8, 4)>>

Elf(scn, segs) == [elf |-> TRUE, scn |-> scn, segs |-> segs]
NoElf == [elf |-> FALSE, scn |-> <<>>, segs |-> <<>>]

Contents ==
  "exe" :> Elf([symtab |-> FullTable, gnu_build_id |-> "id-exe", eh_frame |-> TRUE], OneSeg)
  @@ "lib" :> Elf([dynsym |-> DynTable, gnu_build_id |-> "id-lib", eh_frame |-> TRUE,
                   gnu_debuglink |-> "dbg"], TwoSegs)
  @@ "twin" :> Elf([symtab |-> LibTable, gnu_build_id |-> "id-lib", eh_frame |-> TRUE], TwoSegs)
  @@ "dbg" :> Elf([symtab |-> LibTable], <<>>)
  @@ "old" :> Elf([symtab |-> DynTable, gnu_build_id |-> "id-old"], OneSeg)
  @@ "go" :> Elf([symtab |-> LibTable, go_build_id |-> "id-go"], OneSeg)
  @@ "bad" :> Elf([symtab |-> BadTable], OneSeg)
  @@ "vdso" :> Elf([dynsym |-> HighTable], <<Seg(92, 0, 4)>>)
  @@ "raw" :> NoElf @@ "part" :> NoElf @@ "jit" :> NoElf

-----------------------------------------------------------------------------
Ent(a, b) == "a" :> a @@ "b" :> b @@ "a x" :> NoNode
Tree(root, d, e) ==
  "host" :> Ent("root", "raw") @@ "root" :> root @@ "d" :> d @@ "e" :> e
Empty == Ent(NoNode, NoNode)

Line_(start, end, offset, path, file, bias) ==
  [start |-> start, end |-> end, offset |-> offset, perm |-> {"r", "x"}, path |-> path,
   deleted |-> FALSE, file |-> file, bias |-> bias]

ExeAt(file, path) == <<Line_(24, 32, 4, path, file, 20)>>
LibAt(file, path) ==
  <<Line_(44, 48, 4, path, file, 40),
    [Line_(48, 52, 0, path, file, 40) EXCEPT !.perm = {"r"}],
    Line_(52, 56, 8, path, file, 40)>>
Deleted(lines) == [i \in DOMAIN lines |-> [lines[i] EXCEPT !.deleted = TRUE]]

NoDirs == [obj |-> NoNode, dotdebug |-> NoNode, target |-> NoNode, host |-> NoNode,
           hostId |-> NoNode, targetId |-> NoNode]
NoDebugs == [f \in Files |-> NoDirs]

(* A stripped library whose debug file is found by its link, behind another *)
(* file of that name.                                                       *)
Plain ==
  [tree |-> Tree(Ent("d", NoNode), Ent("exe", "lib"), Empty),
   lines |-> LibAt("lib", <<"a", "b">>), exe |-> "lib", debug |-> FALSE, openat2 |-> TRUE,
   vdso |-> {"vdso", "part"}, go |-> "strip",
   debugs |-> [NoDebugs EXCEPT !["lib"].obj = "old", !["lib"].dotdebug = "dbg"], page |-> 4]

(* The executable and the library were deleted, and replaced.               *)
Replaced ==
  [Plain EXCEPT !.tree = Tree(Ent("d", NoNode), Ent("exe", "exe"), Empty), !.exe = "old",
                !.lines = Deleted(ExeAt("old", <<"a", "a">>) \o LibAt("lib", <<"a", "b">>)),
                !.debugs = [NoDebugs EXCEPT !["lib"].dotdebug = "old", !["lib"].host = "dbg"]]

(* The text of the executable in two pieces that are read as one.           *)
Split ==
  [Plain EXCEPT !.lines = <<Line_(24, 28, 4, <<"a", "a">>, "exe", 20),
                            [Line_(28, 32, 8, <<"a", "a">>, "exe", 20) EXCEPT !.perm = {"w", "x"}]>>,
                !.exe = "exe"]

(* The debug file of the executable is no ELF.                              *)
BadDebug ==
  [Split EXCEPT !.debugs = [NoDebugs EXCEPT !["exe"].targetId = "raw"]]

(* Two copies of one build, one of them stripped; a name with a space.      *)
Twins ==
  [Plain EXCEPT !.tree = Tree(Ent("d", NoNode), Ent("twin", "lib"), Empty),
                !.lines = <<Line_(24, 28, 4, <<"a", "b">>, "lib", 20),
                            Line_(44, 48, 8, <<"a", "a">>, "twin", 32)>>]

Spaced ==
  [Plain EXCEPT !.tree = Tree([Ent("old", NoNode) EXCEPT !["a x"] = "exe"], Empty, Empty),
                !.exe = "exe",
                !.lines = <<Line_(24, 32, 4, <<"a x">>, "exe", 20),
                            [Line_(32, 36, 4, <<"a">>, "old", 28) EXCEPT !.perm = {"x"}],
                            Line_(36, 40, 8, <<"a">>, "old", 28), Line_(40, 44, 0, <<>>, "jit", 0)>>]

Go(option) ==
  [Plain EXCEPT !.tree = Tree(Ent("go", NoNode), Empty, Empty), !.exe = "go", !.go = option,
                !.lines = ExeAt("go", <<"a">>)]

(* The files of a dump, the debug file by its build ID.                     *)
Offline ==
  [Plain EXCEPT !.debug = TRUE, !.lines = Deleted(LibAt("lib", <<"b">>)) \o ExeAt("bad", <<"a">>),
                !.debugs = [NoDebugs EXCEPT !["lib"].hostId = "dbg"]]

Vdso ==
  [Plain EXCEPT !.tree = Tree(Ent("bad", NoNode), Empty, Empty),
                !.lines = ExeAt("bad", <<"a">>) \o <<Line_(60, 64, 0, <<"[vdso]">>, "vdso", -32)>>]

(* Code in a deleted memory file, below the executable.                     *)
Jit ==
  [Plain EXCEPT !.tree = Tree(Ent("old", NoNode), Empty, Empty), !.exe = "old",
                !.lines = Deleted(<<Line_(12, 16, 4, <<"b">>, "jit", 0)>>) \o ExeAt("old", <<"a">>)]

(* Files behind links, with and without openat2().                          *)
Linked ==
  {[Plain EXCEPT !.tree = Tree(Ent(x, y), Ent(z, w), Ent("rel", "raw")),
                 !.lines = ExeAt("raw", path), !.openat2 = has] :
     x \in {"d"}, y \in {"raw", "abs"}, z \in {"e", "abs", "loop"}, w \in {"raw", "rel", "abs"},
     path \in {<<"a", "b">>, <<"a", "a", "a">>, <<"a", "a">>}, has \in BOOLEAN}

Loaded == {Plain, Replaced, Split, BadDebug, Twins, Spaced, Offline, Vdso, Jit}
            \cup {Go(o) : o \in {"strip", "keep", "only_buildid"}}

Processes == Loaded \cup Linked

JitProcess == {Jit}
=============================================================================
