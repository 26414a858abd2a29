----------------------------- MODULE Workspace ------------------------------
(***************************************************************************)
(* The part of a file system that the verifiers of a permission review     *)
(* look at: a workspace, something outside it, and symbolic links between  *)
(* the two.  External: this is what the operating system and os.Root do.   *)
(* A path is the sequence of its names; a file is its stamp, which stands  *)
(* for its kind, size, mode and modification time, so that two files with  *)
(* one stamp are the same to everyone.                                     *)
(***************************************************************************)
EXTENDS Naturals, Sequences, SequencesExt

Absent == [is |-> "absent"]
Dir == [is |-> "dir"]
File(stamp) == [is |-> "file", stamp |-> stamp]
Link(to) == [is |-> "link", to |-> to]
Error(what) == [is |-> "error", what |-> what]

Root == <<"w">>          \* the workspace
RootLink == <<"ws">>     \* a link to it, by which the session knows it
Outside == <<"o">>

\* Where a link may lead to nothing, outside.
Nowhere == <<"o", "x">>

\* What may be at the paths that change: a directory that may be a file, missing,
\* or a link to a directory or to nothing; and two files.
D == <<"w", "d">>
DF == <<"w", "d", "f">>
G == <<"w", "g">>
Choice ==
  [p \in {D, DF, G} |->
     IF p = D THEN {Dir, Absent, File(1), Link(<<"w", "e">>), Link(Outside), Link(Nowhere)}
     ELSE IF p = DF THEN {Absent, File(1), File(2), Link(G)}
     ELSE {Absent, File(1), File(2), Link(G), Link(<<"o", "f">>), Link(Nowhere)}]

\* What is always there, and nothing else besides.
FixedDirs == {Root, Outside, <<"w", "e">>}
FixedFiles == {<<"o", "f">>, <<"w", "e", "f">>}
Fixed(path) ==
  IF path \in FixedDirs THEN Dir
  ELSE IF path \in FixedFiles THEN File(1)
  ELSE IF path = RootLink THEN Link(Root) ELSE Absent

FileSystems == {fs \in [{D, DF, G} -> UNION {Choice[p] : p \in DOMAIN Choice}] :
                  /\ \A p \in DOMAIN fs : fs[p] \in Choice[p]
                  /\ fs[D] # Dir => fs[DF] = Absent}

\* An empty workspace.
Bare == [p \in {D, DF, G} |-> Absent]

\* What changes at D takes what was below it along.
Changed(fs, p, entry) ==
  IF p = D THEN [fs EXCEPT ![D] = entry, ![DF] = Absent]
  ELSE IF p = DF /\ fs[D] # Dir THEN fs ELSE [fs EXCEPT ![p] = entry]

Entry(fs, path) == IF path \in DOMAIN fs THEN fs[path] ELSE Fixed(path)

MaxLinks == 3

Within(path) == IsPrefix(Root, path)

\* A walk along a path: what has been reached, what is left of the path and how
\* many links may still be followed.  It is over when nothing is left.
At(path, rest, links) == [is |-> "path", path |-> path, rest |-> rest, links |-> links]
Begin(path) == At(<<>>, path, MaxLinks)

\* How a walk goes on when entry is what the next name of the path stands for;
\* in a confined walk no link may lead outside.
Onward(confined, walk, entry) ==
  IF entry.is = "absent" THEN Error("absent")
  ELSE IF entry.is = "link" THEN
    IF walk.links = 0 THEN Error("loop")
    ELSE IF confined /\ ~Within(entry.to) THEN Error("escape")
    ELSE At(<<>>, entry.to \o Tail(walk.rest), walk.links - 1)
  ELSE IF entry.is = "file" /\ Tail(walk.rest) # <<>> THEN Error("not a directory")
  ELSE At(Append(walk.path, Head(walk.rest)), Tail(walk.rest), walk.links)

Step(fs, confined, walk) ==
  IF walk.is = "error" \/ walk.rest = <<>> THEN walk
  ELSE Onward(confined, walk, Entry(fs, Append(walk.path, Head(walk.rest))))

Steps(fs, confined, walk) ==
  Step(fs, confined, Step(fs, confined, Step(fs, confined, Step(fs, confined, walk))))

\* Three names, and three links that bring two names each, are twelve steps.
Walk(fs, confined, path) ==
  Steps(fs, confined, Steps(fs, confined, Steps(fs, confined, Begin(path))))

(* filepath.EvalSymlinks *)
EvalSymlinks(fs, path) == Walk(fs, FALSE, path)

(* os.Root's Stat and Lstat of a path below the root, given in full. *)
Stat(fs, path) ==
  LET found == Walk(fs, TRUE, path) IN
  IF found.is = "path" THEN Entry(fs, found.path)
  ELSE IF found.what = "absent" THEN Absent ELSE Error("unreadable")

Lstat(fs, path) ==
  LET parent == Walk(fs, TRUE, Front(path)) IN
  IF parent.is = "path"
  THEN IF Entry(fs, parent.path).is = "file" THEN Error("not a directory")
       ELSE Entry(fs, Append(parent.path, Last(path)))
  ELSE IF parent.what = "absent" THEN Absent ELSE parent

=============================================================================
