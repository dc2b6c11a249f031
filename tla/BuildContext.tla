----------------------------- MODULE BuildContext -----------------------------
(***************************************************************************)
(* extractBuildContext (internal/backend/apple/client.go): the entries of  *)
(* a tar archive become files and directories below one directory.  A name *)
(* is a sequence of parts, absolute or not; a tree maps the path of a      *)
(* directory to 0 and that of a file to the number of the entry that wrote *)
(* it last.                                                                *)
(***************************************************************************)
EXTENDS Integers, Sequences

Directory == 0

(* Parts that stay in a directory.                                          *)
Here == {".", ""}

(* filepath.Clean, part by part: "." and empty parts go, and ".." goes with *)
(* the part before it; in front it stays, unless the name is absolute.      *)
CleanPart(absolute, path, part) ==
  IF part \in Here THEN path
  ELSE IF part # ".." THEN Append(path, part)
  ELSE IF path # <<>> /\ path[Len(path)] # ".." THEN SubSeq(path, 1, Len(path) - 1)
  ELSE IF absolute THEN path ELSE Append(path, part)

CleanTo(name) ==
  LET clean[n \in 0..Len(name.parts)] ==
        IF n = 0 THEN <<>> ELSE CleanPart(name.absolute, clean[n - 1], name.parts[n])
  IN clean

Clean(name) == CleanTo(name)[Len(name.parts)]

(* Mutant: only ".." itself is taken for an escape.                         *)
EscapesAlone(name) == name.absolute \/ Clean(name) = <<"..">>

Escapes(name) ==
  name.absolute \/ (Clean(name) # <<>> /\ Clean(name)[1] = "..")

Ignored(name) == ~name.absolute /\ Clean(name) = <<>>

Parents(path) == {SubSeq(path, 1, n) : n \in 1..Len(path) - 1}

IsFile(tree, path) == path \in DOMAIN tree /\ tree[path] # Directory

(* MkdirAll fails on a file in its way, and no directory opens for writing. *)
Conflict(tree, entry) ==
  LET path == Clean(entry.name) IN
  \/ \E p \in Parents(path) : IsFile(tree, p)
  \/ entry.type = "dir" /\ IsFile(tree, path)
  \/ entry.type = "file" /\ path \in DOMAIN tree /\ ~IsFile(tree, path)

Verdict(tree, entry) ==
  IF Ignored(entry.name) THEN "ignored"
  ELSE IF Escapes(entry.name) THEN "escapes"
  ELSE IF entry.type \notin {"dir", "file"} THEN "unsupported"
  ELSE IF Conflict(tree, entry) THEN "conflict"
  ELSE "placed"

(* Mutant: a file that is there already is kept.                            *)
PlacedOnce(tree, entry, number) ==
  LET path == Clean(entry.name)
      new == Parents(path) \cup {path}
  IN [p \in DOMAIN tree \cup new |->
        IF p \in DOMAIN tree THEN tree[p]
        ELSE IF p = path /\ entry.type = "file" THEN number ELSE Directory]

(* The tree after entry number `number`, with the parents it needed.        *)
Placed(tree, entry, number) ==
  LET path == Clean(entry.name)
      new == Parents(path) \cup {path}
  IN [p \in DOMAIN tree \cup new |->
        IF p = path /\ entry.type = "file" THEN number
        ELSE IF p \in DOMAIN tree THEN tree[p] ELSE Directory]
-----------------------------------------------------------------------------
(* Reference: following the parts one by one from the directory never leads *)
(* above it.                                                                *)
DepthAfter(depth, part) ==
  IF part \in Here THEN depth ELSE IF part = ".." THEN depth - 1 ELSE depth + 1

Depth(name) ==
  LET depth[n \in 0..Len(name.parts)] ==
        IF n = 0 THEN 0
        ELSE DepthAfter(depth[n - 1], name.parts[n])
  IN depth

StaysInside(name) == ~name.absolute /\ \A n \in 0..Len(name.parts) : Depth(name)[n] >= 0
===============================================================================
