------------------------------- MODULE GitRepo -------------------------------
(***************************************************************************)
(* What git does to one working copy, for every program that commits: the  *)
(* worktree, the index and the commit checked out are maps from paths to   *)
(* contents; what a content is, each program says.                         *)
(***************************************************************************)
Fresh(files) == [tree |-> files, index |-> files, head |-> files]

Taken(from, into, paths) == [p \in DOMAIN into |-> IF p \in paths THEN from[p] ELSE into[p]]

\* Write a file; git checkout -- paths; git add -- paths; git commit; git reset --hard.
Written(r, path, content) == [r EXCEPT !.tree[path] = content]
Restored(r, paths)        == [r EXCEPT !.tree = Taken(r.index, r.tree, paths)]
Staged(r, paths)          == [r EXCEPT !.index = Taken(r.tree, r.index, paths)]
Committed(r)              == [r EXCEPT !.head = r.index]
Reset(r)                  == [r EXCEPT !.tree = r.head, !.index = r.head]
=============================================================================
