----------------------------- MODULE MCFileOps -----------------------------
(* Small instances of FileOps for TLC. *)
EXTENDS FileOps

\* Two users, one of whom has a folder with his own name.
U == <<"u">>
V == <<"v">>
Tree  == {U, V, <<"u", "a">>, <<"u", "a", "a">>, <<"u", "u">>, <<"u", "u", "a">>}
Homes == {U, V, <<"u", "u">>, <<"u", "u", "a">>}

Pic   == [stem |-> "x", ext |-> ".jpg"]
Photo == [stem |-> "y", ext |-> ".jpg"]
Song  == [stem |-> "x", ext |-> ".mp3"]
Names == {Pic, Photo, Song}
First == {[dir |-> <<"u", "u", "a">>, file |-> Pic]}

\* What the rest of a behaviour depends on: an idle request keeps nothing.
Control == <<tree, index, watcher, pc, ops, changes, mishaps,
             IF pc = "idle" THEN "none" ELSE <<op, row, from, to, todo>> >>

=============================================================================
