------------------------------- MODULE MCHpkg -------------------------------
(* Three paths, the second and the third below directories: an upgrade of  *)
(* package a that drops a file, keeps one and adds one in a new directory, *)
(* a package b that needs a and takes the path a drops, and a package that *)
(* needs b.                                                                *)
EXTENDS Hpkg

MCAbove == [x \in {1, 2, 3, 11, 12} |->
              CASE x = 2 -> {11} [] x = 3 -> {11, 12} [] x = 12 -> {11}
                [] OTHER -> {}]

Arc(n, v, f, d) == [name |-> n, version |-> v, files |-> f, depends |-> d]

MCArchives ==
  {Arc("a", 1, {1, 2}, {}), Arc("a", 2, {2, 3}, {}), Arc("b", 1, {1}, {"a"}),
   Arc("b", 2, {3}, {"c"}), Arc("c", 1, {}, {"b"})}

MCIndex == {a \in MCArchives : a.version = 2 \/ a.name = "c"}
=============================================================================
