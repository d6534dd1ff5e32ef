------------------------------- MODULE MCExt2 -------------------------------
(* Instances of Ext2 for TLC. *)
EXTENDS Ext2

A == <<"a">>
B == <<"b">>
AA == <<"a", "a">>
BA == <<"b", "a">>
MCPath == {A, B, AA, BA}
MCProbe == {<<"a", "..">>, <<"b", "a", "..">>}
MCPair == {<<A, B>>, <<B, A>>, <<AA, B>>, <<B, AA>>, <<A, BA>>, <<AA, BA>>,
           <<A, <<"a", "a", "b">>>>}
MCSize == {0, 1, 4}

\* Three scenes, each with the blocks and inodes it leaves free: the calls on
\* names, the calls on the data of one file, and all calls with one device
\* error.
VARIABLE scene

Scene ==
  [names  |-> [meta |-> 1 .. MaxBlk - 5, reserved |-> {}, errors |-> 0],
   data   |-> [meta |-> 1 .. MaxBlk - 7, reserved |-> {}, errors |-> 0],
   errors |-> [meta |-> 1 .. MaxBlk - 4, reserved |-> {3}, errors |-> 1]]
MCDisks == {Scene[x] : x \in DOMAIN Scene}

MCInit == scene \in DOMAIN Scene /\ fs = Fresh(Scene[scene])

MCNext ==
  /\ Undamaged /\ UNCHANGED scene
  /\ \/ /\ scene = "names"
        /\ \/ LookUp(Path \cup Probe) \/ WriteFile(Path, {1}) \/ MkDir(Path) \/ RmDir(Path)
           \/ Unlink(Path) \/ Move(Pair) \/ Link({<<A, B>>, <<AA, B>>, <<B, AA>>})
     \/ /\ scene = "data"
        /\ WriteFile({A}, Size) \/ WriteAt({A}, Size) \/ Truncate({A}, Size) \/ Unlink({A})
     \/ /\ scene = "errors"
        /\ \/ LookUp({A}) \/ WriteFile({AA}, {1}) \/ WriteAt({AA}, {1}) \/ Truncate({AA}, {0})
           \/ MkDir({A, B}) \/ RmDir({A, B}) \/ Unlink({B, AA}) \/ Symlink({B})
           \/ Move({<<A, B>>, <<AA, B>>, <<B, AA>>}) \/ Link({<<AA, B>>})

MCSpec == MCInit /\ [][MCNext]_<<fs, scene>>

\* The last scene alone.
ErrorSpec == (scene = "errors" /\ fs = Fresh(Scene[scene])) /\ [][MCNext]_<<fs, scene>>
=============================================================================
