------------------------------ MODULE MCFiles ------------------------------
(* A writable root with a directory and a file, and a read-only mount with *)
(* a script.  The root has nothing at /bin, /dev and /proc.                *)
EXTENDS Files

SomeMounts == {<<>>, <<"work">>}
SomeReadOnly == {<<"work">>}
ATree == [m \in SomeMounts |->
             IF m = <<>> THEN <<>> :> Dir @@ <<"d">> :> Dir @@ <<"d", "a">> :> File(1)
             ELSE <<>> :> Dir @@ <<"s">> :> File(2)]
SomePrograms == {<<"bin", "sh">>}
SomeInterpreters == {<<"/", "bin", "sh">>, <<"/", "a">>}
SomePaths == {<<"/", "d">>, <<"a">>, <<"..", "a">>, <<"/", "d", "b">>, <<"/", "bin">>,
              <<"/", "bin", "sh">>, <<"/", "work", "s">>}
SomeProbes == SomePaths \cup
    {<<"/">>, <<"/", "a">>, <<"/", "d", ".", "a">>, <<"/", "a", "s">>, <<"/", "work">>, <<"/", "dev">>,
     <<"/", "proc", "self", "cwd", "a">>, <<"/", "proc", "7", "exe">>, <<"/", "dev", "stdin">>}
SomeTargets == {<<"/", "work">>, <<"a">>}
SomeHomes == {<<>>, <<"d">>}
SomeFlags == {{"directory"}, {"append", "nofollow"}, {"write", "creat", "excl"},
              {"write", "trunc"}}

(* The namespace of this instance is one ProgramsStay is about, and its    *)
(* links are ones ResolutionIsAWalk is about.                              *)
ASSUME NamespaceAssumption ==
    OrdinaryPrograms /\ NothingInTheWay(InitialTree) /\ OrderlyTargets

(* What the last call answered is looked at only in the step itself. *)
StateOnly == <<tree, len, fds, cwd, exe>>
=============================================================================
