------------------------------ MODULE MCStartup ------------------------------
(* Startup on small instances.                                              *)
EXTENDS Startup

MCSkillNames == {"a", "b"}

\* Two files of one skill, a file that is broken before one that is not, and an
\* entry that is no skill file; the directory of another release; and none.
MCDirectories == {<<"a", Broken, "b", Skipped, "a">>, <<"b", "a", Broken>>, <<>>}
=============================================================================
