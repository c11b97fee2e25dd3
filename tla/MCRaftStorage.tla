--------------------------- MODULE MCRaftStorage ---------------------------
(* RaftStorage for TLC. *)
EXTENDS RaftStorage

CONSTANTS s1, s2

Both == {<<"CURRENT", s1, TRUE>>, <<"CURRENT", s2, TRUE>>}
Leaving == {<<"CURRENT", s1, TRUE>>, <<"CURRENT", s2, FALSE>>, <<"PREVIOUS", s1, TRUE>>, <<"PREVIOUS", s2, TRUE>>}
Configurations == {Both, Leaving}
=============================================================================
