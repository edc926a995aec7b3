------------------------------ MODULE MCShell -------------------------------
(* An instance of Shell for TLC.                                           *)
EXTENDS Shell

(* Files that can be opened and not, redirections in both orders and       *)
(* without a file, commands in the background, one that is not found, an   *)
(* empty line.                                                             *)
SomeLines ==
  {<<"cat">>, <<"dog", "&">>, << >>, <<"cat", "&">>, <<"cat", "&", ">", "f">>,
   <<"cat", ">", "f", "&">>, <<"cat", "<", "f", ">", "g">>, <<"cat", ">", "g", "<", "f">>,
   <<"cat", "<", "none", ">">>, <<">", "f">>, <<"pwd", ">", "f">>, <<"wait", "&">>,
   <<"wait", ">", "none">>, <<"quit", "<", "f">>}
=============================================================================
