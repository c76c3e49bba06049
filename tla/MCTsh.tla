------------------------------- MODULE MCTsh --------------------------------
(* Small instances of Tsh for TLC.                                         *)
EXTENDS Tsh

Typist(commands, programs, keys) ==
  [commands |-> commands, programs |-> programs, keys |-> keys]

(* Three jobs named by process ID and a key; or a single job, named either *)
(* way, and two keys.                                                      *)
ManyOrLone == {Typist({"run", "bypid", "quit"}, 3, 1),
               Typist({"run", "bypid", "byjid"}, 1, 2)}

(* The users of the runs that look for a disagreement.                     *)
NamesByJid == {Typist({"run", "byjid"}, 2, 0)}
NamesByPid == {Typist({"run", "bypid"}, 1, 1)}
RunsTwo == {Typist({"run"}, 2, 0)}
=============================================================================
