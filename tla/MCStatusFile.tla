--------------------------- MODULE MCStatusFile ---------------------------
(* Instances of StatusFile for TLC: API threads and the launcher, with the *)
(* temporary names the code gives them.                                    *)
EXTENDS StatusFile

CONSTANTS Launcher

\* _write_json of every API thread; write_status of the launcher.
TemporaryOfCode == [w \in Writers |-> IF w = Launcher THEN "run_status.tmp"
                                      ELSE "run_status.json.tmp"]
===========================================================================
