-------------------------------- MODULE MCCrew --------------------------------
(* Instances of Crew for TLC. *)
EXTENDS Crew, TLC

CONSTANTS top, sub, file1, file2, file3

\* A directory with a file and a directory of two files.
Tree == {top, sub, file1, file2, file3}
TreeDirectories == {top, sub}
TreeEntries ==
    [p \in Tree |-> CASE p = top -> {sub, file1}
                      [] p = sub -> {file2, file3}
                      [] OTHER   -> {}]
===============================================================================
