------------------------------ MODULE MCZipJobs ------------------------------
(* Small instances of ZipJobs: a folder d1 with a subfolder d2.            *)
EXTENDS ZipJobs, TLC

CONSTANTS d1

MCBelow == [d \in Folder |-> IF d = d1 THEN Folder ELSE {d}]

(* Files of the same size, so that the fingerprint can confuse them.        *)
MCSize == [f \in File |-> 1]

Symmetric == Permutations(File) \cup Permutations(Job) \cup Permutations(Worker)
                 \cup Permutations(Client)
=============================================================================
