------------------------------ MODULE MCNsfSct ------------------------------
(* Instance of NsfSct for TLC: job names that share a key, one whose key no *)
(* letter protects.                                                         *)
EXTENDS NsfSct, TLC

CONSTANTS i1, i2, i3, c1, c2, p1, p2

MCJobs == { [key |-> "nsfs", tail |-> "1", letters |-> TRUE],
            [key |-> "nsfs", tail |-> "2", letters |-> TRUE],
            [key |-> "0001", tail |-> "1", letters |-> FALSE] }
Symmetric == Permutations(Instances) \cup Permutations(Clients) \cup Permutations(Ascbs)
=============================================================================
