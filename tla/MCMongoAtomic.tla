---------------------------- MODULE MCMongoAtomic ----------------------------
(* Instances of MongoAtomic for TLC.                                       *)
EXTENDS MongoAtomic, TLC

CONSTANTS w1, w2

MCWrite == {w1, w2}

\* One robust hook and one that is not.
MCRobust == {2}

\* Documents are interchangeable.
Symmetry == Permutations(MCWrite)
=============================================================================
