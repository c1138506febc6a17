---------------------------- MODULE MCUnwinding ----------------------------
\* Instances of Unwinding for TLC; the other constants are given in the .cfg
\* files.
EXTENDS Unwinding

\* Functions of up to two regions call twice, those of three once.
FramesByRegions == [n \in 0..NumRegions |-> IF n < 3 THEN 3 ELSE 2]
=============================================================================
