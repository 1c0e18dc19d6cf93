------------------------------ MODULE MCOperations ------------------------------
(* Two calls at a time, settings of two keys, templates of two codes of which *)
(* one has a file, two product types of two codes.                            *)
EXTENDS Operations, TLC

CONSTANTS c1, c2, c3, k1, k2, none

MCCalls == {c1, c2}
MCThree == {c1, c2, c3}
MCSettingKeys == <<k1, k2>>
MCKeys == {k1, k2}
MCFiles == {k1}
MCIds == {1, 2}
=============================================================================
