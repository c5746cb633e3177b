---------------------------- MODULE MCAppendLoop ----------------------------
(* Instances of AppendLoop for TLC.                                        *)
EXTENDS AppendLoop
CONSTANT MaxTerm
SmallEntries == [term : 1..MaxTerm, index : 1..2 * MaxLog]
=============================================================================
