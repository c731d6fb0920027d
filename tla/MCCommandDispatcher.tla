------------------------- MODULE MCCommandDispatcher -------------------------
(***************************************************************************)
(* All the commands, and codes around and between theirs: below the first, *)
(* above the last, unassigned ones, one with bits above the sixteenth, and *)
(* those of the vendor.                                                    *)
(***************************************************************************)
EXTENDS CommandDispatcher

CONSTANT MaxItems       \* the most handles and parameters of a request

CodeSet == (\h11D..\h19A) \cup {\h10144, CC_VEND, CC_VEND + 1, CC_VEND + \h144}

WireSet == [good : 0..MaxItems, tail : {"end", "bad"}, taken : {0}]
=============================================================================
