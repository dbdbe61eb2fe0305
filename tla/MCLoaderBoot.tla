---------------------------- MODULE MCLoaderBoot ----------------------------
(* Instances of LoaderBoot for TLC.                                        *)
EXTENDS LoaderBoot

(* At the low end, in the middle and at the high end of the delays, and as
   wide as the step back; too narrow; too high.                            *)
MCEyes ==
  {[from |-> 0, to |-> 3], [from |-> 2, to |-> 6], [from |-> 4, to |-> 8],
   [from |-> 1, to |-> 3], [from |-> 5, to |-> 9]}

MCBoards ==
  UNION {[chip : {c}, eyes : [LaneSet(c) -> MCEyes], uart : BOOLEAN,
          kernels : [0..(Regions - 1) -> {"bad", "stays", "returns"}]] : c \in Chips}
=============================================================================
