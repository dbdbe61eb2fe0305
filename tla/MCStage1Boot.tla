---------------------------- MODULE MCStage1Boot ----------------------------
(***************************************************************************)
(* Instances of Stage1Boot for TLC.  The address space has 256 bytes in 16 *)
(* segments of 16; lines have 4 bytes and addresses are aligned to 2.  The *)
(* stack is 128..129, the RAM range 132..137, stage 1 138..139.            *)
(***************************************************************************)
EXTENDS Stage1Boot

(* Around both ends of the segment, of the stack and of stage 1, with sizes
   that need rounding, that reach the limit and that wrap an address.      *)
MCFlashHeaders ==
  [magic : {TRUE}, intact : BOOLEAN, load : 126..145,
   size : {0, 1, 3, 4, 5, 7, 8, 96, 97, 100, 104, 105, 117, 120, 252, 253, 255},
   entry : {0, 128, 130, 131, 132, 134, 136, 137, 138, 140, 142, 144, 250}]
    \union {[NoHeader EXCEPT !.load = 130, !.size = 4, !.entry = 130]}

(* Kernels that boot and kernels that do not: outside KSEG0, over stage 1,
   larger than the stock limit, a size or address that is not aligned.     *)
MCBootHeaders ==
  [magic : BOOLEAN, intact : BOOLEAN, load : {126, 130, 131, 134, 142},
   size : {4, 6, 8, 100}, entry : {130, 132, 142}]

MCUploadHeaders ==
  [magic : {TRUE}, intact : {TRUE}, load : {130, 132, 133, 134, 136, 138, 254},
   size : {0, 1, 2, 4, 5, 6, 7, 252},
   entry : {0, 130, 132, 133, 134, 136, 137, 138}]
MCOneUpload == {[NoHeader EXCEPT !.magic = TRUE, !.load = 132, !.size = 4, !.entry = 132]}

MCBlobSize == [recovery |-> 6, liveboot |-> 0]
MCBigLiveBoot == [recovery |-> 5, liveboot |-> 7]
=============================================================================
