---------------------------- MODULE MCMBotDriver ----------------------------
(* MBotDriver with a word of two bytes, so that a prefix can arrive in two *)
(* pieces.  A frame that decodes is 7 words and its frame_id long.         *)
EXTENDS MBotDriver
=============================================================================
