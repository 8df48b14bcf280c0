------------------------------- MODULE Values --------------------------------
(* The value Python calls None, shared by the modules that keep it in a     *)
(* field of their state.                                                    *)
CONSTANT None
=============================================================================
