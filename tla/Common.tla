--------------------------------- MODULE Common ---------------------------------
(* The value that stands for no value, Python's None and the empty cell, for  *)
(* the modules that are combined with one another.                            *)

CONSTANT None
=================================================================================
