----------------------------- MODULE MCConfLoader -----------------------------
(* Four configuration files: the first two claim the same factory; the third *)
(* documents two blocks, one of which the first file documents too and one   *)
(* whose description is refused; the fourth has a factory that is not in the *)
(* format.                                                                   *)
EXTENDS ConfLoader

CONSTANTS first, second, third, bad, doc1, doc2, block1, block2, dir1, dir2

MCDocs(f) == CASE f = first -> <<doc1>> [] f = third -> <<doc1, doc2>> [] OTHER -> <<>>
MCFactories(f) == CASE f = first -> <<block1>> [] f = second -> <<block2, block1>> [] OTHER -> <<>>
MCModulePaths(f) == IF f = first THEN <<dir1>> ELSE <<dir2, dir1>>
MCWellFormed(f) == f # bad
===============================================================================
