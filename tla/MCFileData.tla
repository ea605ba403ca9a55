------------------------------ MODULE MCFileData ------------------------------
(* Two tasks and two opened files, one of them for appending, for TLC: a     *)
(* block has two bytes or two numbers, and an inode three zones.             *)
EXTENDS FileData

CONSTANTS t1, t2, plain, append
MCData == t1 :> <<1, 2>> @@ t2 :> <<3, 4>>
=============================================================================
