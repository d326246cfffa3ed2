---------------------------- MODULE MCMemoryJobs ----------------------------
(* An order to forget, before a turn of conversation or after one to remember; an
   order that failed may be taken up again when there is more to forget. *)
EXTENDS MemoryJobs

CONSTANTS f

RememberForget == [t \in Turn |-> IF t = 1 THEN "remember" ELSE "forget"]
ForgetTalk == [t \in Turn |-> IF t = 1 THEN "forget" ELSE "conversation"]
Mixed == {ForgetTalk, RememberForget}
OfF == [t \in Turn |-> f]
=============================================================================
