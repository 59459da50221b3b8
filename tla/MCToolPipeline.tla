-------------------------- MODULE MCToolPipeline ---------------------------
(* Instances of ToolPipeline for TLC: a read, a read the rules reject, a     *)
(* command that needs approval, two tools with their own proposals (of one   *)
(* the LLM writes the flag itself), a question.                              *)
EXTENDS ToolPipeline

OneIntent == [c \in Call |-> IF c \in {"read", "outside", "shell"} THEN 1 ELSE 0]

UpTo(n, calls) == UNION {[1 .. k -> calls] : k \in 1 .. n}
Singles == UpTo(1, Call)
Pairs == UpTo(2, Call)
Triples == Pairs \cup UpTo(3, {"read", "shell"})
=============================================================================
