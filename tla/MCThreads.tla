----------------------------- MODULE MCThreads ------------------------------
(* What the comments of Threads may mention. *)
EXTENDS Threads

\* Bodies that mention nobody, or any one account.
MCPlain == {{}}
MCMentions == {{}} \cup {{a} : a \in Account}
=============================================================================
