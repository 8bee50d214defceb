--------------------------- MODULE MCConversation ---------------------------
(* Conversation between two interchangeable members. *)
EXTENDS Conversation, TLC

MCSymmetry == Permutations(Member)

\* Bodies that mention nobody, either member, or both.
MCMentions == SUBSET Member
=============================================================================
