-------------------------- MODULE ConversationLog --------------------------
(***************************************************************************)
(* What the user may rely on of a conversation, with no file, no memory    *)
(* and no tasks: messages are added at its end and given up from its end.  *)
(* None is inserted, altered, repeated or lost from the middle, wherever   *)
(* the conversation is kept at the moment.                                 *)
(***************************************************************************)
EXTENDS Sequences, SequencesExt

VARIABLE conversation

LogInit == conversation = <<>>

Extend == IsPrefix(conversation, conversation')

CutBack == IsPrefix(conversation', conversation)

LogNext == Extend \/ CutBack

ConversationSpec == LogInit /\ [][LogNext]_conversation
=============================================================================
