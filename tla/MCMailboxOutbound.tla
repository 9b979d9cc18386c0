------------------------- MODULE MCMailboxOutbound -------------------------
(* One message, and a second peer whose edges and keys are not its own. *)
EXTENDS MailboxOutbound

CONSTANTS m1, alice, bob

OneRecipient == [m \in Messages |-> alice]
=============================================================================
