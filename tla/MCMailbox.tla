------------------------------ MODULE MCMailbox ------------------------------
EXTENDS Mailbox

=============================================================================
