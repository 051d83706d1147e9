--------------------------- MODULE MCProposalWire ---------------------------
EXTENDS ProposalWire
MCKey == {"kind", "capabilities", "context"}
=============================================================================
