-------------------------- MODULE MCRenameControl --------------------------
\* Two paths, so that moves of one path meet and moves of two do not.
EXTENDS RenameControl

CONSTANTS p, q

MCPaths == {p, q}
=============================================================================
