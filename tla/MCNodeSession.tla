---------------------------- MODULE MCNodeSession ----------------------------
(* One node that connects up to MaxConn times.                             *)
EXTENDS NodeSession

CONSTANT q

OneCli == {q}
None == {}
=============================================================================
