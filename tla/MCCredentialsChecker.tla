------------------------ MODULE MCCredentialsChecker ------------------------
(***************************************************************************)
(* Every process array whose processes have up to MaxFooters footers, or   *)
(* one for which the policy is busy.                                       *)
(***************************************************************************)
EXTENDS CredentialsChecker

CONSTANT MaxFooters

MCKinds == Checked \cup {"bad", "unsupported", "busy"}
MCLayouts ==
  {NoProcess, <<"busy">>} \cup UNION {[1 .. n -> MCKinds \ {"busy"}] : n \in 0 .. MaxFooters}
=============================================================================
