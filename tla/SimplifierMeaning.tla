-------------------------- MODULE SimplifierMeaning --------------------------
(***************************************************************************)
(* What simplifying preserves: the stream means the same after every step  *)
(* of the walk.                                                            *)
(***************************************************************************)
EXTENDS Simplifier, IRMeaning

CONSTANT Envs    \* the environments a block is tried in

ASSUME EnvsAssumption == Envs \subseteq Env

\* Whatever statement of whatever pass the walk is at, each statement maps an
\* environment to the one the lifted statement maps it to: at every operand width,
\* for negative immediates, the all-ones mask and the most negative number.
MeaningPreserved ==
  \A n \in DOMAIN original : ~IsRotate(original[n]) =>
    \A env \in Envs : ExecStatement(ir[n], env) = ExecStatement(original[n], env)
=============================================================================
