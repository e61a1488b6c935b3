------------------------------ MODULE MCSignIn ------------------------------
(***************************************************************************)
(* The sign-ins of one connection, checked by themselves: they need more   *)
(* operations at once than the run of the other providers has room for,    *)
(* and share no variable with them.  The handlers are alike, so that       *)
(* permutations of them are one state.                                     *)
(***************************************************************************)
EXTENDS ProviderSignIn, TLC

Symmetry == Permutations(Handler)

\* A handler that was called returns, whatever the worker it waits for and
\* the backend do, unless its server ends (auth.py _cancel, codex/backend.py
\* cancel_auth).
HandlersReturn == \A h \in Handler : handler[h].pc # "idle" ~> handler[h].pc = "idle"

ASSUME SignInsAssumption == SignInAssumption
=============================================================================
