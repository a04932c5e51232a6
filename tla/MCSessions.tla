----------------------------- MODULE MCSessions -----------------------------
(***************************************************************************)
(* Small instances of the two ways to be signed in: a browser at a console,  *)
(* and the app with its tokens. They share no variable: a behaviour moves    *)
(* the one named at the start, a run explores each in full, and a property    *)
(* speaks of one.                                                            *)
(***************************************************************************)
EXTENDS ConsoleAccess, MobileApp, TLC

VARIABLE client

CONSTANT tee

SessionsInit == client \in {"console", "app"} /\ ConsoleInit /\ AppInit

SessionsNext ==
  \/ client = "console" /\ ConsoleNext /\ UNCHANGED <<client, appVars>>
  \/ client = "app" /\ AppNext /\ UNCHANGED <<client, consoleVars>>

SessionsSpec == SessionsInit /\ [][SessionsNext]_<<client, consoleVars, appVars>>

Symmetry == Permutations(Browsers)
=============================================================================
