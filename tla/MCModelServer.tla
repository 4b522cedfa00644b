---------------------------- MODULE MCModelServer ----------------------------
(***************************************************************************)
(* Small instances of ModelServer.                                         *)
(***************************************************************************)
EXTENDS ModelServer

\* A request without a caller the service knows, and one caller of every layer.
MCNamed == {"nobody", "agent", "admin", "web-bff"}

\* No secret, those of two layers, and all that production requires.
MCVaults == {{}, {"agent", "admin"}, {"agent", "admin", "web-bff"}}

\* What LevelIgnoresOrder asks of a server's declarations.
ASSUME DeclaredConsistently == Consistent(Declarations)

MCRoutes == Routes
MCAnnounced == {route \in Routes : Announced(route)}
=============================================================================
