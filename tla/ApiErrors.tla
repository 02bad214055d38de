----------------------------- MODULE ApiErrors -----------------------------
(***************************************************************************)
(* The error constructors of api/*.go: whether the error a manager returns *)
(* is nil, given whether its cause is.  The text of an error is left out.  *)
(***************************************************************************)

Outcomes == {"nil", "error"}

\* NewErrorStack builds a value: the interface that holds it is never nil.
NewErrorStack(cause) == "error"

\* Constructors of the server, volume, security group and template interfaces.
NewServerError(cause) == NewErrorStack(cause)

\* Constructors of the network, network interface, public address and image interfaces.
NewNetworkError(cause) == IF cause = "nil" THEN "nil" ELSE NewErrorStack(cause)

=============================================================================
