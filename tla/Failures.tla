------------------------------ MODULE Failures ------------------------------
(***************************************************************************)
(* How a failure travels: a gRPC code of orbit-auth becomes a domain kind   *)
(* in infrastructure/auth, and a kind becomes an HTTP status in             *)
(* httpapi.writeAppError.  A failure is a record of its kind and of whether *)
(* its message is the upstream's own text (detail) or a fixed one.          *)
(***************************************************************************)

\* The gRPC codes the mappings tell apart; "Other" stands for the rest, a
\* transport error and a non-gRPC error included.
ErrorCodes == {"InvalidArgument", "Unauthenticated", "PermissionDenied",
               "FailedPrecondition", "ResourceExhausted", "NotFound",
               "AlreadyExists", "Other"}

Failure(kind, detail) == [kind |-> kind, detail |-> detail]

\* Auth calls: five codes keep kind and message, the rest is one generic 500.
upstreamError(code) ==
    IF code \in {"InvalidArgument", "Unauthenticated", "PermissionDenied",
                 "FailedPrecondition", "ResourceExhausted"}
      THEN Failure(code, TRUE)
      ELSE Failure("Internal", FALSE)

\* An organization mapping that hands the upstream's text on unchecked.
orgUpstreamError_Verbatim(code) ==
    CASE code \in {"FailedPrecondition", "AlreadyExists"} -> Failure("Conflict", TRUE)
      [] code \in {"InvalidArgument", "Unauthenticated", "PermissionDenied",
                   "NotFound", "ResourceExhausted"} -> Failure(code, TRUE)
      [] OTHER -> Failure("BadGateway", TRUE)

\* Organization and invitation calls: NotFound is kept, a failed precondition
\* is a conflict, the rest is one generic 502.
orgUpstreamError(code) ==
    CASE code \in {"FailedPrecondition", "AlreadyExists"} -> Failure("Conflict", TRUE)
      [] code \in {"InvalidArgument", "Unauthenticated", "PermissionDenied",
                   "NotFound", "ResourceExhausted"} -> Failure(code, TRUE)
      [] OTHER -> Failure("BadGateway", FALSE)

\* Sign-up calls: a disabled sign-up surface looks like a missing route.
signupUpstreamError(code) ==
    IF code = "FailedPrecondition" THEN Failure("NotFound", FALSE)
                                   ELSE orgUpstreamError(code)

\* Client.ResolveTenant: a fixed text even for NotFound.
tenantUpstreamError(code) ==
    IF code = "NotFound" THEN Failure("NotFound", FALSE)
                         ELSE Failure("BadGateway", FALSE)

\* Client.ListFlags and handlers.flags: every failure is the same 502.
flagsUpstreamError(code) == Failure("BadGateway", FALSE)

\* The mapping an upstream call of each family goes through.
UpstreamFailure(family, code) ==
    CASE family = "auth"   -> upstreamError(code)
      [] family = "org"    -> orgUpstreamError(code)
      [] family = "signup" -> signupUpstreamError(code)
      [] family = "tenant" -> tenantUpstreamError(code)
      [] family = "flags"  -> flagsUpstreamError(code)

\* The kind switch of writeAppError.
HTTPStatus(kind) ==
    CASE kind = "InvalidArgument"    -> 400
      [] kind = "Unauthenticated"    -> 401
      [] kind = "PermissionDenied"   -> 403
      [] kind = "FailedPrecondition" -> 412
      [] kind = "ResourceExhausted"  -> 429
      [] kind = "NotFound"           -> 404
      [] kind = "Conflict"           -> 409
      [] kind = "BadGateway"         -> 502
      [] OTHER                       -> 500
=============================================================================
