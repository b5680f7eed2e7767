------------------------------- MODULE Routes -------------------------------
(***************************************************************************)
(* The route table of httpapi.New.  A handler is the sequence of stages it  *)
(* puts a request through, in source order; every stage may answer and      *)
(* stop, and the last one makes the call the route exists for.              *)
(*                                                                          *)
(*   "class", "ip", "org", "identifier"  one rate-limit check each          *)
(*   "bearer", "json", "email"           validation                        *)
(*   "call"                              an application service call; its  *)
(*                                       name is the family that answers   *)
(***************************************************************************)
EXTENDS Naturals, Sequences

Stage(do, name) == [do |-> do, name |-> name]

Class(class) == Stage("class", class)         \* handlers.wrap
IP(route)    == Stage("ip", route)            \* handlers.wrapIP
Org(route)   == Stage("org", route)           \* handlers.wrapOrg, checkOrgLimit
Bearer       == Stage("bearer", "")           \* handlers.requireBearer
JSON         == Stage("json", "")             \* decodeJSONBody
Email        == Stage("email", "")            \* Service.Challenge's validation
Identifier   == Stage("identifier", "identifier")  \* Service.checkIdentifierLimit
Call(family) == Stage("call", family)

\* One-time codes, passwords and refresh tokens: unauthenticated.
AuthRoutes ==
    [otp_request   |-> <<Class("auth_otp_request"), JSON, Identifier, Call("auth")>>,
     otp_verify    |-> <<Class("auth_otp_verify"), JSON, Call("auth")>>,
     login         |-> <<Class("auth_password"), JSON, Call("auth")>>,
     token_refresh |-> <<Class("auth_refresh"), JSON, Call("auth")>>]

SignupRoutes ==
    [signup        |-> <<IP("/auth/signup"), JSON, Call("signup")>>,
     signup_verify |-> <<IP("/auth/signup/verify"), JSON, Call("signup")>>]

FlagsRoute == [flags |-> <<IP("/flags"), Call("flags")>>]

TenantRoute == [tenant |-> <<IP("/public/tenants/{slug}"), Call("tenant")>>]

\* Organizations, members and invitations: the budget is spent before the bearer
\* token is looked at, except on session_org, whose organization is in the body.
OrgRoutes ==
    [org_list       |-> <<IP("/orgs"), Bearer, Call("org")>>,
     org_create     |-> <<IP("/orgs"), Bearer, JSON, Call("org")>>,
     org_slug       |-> <<Org("/orgs/{org_id}/slug"), Bearer, JSON, Call("org")>>]

MemberRoutes ==
    [member_list    |-> <<Org("/orgs/{org_id}/members"), Bearer, Call("org")>>,
     member_add     |-> <<Org("/orgs/{org_id}/members"), Bearer, JSON, Call("org")>>,
     member_remove  |-> <<Org("/orgs/{org_id}/members"), Bearer, Call("org")>>,
     member_suspend |-> <<Org("/orgs/{org_id}/members"), Bearer, Call("org")>>,
     member_role    |-> <<Org("/orgs/{org_id}/members/{user_id}/role"), Bearer, JSON, Call("org")>>]

InviteRoutes ==
    [invite_create  |-> <<Org("/orgs/{org_id}/invites"), Bearer, JSON, Call("org")>>,
     invite_list    |-> <<Org("/orgs/{org_id}/invites"), Bearer, Call("org")>>,
     invite_revoke  |-> <<Org("/orgs/{org_id}/invites/{invite_id}"), Bearer, Call("org")>>,
     invite_accept  |-> <<IP("/invites/accept"), Bearer, JSON, Call("org")>>]

SessionRoute ==
    [session_org    |-> <<Bearer, JSON, Org("/session/org"), Call("org")>>]

\* Service.Challenge with the budget spent before the address is validated.
challenge_ChargesFirst(class) == <<Class(class), JSON, Identifier, Email, Call("challenge")>>

\* The stages of handlers.challenge and Service.Challenge.
challenge(class) == <<Class(class), JSON, Email, Identifier, Call("challenge")>>

verifyChallenge(class) == <<Class(class), JSON, Call("verify")>>

claim(class) == <<Class(class), JSON, Call("claim")>>

\* Ownership and onboarding, each with its aliases.
PlaneRoutes ==
    [ownership_challenge |-> challenge("system_ownership_challenge"),
     admin_challenge     |-> challenge("admin_challenge"),
     ownership_verify    |-> verifyChallenge("system_ownership_verify"),
     admin_verify        |-> verifyChallenge("admin_verify"),
     dev_claim           |-> claim("dev_onboard_claim"),
     onboard_claim       |-> claim("onboard_claim"),
     v1_onboard_claim    |-> claim("onboard_claim")]

\* Public documents, without a budget.  The installer is at "/" only; every other
\* path that gets there is a 404.
StaticRoutes == [healthz |-> <<Call("static")>>, install |-> <<Call("asset")>>]

\* Read from disk at request time, a missing file is a 404.
OpenAPIRoutes == [openapi_gateway |-> <<Call("asset")>>, openapi_manifest |-> <<Call("asset")>>]

JWKSRoute == [jwks |-> <<Call("static")>>]

\* The routes of both tables; no two families share one.
Join(f, g) == [route \in DOMAIN f \cup DOMAIN g |-> IF route \in DOMAIN f THEN f[route] ELSE g[route]]

\* The routes without an account, and those that carry the caller's bearer token.
PlainRoutes ==
    Join(Join(Join(StaticRoutes, OpenAPIRoutes), Join(JWKSRoute, AuthRoutes)),
         Join(Join(SignupRoutes, FlagsRoute), Join(TenantRoute, PlaneRoutes)))

AccountRoutes == Join(Join(OrgRoutes, MemberRoutes), Join(InviteRoutes, SessionRoute))

\* Every route httpapi.New and ServeJWKS register.
RouteTable == Join(PlainRoutes, AccountRoutes)

\* The limits of domain/ratelimit.go and of the route table; a class without a
\* policy has limit 0.
SourceLimit(name) ==
    CASE name = "auth_otp_request" -> 5
      [] name = "auth_otp_verify"  -> 20
      [] name = "auth_password"    -> 10
      [] name = "auth_refresh"     -> 30
      [] name = "identifier"       -> 3
      [] name \in {"/auth/signup", "/auth/signup/verify", "/invites/accept"} -> 5
      [] name = "/public/tenants/{slug}" -> 600
      [] name \in {"system_ownership_challenge", "system_ownership_verify",
                   "dev_onboard_claim", "admin_challenge", "admin_verify",
                   "onboard_claim"} -> 0
      [] OTHER -> 60
=============================================================================
