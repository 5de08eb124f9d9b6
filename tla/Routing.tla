------------------------------ MODULE Routing ------------------------------
(***************************************************************************)
(* What the server makes of a request line before any handler runs: the    *)
(* route table of the four routers (main.py), and the two middlewares'     *)
(* lists of paths, which repeat parts of it.  A path is the one it is      *)
(* after rstrip("/"), with the fact that slashes were stripped: the        *)
(* middlewares do not see these, the router redirects and runs no handler. *)
(***************************************************************************)

Methods == {"GET", "POST", "OPTIONS"}

(* GET or POST, and what guards the handler: nothing, a user, or staff.    *)
RouteTable ==
    {<<"GET",  "/",                  "public">>,
     <<"POST", "/auth/signup",       "public">>,
     <<"POST", "/auth/login",        "public">>,
     <<"POST", "/auth/resend-otp",   "public">>,
     <<"POST", "/auth/verify-otp",   "public">>,
     <<"POST", "/auth/social-login", "public">>,
     <<"POST", "/auth/link-google",  "user">>,
     <<"POST", "/auth/refresh",      "public">>,
     <<"POST", "/auth/logout",       "public">>,
     <<"GET",  "/user/me",           "user">>,
     <<"POST", "/instructor/become", "user">>,
     <<"POST", "/admin/login",       "public">>,
     <<"GET",  "/admin/me",          "staff">>,
     <<"POST", "/admin/logout",      "public">>,
     <<"GET",  "/admin/users",       "staff">>}

(* FastAPI's own pages; the middlewares know them by prefix.               *)
DocPages == {"/docs", "/docs/oauth2-redirect", "/redoc", "/openapi.json"}

Paths == {route[2] : route \in RouteTable} \cup DocPages \cup {"/nowhere"}

Lines == [method : Methods, path : Paths, slashed : BOOLEAN]

(* The request line that reaches a route's handler.                        *)
LineOf(route) == [method |-> route[1], path |-> route[2], slashed |-> FALSE]

AUTH_PATHS ==
    {"/auth/signup", "/auth/login", "/auth/resend-otp", "/auth/verify-otp",
     "/auth/social-login", "/admin/login"}

(* RateLimitMiddleware: not counted.                                       *)
is_skipped(line) == line.method = "OPTIONS" \/ line.path \in {"/"} \cup DocPages

bucket_for(line) == IF line.path \in AUTH_PATHS THEN "auth" ELSE "api"

PUBLIC_EXACT_PATHS ==
    {"/", "/auth/signup", "/auth/login", "/auth/resend-otp", "/auth/verify-otp",
     "/auth/social-login", "/auth/refresh", "/auth/logout", "/admin/login", "/admin/logout"}

(* AuthMiddleware: let through without a look at the cookie.               *)
is_public(line) == line.method = "OPTIONS" \/ line.path \in PUBLIC_EXACT_PATHS \cup DocPages
=============================================================================
