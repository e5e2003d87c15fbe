---- MODULE WorkbenchCatalog ----
(***************************************************************************)
(* The operations the Workbench offers (catalog.ts) and the routes the     *)
(* service answers (the attributes of its controllers).  An entry of the   *)
(* catalog keeps what the program decides on: its method, path, group,     *)
(* demanded credential, whether it has a body, which vault variables its   *)
(* templates name, its path parameters, whether it must be confirmed, and  *)
(* its guided action.  Titles and descriptions in three languages are      *)
(* texts that no decision reads.                                           *)
(***************************************************************************)
EXTENDS Naturals

\* The twelve variables of the vault that templates may name.
Variables == {"accessToken", "refreshToken", "apiKey", "csrfToken",
  "totpSecret", "totpCode", "mfaTicket", "credentialId", "socialCode",
  "socialState", "verificationToken", "passwordResetToken"}

HttpMethods == {"GET", "POST", "PUT", "PATCH", "DELETE"}
Groups == {"operations", "authentication", "account", "sessions", "security", "admin"}
AuthRequirements == {"public", "auth", "recent", "admin"}
AuthModes == {"bearer", "cookie", "apiKey"}
SpecialActions == {"social", "totp", "passkey-register", "passkey-auth"}
NoSpecial == "null"

\* An entry without options: no body, no parameter, nothing to confirm.
endpoint(id, method, path, group, auth) ==
  [id |-> id, method |-> method, path |-> path, group |-> group, auth |-> auth,
   body |-> FALSE, templates |-> {}, pathParams |-> {},
   destructive |-> FALSE, special |-> NoSpecial]

\* The option sets entries share: a body, naming the variables vs; parameters
\* ps in the path; a confirmation before sending.
WithBody(e, vs) == [e EXCEPT !.body = TRUE, !.templates = vs]
WithPath(e, ps) == [e EXCEPT !.pathParams = ps]
Confirmed(e) == [e EXCEPT !.destructive = TRUE]
Guided(e, action) == [e EXCEPT !.special = action]

OperationsEntries ==
  {endpoint("health-live", "GET", "/health/live", "operations", "public"),
   endpoint("health-ready", "GET", "/health/ready", "operations", "public"),
   endpoint("jwks", "GET", "/.well-known/jwks.json", "operations", "public")}

AccountsEntries ==
  {WithBody(endpoint("auth-register", "POST", "/api/v1/auth/register", "authentication", "public"), {}),
   WithBody(endpoint("auth-login", "POST", "/api/v1/auth/login", "authentication", "public"), {}),
   WithBody(endpoint("auth-login-mfa", "POST", "/api/v1/auth/login/mfa", "authentication", "public"), {"mfaTicket", "totpCode"}),
   WithBody(endpoint("auth-refresh", "POST", "/api/v1/auth/refresh", "authentication", "public"), {"refreshToken"}),
   Confirmed(endpoint("auth-logout", "POST", "/api/v1/auth/logout", "authentication", "auth")),
   endpoint("auth-csrf", "GET", "/api/v1/auth/csrf", "authentication", "auth")}

VerificationEntries ==
  {Guided(WithPath(endpoint("social-authorize", "GET", "/api/v1/auth/social/{provider}/authorize", "authentication", "public"), {"provider"}), "social"),
   WithPath([endpoint("social-callback", "GET", "/api/v1/auth/social/{provider}/callback", "authentication", "public") EXCEPT !.templates = {"socialCode", "socialState"}], {"provider"}),
   endpoint("email-send", "POST", "/api/v1/email-verification/send", "authentication", "auth"),
   WithBody(endpoint("email-confirm", "POST", "/api/v1/email-verification/confirm", "authentication", "public"), {"verificationToken"}),
   WithBody(endpoint("password-request", "POST", "/api/v1/password-reset/request", "authentication", "public"), {}),
   Confirmed(WithBody(endpoint("password-confirm", "POST", "/api/v1/password-reset/confirm", "authentication", "public"), {"passwordResetToken"}))}

ProfileEntries ==
  {endpoint("users-me", "GET", "/api/v1/users/me", "account", "auth"),
   WithBody(endpoint("users-update", "PATCH", "/api/v1/users/me", "account", "auth"), {}),
   Confirmed(endpoint("users-delete", "DELETE", "/api/v1/users/me", "account", "recent")),
   Confirmed(WithBody(endpoint("users-password", "PUT", "/api/v1/users/me/password", "account", "auth"), {})),
   endpoint("users-accounts", "GET", "/api/v1/users/me/accounts", "account", "auth"),
   Confirmed(WithPath(endpoint("users-unlink", "DELETE", "/api/v1/users/me/accounts/{accountId}", "account", "auth"), {"accountId"}))}

SessionsEntries ==
  {endpoint("sessions-list", "GET", "/api/v1/sessions", "sessions", "auth"),
   Confirmed(WithPath(endpoint("sessions-revoke", "DELETE", "/api/v1/sessions/{sessionId}", "sessions", "auth"), {"sessionId"})),
   Confirmed(endpoint("sessions-revoke-others", "DELETE", "/api/v1/sessions", "sessions", "auth"))}

TotpEntries ==
  {Guided(endpoint("mfa-enroll", "POST", "/api/v1/mfa/totp/enroll", "security", "auth"), "totp"),
   Guided(WithBody(endpoint("mfa-confirm", "POST", "/api/v1/mfa/totp/confirm", "security", "auth"), {"totpCode"}), "totp"),
   Confirmed(endpoint("mfa-disable", "DELETE", "/api/v1/mfa/totp", "security", "recent")),
   Confirmed(endpoint("mfa-recovery", "POST", "/api/v1/mfa/recovery-codes/regenerate", "security", "recent"))}

PasskeysEntries ==
  {Guided(WithBody(endpoint("passkey-registration-options", "POST", "/api/v1/passkeys/registration/options", "security", "auth"), {}), "passkey-register"),
   WithBody(endpoint("passkey-registration-complete", "POST", "/api/v1/passkeys/registration/complete", "security", "auth"), {}),
   Guided(WithBody(endpoint("passkey-auth-options", "POST", "/api/v1/passkeys/authentication/options", "security", "public"), {}), "passkey-auth"),
   WithBody(endpoint("passkey-auth-complete", "POST", "/api/v1/passkeys/authentication/complete", "security", "public"), {}),
   endpoint("passkeys-list", "GET", "/api/v1/passkeys", "security", "auth"),
   Confirmed(WithPath([endpoint("passkey-delete", "DELETE", "/api/v1/passkeys/{credentialId}", "security", "auth") EXCEPT !.templates = {"credentialId"}], {"credentialId"}))}

ApiKeysEntries ==
  {WithBody(endpoint("api-key-create", "POST", "/api/v1/api-keys", "security", "auth"), {}),
   endpoint("api-keys-list", "GET", "/api/v1/api-keys", "security", "auth"),
   Confirmed(WithPath(endpoint("api-key-revoke", "DELETE", "/api/v1/api-keys/{keyId}", "security", "auth"), {"keyId"}))}

AdminUsersEntries ==
  {endpoint("admin-users-list", "GET", "/api/v1/admin/users", "admin", "admin"),
   WithPath(endpoint("admin-user-get", "GET", "/api/v1/admin/users/{userId}", "admin", "admin"), {"userId"}),
   WithPath(WithBody(endpoint("admin-user-update", "PATCH", "/api/v1/admin/users/{userId}", "admin", "admin"), {}), {"userId"}),
   Confirmed(WithPath(endpoint("admin-user-delete", "DELETE", "/api/v1/admin/users/{userId}", "admin", "admin"), {"userId"}))}

AdminGrantsEntries ==
  {Confirmed(WithPath(WithBody(endpoint("admin-role-grant", "POST", "/api/v1/admin/users/{userId}/roles", "admin", "admin"), {}), {"userId"})),
   Confirmed(WithPath(endpoint("admin-role-revoke", "DELETE", "/api/v1/admin/users/{userId}/roles/{roleId}", "admin", "admin"), {"userId", "roleId"})),
   Confirmed(WithPath(endpoint("admin-sessions-revoke", "DELETE", "/api/v1/admin/users/{userId}/sessions", "admin", "admin"), {"userId"})),
   endpoint("admin-audit", "GET", "/api/v1/admin/audit-logs", "admin", "admin")}

ENDPOINTS == UNION {OperationsEntries, AccountsEntries, VerificationEntries,
  ProfileEntries, SessionsEntries, TotpEntries, PasskeysEntries, ApiKeysEntries,
  AdminUsersEntries, AdminGrantsEntries}

EndpointIds == {e.id : e \in ENDPOINTS}
endpointById(id) == CHOOSE e \in ENDPOINTS : e.id = id

\* What a controller demands of a request: an authenticated caller ("user"), a
\* recent sign-in, a permission; nothing for [AllowAnonymous].
route(method, path, demands) == [method |-> method, path |-> path, demands |-> demands]

HealthRoutes == {route("GET", "/health/live", {}), route("GET", "/health/ready", {})}

WellKnownRoutes == {route("GET", "/.well-known/jwks.json", {})}

AuthRoutes ==
  {route("POST", "/api/v1/auth/register", {}),
   route("POST", "/api/v1/auth/login", {}),
   route("POST", "/api/v1/auth/login/mfa", {}),
   route("POST", "/api/v1/auth/refresh", {}),
   route("POST", "/api/v1/auth/logout", {"user"}),
   route("GET", "/api/v1/auth/csrf", {"user"})}

SocialAuthRoutes ==
  {route("GET", "/api/v1/auth/social/{provider}/authorize", {}),
   route("GET", "/api/v1/auth/social/{provider}/callback", {})}

EmailVerificationRoutes ==
  {route("POST", "/api/v1/email-verification/send", {"user"}),
   route("POST", "/api/v1/email-verification/confirm", {})}

PasswordResetRoutes ==
  {route("POST", "/api/v1/password-reset/request", {}),
   route("POST", "/api/v1/password-reset/confirm", {})}

UsersRoutes ==
  {route("GET", "/api/v1/users/me", {"user"}),
   route("PATCH", "/api/v1/users/me", {"user"}),
   route("DELETE", "/api/v1/users/me", {"user", "recent"}),
   route("PUT", "/api/v1/users/me/password", {"user"}),
   route("GET", "/api/v1/users/me/accounts", {"user"}),
   route("DELETE", "/api/v1/users/me/accounts/{accountId}", {"user"})}

SessionsRoutes ==
  {route("GET", "/api/v1/sessions", {"user"}),
   route("DELETE", "/api/v1/sessions/{sessionId}", {"user"}),
   route("DELETE", "/api/v1/sessions", {"user"})}

MfaRoutes ==
  {route("POST", "/api/v1/mfa/totp/enroll", {"user"}),
   route("POST", "/api/v1/mfa/totp/confirm", {"user"}),
   route("DELETE", "/api/v1/mfa/totp", {"user", "recent"}),
   route("POST", "/api/v1/mfa/recovery-codes/regenerate", {"user", "recent"})}

PasskeysRoutes ==
  {route("POST", "/api/v1/passkeys/registration/options", {"user"}),
   route("POST", "/api/v1/passkeys/registration/complete", {"user"}),
   route("POST", "/api/v1/passkeys/authentication/options", {}),
   route("POST", "/api/v1/passkeys/authentication/complete", {}),
   route("GET", "/api/v1/passkeys", {"user"}),
   route("DELETE", "/api/v1/passkeys/{credentialId}", {"user"})}

ApiKeysRoutes ==
  {route("POST", "/api/v1/api-keys", {"user"}),
   route("GET", "/api/v1/api-keys", {"user"}),
   route("DELETE", "/api/v1/api-keys/{keyId}", {"user"})}

AdminUsersRoutes ==
  {route("GET", "/api/v1/admin/users", {"user", "permission"}),
   route("GET", "/api/v1/admin/users/{userId}", {"user", "permission"}),
   route("PATCH", "/api/v1/admin/users/{userId}", {"user", "permission", "recent"}),
   route("DELETE", "/api/v1/admin/users/{userId}", {"user", "permission", "recent"})}

AdminUserRolesRoutes ==
  {route("POST", "/api/v1/admin/users/{userId}/roles", {"user", "permission", "recent"}),
   route("DELETE", "/api/v1/admin/users/{userId}/roles/{roleId}", {"user", "permission", "recent"})}

AdminUserSessionsRoutes ==
  {route("DELETE", "/api/v1/admin/users/{userId}/sessions", {"user", "permission", "recent"})}

AdminAuditLogsRoutes ==
  {route("GET", "/api/v1/admin/audit-logs", {"user", "permission"})}

Routes == UNION {HealthRoutes, WellKnownRoutes, AuthRoutes, SocialAuthRoutes, EmailVerificationRoutes,
  PasswordResetRoutes, UsersRoutes, SessionsRoutes, MfaRoutes,
  PasskeysRoutes, ApiKeysRoutes, AdminUsersRoutes, AdminUserRolesRoutes, AdminUserSessionsRoutes, AdminAuditLogsRoutes}

RouteOf(e) == CHOOSE r \in Routes : r.method = e.method /\ r.path = e.path
====
