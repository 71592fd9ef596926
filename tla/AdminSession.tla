----------------------------- MODULE AdminSession -----------------------------
(***************************************************************************)
(* Who may do what: AuthProvider.tsx with Keycloak behind it, the checks   *)
(* of permissions.ts that decide which pages exist, and the guards of the  *)
(* server that decide which requests are served.                           *)
(*                                                                         *)
(* The roles of the token and the snapshot of them that the page renders   *)
(* from are brought up to date together, so one variable stands for both.  *)
(* Without Keycloak (the local setup) there are no roles, and both sides   *)
(* allow everything.                                                       *)
(***************************************************************************)
EXTENDS Naturals, FiniteSets

CONSTANTS
  KeycloakEnabled, \* VITE_KEYCLOAK_ENABLED, and AUTH_DISABLED on the server
  MaxChanges       \* bound on what happens to the account at Keycloak

ASSUME SessionAssumption == KeycloakEnabled \in BOOLEAN /\ MaxChanges \in Nat

VARIABLES
  screen,   \* "splash", "failed", "app", or "away" at Keycloak's own pages
  roles,    \* of the token
  granted,  \* at Keycloak
  alive,    \* the session at Keycloak
  changes

session == <<screen, roles, granted, alive, changes>>
account == <<granted, alive, changes>>

Admin  == "ts-icon-admin"
Editor == "ts-icon-editor"

\* permissions.ts
CanUpload(r) == KeycloakEnabled => r \cap {Admin, Editor} # {}
IsAdmin(r)   == KeycloakEnabled => Admin \in r

Page == {"editor", "gallery", "urls"}
\* mutant: the banner URLs are guarded like the other pages.
MayOpenAnyone(page, r) == CanUpload(r)
\* App.tsx: RequireUpload and RequireAdmin around the routes.
MayOpen(page, r) == IF page = "urls" THEN IsAdmin(r) ELSE CanUpload(r)

\* The @Roles of the endpoints behind the pages.
RequiredRole(op) == IF op \in {"banners", "banner", "all"} THEN Admin ELSE Editor
\* roles.guard.ts: an administrator is an editor as well; no-auth.guard.ts lets all pass.
Served(op, r) ==
  KeycloakEnabled => RequiredRole(op) \in r \cup (IF Admin \in r THEN {Editor} ELSE {})

InitSession ==
  /\ screen = IF KeycloakEnabled THEN "splash" ELSE "app"
  /\ roles = {} /\ granted = {Admin} /\ alive = TRUE /\ changes = 0

\* initializeKeycloakOnce() settles.
Login ==
  /\ screen = "splash"
  /\ \/ alive /\ screen' = "app" /\ roles' = granted
     \/ screen' = "failed" /\ UNCHANGED roles
  /\ UNCHANGED account

\* "Reload the page", or the way back from Keycloak, where one has signed in.
Return ==
  /\ screen \in {"failed", "away"}
  /\ screen' = "splash"
  /\ alive' = TRUE
  /\ UNCHANGED <<roles, granted, changes>>

\* updateToken(): a token that expires soon is exchanged for a new one.  r are
\* the roles after it.
Refreshed(r) ==
  /\ alive \/ ~KeycloakEnabled
  /\ r \in {roles, granted}
  /\ ~KeycloakEnabled => r = roles
  /\ roles' = r
  /\ UNCHANGED <<screen, account>>

\* It fails: Keycloak's login page replaces this one.
LoginAgain ==
  /\ KeycloakEnabled /\ ~alive
  /\ screen' = "away"
  /\ UNCHANGED <<roles, account>>

\* An administrator of the realm changes the account or ends its session.
AccountChanges ==
  /\ changes < MaxChanges /\ changes' = changes + 1
  /\ \/ granted' \in {{}, {Editor}, {Admin}} \ {granted} /\ UNCHANGED alive
     \/ alive /\ alive' = FALSE /\ UNCHANGED granted
  /\ UNCHANGED <<screen, roles>>

=============================================================================
