------------------------------- MODULE Routes -------------------------------
(***************************************************************************)
(* The HTTP routes with what their decorators tell the guards, and the     *)
(* rules CASL builds for a role.                                           *)
(*                                                                         *)
(* A route is a record: isPublic (@Public), asks (the pairs of action and  *)
(* subject its @CheckPolicies handlers ask the ability for), skips (the    *)
(* throttlers whose metadata says to skip), strict (it has a limit of its  *)
(* own for the global throttler) and changes (it is not a GET).            *)
(***************************************************************************)

CONSTANTS SuperAdmin, ContentManager, SalesManager

ASSUME RolesAssumption ==
    /\ SuperAdmin # ContentManager
    /\ SuperAdmin # SalesManager
    /\ ContentManager # SalesManager

Roles == {SuperAdmin, ContentManager, SalesManager}

Throttlers == {"global", "login"}

\* Decorators of a handler override those of its class (getAllAndOverride); asks, skips
\* and isPublic are what is left then.
Handlers(controller, names, changes, isPublic, asks, skips) ==
    [controller : {controller}, handler : names, changes : {changes}, isPublic : {isPublic},
     asks : {asks}, skips : {skips}, strict : {FALSE}]

\* Protected, asking for one action on one subject, exempt from the login throttler.
Protected(controller, names, changes, action, subject) ==
    Handlers(controller, names, changes, FALSE, {<<action, subject>>}, {"login"})

\* @SkipThrottle() without an argument names the throttler "default", which there is not.
AppRoutes == Handlers("app", {"getRoot", "getHealth"}, FALSE, TRUE, {}, {"default"})

\* The two routes the login throttler is there for.
CappedAuthRoutes == Handlers("auth", {"login", "refresh"}, TRUE, TRUE, {}, {})

OtherAuthRoutes ==
    Handlers("auth", {"logout"}, TRUE, TRUE, {}, {"login"})
        \cup Handlers("auth", {"me"}, FALSE, FALSE, {}, {"login"})

\* The class asks; no handler says otherwise.
UserRoutes ==
    Protected("users", {"findAll", "findOne"}, FALSE, "manage", "User")
        \cup Protected("users", {"create", "update", "remove", "restore"}, TRUE, "manage", "User")

PageRoutes ==
    Protected("pages", {"findAll", "findOne"}, FALSE, "read", "Page")
        \cup Protected("pages", {"create"}, TRUE, "create", "Page")
        \cup Protected("pages", {"updateName", "replaceSections"}, TRUE, "update", "Page")
        \cup Protected("pages", {"publish"}, TRUE, "publish", "Page")
        \cup Protected("pages", {"archive"}, TRUE, "archive", "Page")

\* The search has a limit of its own.
SearchRoutes ==
    {[route EXCEPT !.strict = TRUE] :
         route \in Protected("news", {"search"}, FALSE, "read", "NewsArticle")}

ArticleRoutes ==
    Protected("news", {"findAll", "findOne", "preview"}, FALSE, "read", "NewsArticle")
        \cup Protected("news", {"getAdBannerCode"}, FALSE, "update", "NewsArticle")
        \cup Protected("news", {"create"}, TRUE, "create", "NewsArticle")
        \cup Protected("news", {"update", "revertToDraft"}, TRUE, "update", "NewsArticle")
        \cup Protected("news", {"softDelete"}, TRUE, "delete", "NewsArticle")
        \cup Protected("news", {"publish"}, TRUE, "publish", "NewsArticle")
        \cup Protected("news", {"archive"}, TRUE, "archive", "NewsArticle")

\* Variant: the handlers that change cards ask for no more than the one that lists them.
CardRoutesReading ==
    Protected("news", {"findCards"}, FALSE, "read", "NewsArticle")
        \cup Protected("news", {"createCard", "updateCard", "deleteCard", "reorderCards"}, TRUE,
                       "read", "NewsArticle")

CardRoutes ==
    Protected("news", {"findCards"}, FALSE, "read", "NewsArticle")
        \cup Protected("news", {"createCard", "updateCard", "deleteCard", "reorderCards"}, TRUE,
                       "update", "NewsArticle")

MediaRoutes == Protected("media", {"upload"}, TRUE, "create", "MediaAsset")

\* Variant: the controller's @SkipThrottle does not name the throttler.
AuditRoutesUnskipped ==
    Handlers("audit", {"findAll"}, FALSE, FALSE, {<<"manage", "AuditLog">>}, {"default"})

AuditRoutes == Protected("audit", {"findAll"}, FALSE, "manage", "AuditLog")

PortalRoutes ==
    Handlers("public", {"findPage", "findNewsList", "findNewsBySlug"}, FALSE, TRUE, {}, {"login"})

Routes ==
    AppRoutes \cup CappedAuthRoutes \cup OtherAuthRoutes \cup UserRoutes \cup PageRoutes
        \cup SearchRoutes \cup ArticleRoutes \cup CardRoutes \cup MediaRoutes \cup AuditRoutes
        \cup PortalRoutes

------------------------------------------------------------------------------
(* CaslAbilityFactory.buildAbility. *)

\* Variant: content managers may not upload.
RulesWithoutMedia(role) ==
    CASE role = SuperAdmin -> {<<"manage", "all">>}
      [] role = ContentManager ->
             ({"manage"} \X {"NewsArticle", "Page", "PageSection", "Rubric"})
                 \cup ({"read"} \X {"User", "Company", "AuditLog", "MediaAsset"})
      [] role = SalesManager ->
             ({"manage"} \X {"Company", "Purchase"})
                 \cup ({"read"} \X {"NewsArticle", "Page", "Rubric", "User"})

Rules(role) ==
    CASE role = SuperAdmin -> {<<"manage", "all">>}
      [] role = ContentManager ->
             ({"manage"} \X {"NewsArticle", "Page", "PageSection", "Rubric"})
                 \cup {<<"create", "MediaAsset">>}
                 \cup ({"read"} \X {"User", "Company", "AuditLog"})
      [] role = SalesManager ->
             ({"manage"} \X {"Company", "Purchase"})
                 \cup ({"read"} \X {"NewsArticle", "Page", "Rubric", "User"})

\* ability.can(action, subject): "manage" stands for every action, "all" for every
\* subject; who asks for "manage" needs just that.
Can(role, action, subject) ==
    \E rule \in Rules(role) : rule[1] \in {action, "manage"} /\ rule[2] \in {subject, "all"}

------------------------------------------------------------------------------
(* What the README says (README.md:455-545, :569-572); properties only. *)

\* What each controller's routes are about.
Subject == [users |-> "User", pages |-> "Page", news |-> "NewsArticle",
            media |-> "MediaAsset", audit |-> "AuditLog"]

Managed ==
    [role \in {ContentManager, SalesManager} |->
        IF role = ContentManager THEN {"Page", "NewsArticle", "Rubric", "MediaAsset"}
        ELSE {"Company", "Purchase"}]

Readable ==
    [role \in {ContentManager, SalesManager} |->
        IF role = ContentManager THEN {"User", "AuditLog"}
        ELSE {"Page", "NewsArticle", "User", "AuditLog"}]

DocumentedPublic(route) ==
    route.controller \in {"app", "public"} \/ route.handler \in {"login", "refresh", "logout"}

\* Its table of roles, and "SUPER_ADMIN only" above the routes of the users.
Documented(role, route) ==
    \/ DocumentedPublic(route)
    \/ route.controller = "auth"
    \/ role = SuperAdmin
    \/ /\ route.controller # "users"
       /\ Subject[route.controller] \in
              Managed[role] \cup (IF route.changes THEN {} ELSE Readable[role])

\* Where the code is stricter than the README: the audit log is asked for with "manage",
\* the banner code of an article, which is no route of the README, with "update".
StricterThanDocumented(route) ==
    route.controller = "audit" \/ route.handler = "getAdBannerCode"
==============================================================================
