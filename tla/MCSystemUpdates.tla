--------------------------- MODULE MCSystemUpdates ---------------------------
(* SystemUpdates for TLC: one user per seeded role (prisma/seed.ts).       *)
EXTENDS BoundedSystemUpdates, TLC

CONSTANTS adm, dev, pm, m1

MCUsers == {adm, dev, pm}

MCModules == {m1}

\* One administrator and one requester, for the longer runs.
MCPair == {adm, pm}

MCToggled == {adm, m1}

MCReviewRoutes == Review \cup { "create", "complete" }

MCRoleOf == (adm :> "ADMIN") @@ (dev :> "DEVELOPER") @@ (pm :> "PROJECT_MANAGER")

\* ROLE_PERMISSIONS of the seed, the permissions this service asks for.
MCPermsOf ==
  (adm :> { "SYSTEM_UPDATE_CREATE", "SYSTEM_UPDATE_REVIEW_AS_DEV",
            "SYSTEM_UPDATE_REVIEW_AS_ADMIN", "SYSTEM_UPDATE_DELETE" }) @@
  (dev :> { "SYSTEM_UPDATE_CREATE", "SYSTEM_UPDATE_REVIEW_AS_DEV" }) @@
  (pm  :> { "SYSTEM_UPDATE_CREATE" })

Symmetry == Permutations(Calls)

----------------------------------------------------------------------------
(* The settings of the runs.                                               *)

\* Three at once with a failure; two of three while an administrator is switched
\* off and on, two while the module is too; four, two at a time; four in a row,
\* one of which may die half-way.
MCSettings ==
  { Setting(3, 3, TRUE, {}), Setting(3, 2, FALSE, {adm}), Setting(2, 2, TRUE, {adm, m1}),
    Setting(4, 2, FALSE, {}), Setting(4, 1, TRUE, {}) }

MCFair == { Setting(3, 2, TRUE, {}) }

MCRace == { Setting(3, 2, FALSE, {}) }
==============================================================================
