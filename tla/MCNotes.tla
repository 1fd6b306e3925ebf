------------------------------- MODULE MCNotes -------------------------------
(* Notes and the clients' lists for TLC: one user per seeded role          *)
(* (prisma/seed.ts).                                                       *)
EXTENDS BoundedNotes, TLC

CONSTANTS adm, dev, pm, n1, n2

MCUsers == {adm, dev, pm}

MCNotes == {n1, n2}

MCToggled == {dev}

MCRoleOf == (adm :> "ADMIN") @@ (dev :> "DEVELOPER") @@ (pm :> "PROJECT_MANAGER")

\* ROLE_PERMISSIONS of the seed, the permissions this service asks for.
MCPermsOf ==
  (adm :> { "NOTE_CREATE", "NOTE_SKIP_APPROVAL", "NOTE_APPROVE_REJECT", "NOTE_DELETE" }) @@
  (dev :> { "NOTE_CREATE" }) @@
  (pm  :> { "NOTE_CREATE" })

To(m, r, q) == [ mentions |-> m, recipients |-> r, cites |-> q ]

\* A note for nobody, and one that mentions a recipient too (and is refused when
\* its author is among them).
Plain == { To({}, {}, {}), To({dev}, {dev, adm}, {}) }

\* One that cites.
Citing == Plain \cup { To({}, {pm}, {n1}) }

\* One for two readers and one that reaches an approver.
Crossing == { To({dev}, {dev, pm}, {}), To({pm}, {adm}, {}) }

MCBodies == Citing \cup Crossing

Symmetry == Permutations(Calls)

\* Three at once; two, one of which may fail, while a reader is switched off and
\* on; four on one note, three at a time; four in a row on two notes; three in a
\* row, one of which may die half-way; and three in a row that clients listen to.
MCSettings ==
  { Setting(3, 3, FALSE, {},    {n1, n2}, Citing, FALSE),
    Setting(2, 2, TRUE,  {dev}, {n1, n2}, Citing, FALSE),
    Setting(4, 3, FALSE, {},    {n1},     Plain,  FALSE),
    Setting(4, 1, FALSE, {},    {n1, n2}, Citing, FALSE),
    Setting(3, 1, TRUE,  {},    {n1, n2}, Citing, FALSE),
    Setting(3, 1, FALSE, {dev}, {n1},     Plain \cup Crossing, TRUE) }

MCFair == { Setting(3, 2, TRUE, {}, {n1}, Plain, FALSE) }
=============================================================================
