------------------------------ MODULE MCManual -------------------------------
(* Manual for TLC: the seeded module, an administrator and a developer.    *)
EXTENDS Manual, TLC

CONSTANTS adm, dev, m1, m2, d1, d2, sGlobal, sOther, tNotes, tNOTES, tInbox, tDots,
          uNotes, uInbox, uEmpty, x1, x2, w1, w2, qNotes, qInbox, qFirst

MCEditors == {adm, dev}

MCPermsOf == (adm :> { "MODULE_MANAGE", "MANUAL_EDIT", "MANUAL_PUBLISH" }) @@ (dev :> { "MANUAL_EDIT" })

MCModuleIds == {m1, m2}
MCDocIds == {d1, d2}
\* A module may be given the id of another as its slug.
MCSlugs == {sGlobal, sOther, m2}
MCTitles == {tNotes, tNOTES, tInbox, tDots}
MCDocSlugs == {uNotes, uInbox, uEmpty}

\* "Notes" and "NOTES" have one slug, and "..." has an empty one.
MCSlugOf == (tNotes :> uNotes) @@ (tNOTES :> uNotes) @@ (tInbox :> uInbox) @@ (tDots :> uEmpty)

\* The last is a word of the first text and of nothing else.
MCHolding ==
  (qNotes :> {tNotes, tNOTES, w1}) @@ (qInbox :> {tInbox, w2}) @@ (qFirst :> {w1})

MCSeedModules == (m1 :> [ slug |-> sGlobal, active |-> TRUE ]) @@ (m2 :> NoModule)

CreateModule(s) == [ op |-> "createModule", by |-> adm, slug |-> s ]
Move(m, s, on) == [ op |-> "updateModule", by |-> adm, module |-> m, slug |-> s, active |-> on ]
Drop(m) == [ op |-> "removeModule", by |-> adm, module |-> m ]
Write(x, key, t, s) ==
  [ op |-> "createDoc", by |-> x, key |-> key, title |-> t, slug |-> s, json |-> x1, text |-> w1 ]
Edit(d, t, x, w) ==
  [ op |-> "updateDoc", by |-> dev, doc |-> d, title |-> t, json |-> x, text |-> w ]
Show(op, x, d) == [ op |-> op, by |-> x, doc |-> d ]

MCRequests ==
  { CreateModule(sOther), Move(m1, sOther, Omitted), Move(m1, m2, TRUE), Move(m2, sGlobal, FALSE), Drop(m1),
    Write(dev, sGlobal, tNotes, Omitted), Write(adm, m1, tNOTES, Omitted), Write(dev, m2, tDots, Omitted),
    Write(dev, sOther, tNotes, uInbox),
    Edit(d1, tInbox, Omitted, Omitted), Edit(d1, Omitted, x2, w2), Edit(d2, tInbox, x2, Omitted),
    Show("publishDoc", adm, d1), Show("publishDoc", dev, d1), Show("unpublishDoc", adm, d1) }

Symmetry == Permutations(Calls)
=============================================================================
