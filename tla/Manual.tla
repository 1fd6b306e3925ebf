------------------------------- MODULE Manual --------------------------------
(***************************************************************************)
(* ModulesService and ManualService: modules, the documents of the user    *)
(* manual in them, and who may publish what.  As everywhere, a handler     *)
(* looks something up and writes with a later query; the unique indexes on *)
(* Module.slug and FeatureDocument.[moduleId, slug] refuse what a lookup   *)
(* came too early for.  The changelog that listChangelog reads is written  *)
(* by SystemUpdates.                                                       *)
(***************************************************************************)
EXTENDS Naturals, FiniteSets

CONSTANTS
  Editors, PermsOf,          \* the users of a run and their permissions
  ModuleIds, DocIds, Calls,
  Slugs,                     \* of modules
  Titles, DocSlugs,
  SlugOf,                    \* slugify
  EmptySlug,                 \* what it makes of a title without a letter or digit it keeps
  Contents, Texts,           \* contentJson and contentText
  Terms,                     \* what may be searched for,
  Holding,                   \* and the titles and texts that contain each
  None, Omitted,
  SeedModules,               \* the modules at the start
  Requests,                  \* bound: what the clients of a run send
  MaxInFlight,               \* bound: calls being handled at the same time
  MaxFailed                  \* bound: calls that fail for a reason outside the code

VARIABLES
  module,                    \* the Module table
  doc,                       \* the FeatureDocument table
  pc,                        \* how far each call has come
  args,                      \* what each call was asked
  seen                       \* the rows each call has read

vars == <<module, doc, pc, args, seen>>

----------------------------------------------------------------------------
ModuleRow == [ slug : Slugs, active : BOOLEAN ]

NoModule == [ slug |-> None, active |-> FALSE ]

DocRow == [ module : ModuleIds, slug : DocSlugs, title : Titles, json : Contents,
            text : Texts, status : { "DRAFT", "PUBLISHED" }, publishedAt : BOOLEAN ]

NoDoc == [ module |-> None, slug |-> None, title |-> None, json |-> None,
           text |-> None, status |-> "NONE", publishedAt |-> FALSE ]

NothingSeen == [ module |-> None, slug |-> None, doc |-> NoDoc ]

\* A new document needs contentJson and contentText; an update may give either
\* without the other, and its text need not be the text of its content.
Request ==
  [ op : {"createModule"}, by : Editors, slug : Slugs ]
  \cup [ op : {"updateModule"}, by : Editors, module : ModuleIds,
         slug : Slugs \cup {Omitted}, active : BOOLEAN \cup {Omitted} ]
  \cup [ op : {"removeModule"}, by : Editors, module : ModuleIds ]
  \cup [ op : {"createDoc"}, by : Editors, key : ModuleIds \cup Slugs, title : Titles,
         slug : (DocSlugs \ {EmptySlug}) \cup {Omitted}, json : Contents, text : Texts ]
  \cup [ op : {"updateDoc"}, by : Editors, doc : DocIds, title : Titles \cup {Omitted},
         json : Contents \cup {Omitted}, text : Texts \cup {Omitted} ]
  \cup [ op : {"publishDoc", "unpublishDoc"}, by : Editors, doc : DocIds ]

NoRequest == [ op |-> "none" ]

\* The @Permissions of the routes.
Required ==
  [ createModule |-> "MODULE_MANAGE", updateModule |-> "MODULE_MANAGE",
    removeModule |-> "MODULE_MANAGE",
    createDoc    |-> "MANUAL_EDIT",    updateDoc    |-> "MANUAL_EDIT",
    publishDoc   |-> "MANUAL_PUBLISH", unpublishDoc |-> "MANUAL_PUBLISH" ]

\* The seed upserts modules by slug.  The id of a module may be a slug as well:
\* the DTOs let a slug be any [a-z0-9-]+, which a cuid is.
ASSUME ManualAssumption ==
  /\ None \notin ModuleIds \cup Slugs
  /\ SlugOf \in [Titles -> DocSlugs]
  /\ Holding \in [Terms -> SUBSET (Titles \cup Texts)]
  /\ SeedModules \in [ModuleIds -> ModuleRow \cup {NoModule}]
  /\ \A m, n \in ModuleIds :
       SeedModules[m] # NoModule /\ SeedModules[m].slug = SeedModules[n].slug => m = n
  /\ Requests \subseteq Request
  /\ MaxInFlight \in Nat \ {0}
  /\ MaxFailed \in Nat

----------------------------------------------------------------------------
ModuleExists(m) == module[m] # NoModule

DocExists(d) == doc[d] # NoDoc

\* byIdOrSlug and resolveModule take the first of these that the database returns;
\* switched-off modules are found too.
Resolved(key) == { m \in ModuleIds : ModuleExists(m) /\ key \in {m, module[m].slug} }

SlugTaken(slug, but) == \E m \in ModuleIds \ {but} : ModuleExists(m) /\ module[m].slug = slug

DocAt(m, slug) == { d \in DocIds : DocExists(d) /\ doc[d].module = m /\ doc[d].slug = slug }

\* What getDoc may show, drafts as well.
FoundDoc(key, slug) == UNION { DocAt(m, slug) : m \in Resolved(key) }

\* What search finds; it answers with twenty of these at most, in no stated order.
Matching(q) ==
  { d \in DocIds : /\ DocExists(d) /\ doc[d].status = "PUBLISHED"
                   /\ doc[d].title \in Holding[q] \/ doc[d].text \in Holding[q] }

----------------------------------------------------------------------------
Init ==
  /\ module = SeedModules
  /\ doc = [d \in DocIds |-> NoDoc]
  /\ pc = [c \in Calls |-> "idle"]
  /\ args = [c \in Calls |-> NoRequest]
  /\ seen = [c \in Calls |-> NothingSeen]

Running == { "started", "read", "checked" }

InFlight == { c \in Calls : pc[c] \in Running }

At(c, where, op) == pc[c] = where /\ args[c].op = op

Goto(c, to) == pc' = [pc EXCEPT ![c] = to]

Answer(c, how) ==
  /\ Goto(c, how)
  /\ seen' = [seen EXCEPT ![c] = NothingSeen]

Refuse(c) == Answer(c, "refused") /\ UNCHANGED <<module, doc, args>>

Start(c, a) ==
  /\ pc[c] = "idle"
  /\ Cardinality(InFlight) < MaxInFlight
  /\ Required[a.op] \in PermsOf[a.by]
  /\ Goto(c, "started")
  /\ args' = [args EXCEPT ![c] = a]
  /\ UNCHANGED <<module, doc, seen>>

Fail(c) ==
  /\ pc[c] \in Running
  /\ Cardinality({ k \in Calls : pc[k] = "failed" }) < MaxFailed
  /\ Answer(c, "failed")
  /\ UNCHANGED <<module, doc, args>>

----------------------------------------------------------------------------
(* Modules.                                                                *)

CheckModuleSlug(c) ==
  /\ At(c, "started", "createModule")
  /\ IF SlugTaken(args[c].slug, None)
       THEN Refuse(c)
       ELSE Goto(c, "checked") /\ UNCHANGED <<module, doc, args, seen>>

\* The index of the table: whether a row with this slug may be written now.
SlugFree(slug, but) == ~SlugTaken(slug, but)

InsertModule(c) == LET slug == args[c].slug IN
  /\ At(c, "checked", "createModule")
  /\ IF SlugFree(slug, None)
       THEN \E m \in ModuleIds :
              /\ ~ModuleExists(m)
              /\ module' = [module EXCEPT ![m] = [ slug |-> slug, active |-> TRUE ]]
              /\ Answer(c, "done")
              /\ UNCHANGED <<doc, args>>
       ELSE Refuse(c)

\* update and remove; a slug given that differs from the row's is looked up.
ReadModule(c) == LET a == args[c] IN
  /\ pc[c] = "started" /\ a.op \in {"updateModule", "removeModule"}
  /\ IF ModuleExists(a.module)
       THEN /\ Goto(c, IF a.op = "updateModule" /\ a.slug \notin {Omitted, module[a.module].slug}
                         THEN "read" ELSE "checked")
            /\ UNCHANGED <<module, doc, args, seen>>
       ELSE Refuse(c)

CheckNewSlug(c) ==
  /\ At(c, "read", "updateModule")
  /\ IF SlugTaken(args[c].slug, None)
       THEN Refuse(c)
       ELSE Goto(c, "checked") /\ UNCHANGED <<module, doc, args, seen>>

\* data: dto, so what is not given stays.
WriteModule(c) ==
  LET a == args[c]
      now == module[a.module]
      slug == IF a.slug = Omitted THEN now.slug ELSE a.slug
  IN
  /\ At(c, "checked", "updateModule")
  /\ IF SlugFree(slug, a.module)
       THEN /\ module' = [module EXCEPT ![a.module] =
                 [ slug |-> slug, active |-> IF a.active = Omitted THEN now.active ELSE a.active ]]
            /\ Answer(c, "done")
            /\ UNCHANGED <<doc, args>>
       ELSE Refuse(c)

RemoveModule(c) ==
  /\ At(c, "checked", "removeModule")
  /\ module' = [module EXCEPT ![args[c].module].active = FALSE]
  /\ Answer(c, "done")
  /\ UNCHANGED <<doc, args>>

----------------------------------------------------------------------------
(* Documents.                                                              *)

SlugOfNew(a) == IF a.slug = Omitted THEN SlugOf[a.title] ELSE a.slug

ResolveModule(c) == LET a == args[c] IN
  /\ At(c, "started", "createDoc")
  /\ IF Resolved(a.key) = {}
       THEN Refuse(c)
       ELSE /\ Goto(c, "read")
            /\ \E m \in Resolved(a.key) :
                 seen' = [seen EXCEPT ![c].module = m, ![c].slug = SlugOfNew(a)]
            /\ UNCHANGED <<module, doc, args>>

CheckDocSlug(c) ==
  /\ At(c, "read", "createDoc")
  /\ IF DocAt(seen[c].module, seen[c].slug) # {}
       THEN Refuse(c)
       ELSE Goto(c, "checked") /\ UNCHANGED <<module, doc, args, seen>>

\* Mutant: @@unique([moduleId, slug]) is not in the schema.
DocSlugAlwaysFree(m, slug) == m \in ModuleIds

\* The unique index.
DocSlugFree(m, slug) == DocAt(m, slug) = {}

InsertDoc(c) == LET a == args[c] IN
  /\ At(c, "checked", "createDoc")
  /\ IF DocSlugFree(seen[c].module, seen[c].slug)
       THEN \E d \in DocIds :
              /\ ~DocExists(d)
              /\ doc' = [doc EXCEPT ![d] =
                   [ module |-> seen[c].module, slug |-> seen[c].slug, title |-> a.title,
                     json |-> a.json, text |-> a.text, status |-> "DRAFT",
                     publishedAt |-> FALSE ]]
              /\ Answer(c, "done")
              /\ UNCHANGED <<module, args>>
       ELSE Refuse(c)

\* updateDoc, publishDoc, unpublishDoc: the row is there.
ReadDoc(c) == LET a == args[c] IN
  /\ pc[c] = "started" /\ a.op \in {"updateDoc", "publishDoc", "unpublishDoc"}
  /\ IF DocExists(a.doc)
       THEN /\ Goto(c, "checked")
            /\ seen' = [seen EXCEPT ![c].doc = doc[a.doc]]
            /\ UNCHANGED <<module, doc, args>>
       ELSE Refuse(c)

\* Mutant: the whole row is saved, with the fields that are not given as read.
EditedAsRead(c, now, a) ==
  [seen[c].doc EXCEPT !.title = IF a.title = Omitted THEN seen[c].doc.title ELSE a.title,
                      !.json = IF a.json = Omitted THEN seen[c].doc.json ELSE a.json,
                      !.text = IF a.text = Omitted THEN seen[c].doc.text ELSE a.text]

\* Mutant: contentText defaults to the text read.
EditedOldText(c, now, a) ==
  [now EXCEPT !.title = IF a.title = Omitted THEN now.title ELSE a.title,
              !.json = IF a.json = Omitted THEN now.json ELSE a.json,
              !.text = IF a.text = Omitted THEN seen[c].doc.text ELSE a.text]

\* Only what is given is written.
Edited(c, now, a) ==
  [now EXCEPT !.title = IF a.title = Omitted THEN now.title ELSE a.title,
              !.json = IF a.json = Omitted THEN now.json ELSE a.json,
              !.text = IF a.text = Omitted THEN now.text ELSE a.text]

EditDoc(c) == LET a == args[c] IN
  /\ At(c, "checked", "updateDoc")
  /\ doc' = [doc EXCEPT ![a.doc] = Edited(c, doc[a.doc], a)]
  /\ Answer(c, "done")
  /\ UNCHANGED <<module, args>>

PublishDoc(c) ==
  /\ At(c, "checked", "publishDoc")
  /\ doc' = [doc EXCEPT ![args[c].doc].status = "PUBLISHED", ![args[c].doc].publishedAt = TRUE]
  /\ Answer(c, "done")
  /\ UNCHANGED <<module, args>>

\* publishedAt stays.
UnpublishDoc(c) ==
  /\ At(c, "checked", "unpublishDoc")
  /\ doc' = [doc EXCEPT ![args[c].doc].status = "DRAFT"]
  /\ Answer(c, "done")
  /\ UNCHANGED <<module, args>>

Step(c) ==
  \/ CheckModuleSlug(c)
  \/ InsertModule(c)
  \/ ReadModule(c)
  \/ CheckNewSlug(c)
  \/ WriteModule(c)
  \/ RemoveModule(c)
  \/ ResolveModule(c)
  \/ CheckDocSlug(c)
  \/ InsertDoc(c)
  \/ ReadDoc(c)
  \/ EditDoc(c)
  \/ PublishDoc(c)
  \/ UnpublishDoc(c)

Next ==
  \/ \E c \in Calls, a \in Requests : Start(c, a)
  \/ \E c \in Calls : Step(c) \/ Fail(c)

Spec == Init /\ [][Next]_vars

----------------------------------------------------------------------------
(* Properties.                                                             *)

TypeOK ==
  /\ module \in [ModuleIds -> ModuleRow \cup {NoModule}]
  /\ doc \in [DocIds -> DocRow \cup {NoDoc}]
  /\ pc \in [Calls -> Running \cup {"idle", "done", "refused", "failed"}]
  /\ args \in [Calls -> Requests \cup {NoRequest}]
  /\ seen \in [Calls -> [ module : ModuleIds \cup {None}, slug : DocSlugs \cup {None},
                          doc : DocRow \cup {NoDoc} ]]

\* A key that is the id of one module and the slug of another.
Ambiguous(key) ==
  /\ key \in ModuleIds /\ ModuleExists(key)
  /\ \E m \in ModuleIds \ {key} : ModuleExists(m) /\ module[m].slug = key

\* However creations and renames overlap, no two documents of a module share a
\* slug, and GET /modules/:idOrSlug/docs/:docSlug shows a document, and only it,
\* under the id and under the slug of its module.  Two kinds of documents are
\* left out: one with an empty slug, which no path names, and one whose module
\* is asked for by what is both its id or slug and the slug or id of another.
PathsAreUnique ==
  /\ \A d, e \in DocIds : d # e /\ DocExists(d) =>
       doc[d].module # doc[e].module \/ doc[d].slug # doc[e].slug
  /\ \A d \in DocIds : DocExists(d) /\ doc[d].slug # EmptySlug =>
       \A key \in { doc[d].module, module[doc[d].module].slug } :
         ~Ambiguous(key) => FoundDoc(key, doc[d].slug) = {d}

\* Of calls that overlap, an updateDoc changes what search finds only through the
\* title or the text it was given: a published document is lost to a term only by
\* an answer that withdraws it or gives a new title or text for one that held the
\* term, and found under one more only by an answer that publishes it or gives a
\* title or text that holds the term.  No update brings words back that a later
\* one has replaced.
SearchFollowsEdits ==
  [][\A d \in DocIds, q \in Terms :
       /\ d \in Matching(q) /\ d \notin Matching(q)' =>
            \E c \in Calls : LET a == args[c] IN
              /\ pc[c] = "checked" /\ pc'[c] = "done" /\ a \in Requests
              /\ \/ a.op = "unpublishDoc" /\ a.doc = d
                 \/ /\ a.op = "updateDoc" /\ a.doc = d
                    /\ \/ a.title # Omitted /\ doc[d].title \in Holding[q]
                       \/ a.text # Omitted /\ doc[d].text \in Holding[q]
       /\ d \notin Matching(q) /\ d \in Matching(q)' =>
            \E c \in Calls : LET a == args[c] IN
              /\ pc[c] = "checked" /\ pc'[c] = "done" /\ a \in Requests
              /\ \/ a.op = "publishDoc" /\ a.doc = d
                 \/ /\ a.op = "updateDoc" /\ a.doc = d
                    /\ a.title \in Holding[q] \/ a.text \in Holding[q]]_vars

\* MANUAL_EDIT and MANUAL_PUBLISH are different permissions: a document is
\* published or taken back only by the answer to a caller who has the second,
\* whatever edits overlap it, and what has been published once stays dated.
PublishersDecide ==
  [][\A d \in DocIds : DocExists(d) =>
       /\ doc'[d].status # doc[d].status =>
            \E c \in Calls : /\ pc[c] = "checked" /\ pc'[c] = "done"
                             /\ args[c].op \in {"publishDoc", "unpublishDoc"}
                             /\ args[c].doc = d
                             /\ "MANUAL_PUBLISH" \in PermsOf[args[c].by]
       /\ doc[d].publishedAt => doc'[d].publishedAt
       /\ doc'[d].status = "PUBLISHED" => doc'[d].publishedAt]_vars
=============================================================================
