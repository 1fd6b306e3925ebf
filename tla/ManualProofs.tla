----------------------------- MODULE ManualProofs -----------------------------
(***************************************************************************)
(* Paths, the search and the right to publish, for any modules, documents, *)
(* editors and overlapping calls.                                          *)
(***************************************************************************)
EXTENDS Manual, TLAPS

\* No two modules share a slug, no two documents of a module do, and a document
\* stands in a module.
TablesKeyed ==
  /\ \A m, n \in ModuleIds :
       ModuleExists(m) /\ ModuleExists(n) /\ module[m].slug = module[n].slug => m = n
  /\ \A d \in DocIds : DocExists(d) => ModuleExists(doc[d].module)
  /\ \A d, e \in DocIds :
       /\ DocExists(d) /\ DocExists(e)
       /\ doc[d].module = doc[e].module /\ doc[d].slug = doc[e].slug
       => d = e

\* What is published has a date.
PublishedDated == \A d \in DocIds : doc[d].status = "PUBLISHED" => doc[d].publishedAt

\* What a call that is being handled may rely on: the guard has let it in, and
\* the rows it has looked up are there, for no row is ever removed.
Knows(c) ==
  /\ pc[c] \in Running => args[c] \in Requests /\ Required[args[c].op] \in PermsOf[args[c].by]
  /\ pc[c] \in {"read", "checked"} =>
       /\ args[c].op \in {"updateModule", "removeModule"} => ModuleExists(args[c].module)
       /\ args[c].op = "createDoc" =>
            /\ seen[c].module \in ModuleIds /\ ModuleExists(seen[c].module)
            /\ seen[c].slug \in DocSlugs
       /\ args[c].op \in {"updateDoc", "publishDoc", "unpublishDoc"} => DocExists(args[c].doc)

CallsKnow == \A c \in Calls : Knows(c)

IInv == TypeOK /\ TablesKeyed /\ PublishedDated /\ CallsKnow

RowsStay ==
  /\ \A m \in ModuleIds : ModuleExists(m) => ModuleExists(m)'
  /\ \A d \in DocIds : DocExists(d) => DocExists(d)'

----------------------------------------------------------------------------
(* Requests and rows.                                                      *)

\* The fields a request of each route has.
LEMMA RequestFields ==
  ASSUME NEW a \in Requests
  PROVE  /\ a.op = "createModule" => a.slug \in Slugs
         /\ a.op \in {"updateModule", "removeModule"} => a.module \in ModuleIds
         /\ a.op = "updateModule" => a.slug \in Slugs \cup {Omitted}
                                     /\ a.active \in BOOLEAN \cup {Omitted}
         /\ a.op = "createDoc" => /\ a.slug \in DocSlugs \cup {Omitted}
                                  /\ a.title \in Titles
                                  /\ a.json \in Contents /\ a.text \in Texts
         /\ a.op \in {"updateDoc", "publishDoc", "unpublishDoc"} => a.doc \in DocIds
         /\ a.op = "updateDoc" => /\ a.title \in Titles \cup {Omitted}
                                  /\ a.json \in Contents \cup {Omitted}
                                  /\ a.text \in Texts \cup {Omitted}
BY ManualAssumption DEF Request

\* A row that is there is one of the table's, and an absent one is not.
LEMMA RowsTyped ==
  ASSUME TypeOK
  PROVE  /\ \A m \in ModuleIds : ModuleExists(m) <=> module[m] \in ModuleRow
         /\ \A d \in DocIds : DocExists(d) <=> doc[d] \in DocRow
BY ManualAssumption DEF TypeOK, ModuleExists, DocExists, ModuleRow, NoModule, DocRow, NoDoc

\* Rows staying, a call that does not move knows what it knew.
LEMMA KnowledgeKept ==
  ASSUME TypeOK, RowsStay, NEW k \in Calls, Knows(k),
         pc'[k] = pc[k], args'[k] = args[k], seen'[k] = seen[k]
  PROVE  Knows(k)'
BY RequestFields DEF Knows, RowsStay, Running

\* A handler that ends: nothing is known of it any more.
LEMMA Ended ==
  ASSUME TypeOK, NEW c \in Calls, NEW how \in {"done", "refused", "failed"},
         Answer(c, how), args' = args
  PROVE  /\ pc' \in [Calls -> Running \cup {"idle", "done", "refused", "failed"}]
         /\ args' \in [Calls -> Requests \cup {NoRequest}]
         /\ seen' \in [Calls -> [ module : ModuleIds \cup {None}, slug : DocSlugs \cup {None},
                                  doc : DocRow \cup {NoDoc} ]]
         /\ \A k \in Calls \ {c} : pc'[k] = pc[k] /\ args'[k] = args[k] /\ seen'[k] = seen[k]
         /\ Knows(c)'
BY DEF TypeOK, Answer, Goto, Knows, Running, NothingSeen

\* A step of call c that leaves the tables alone.
LEMMA ReadingStep ==
  ASSUME IInv, NEW c \in Calls, UNCHANGED <<module, doc>>,
         pc' \in [Calls -> Running \cup {"idle", "done", "refused", "failed"}],
         args' \in [Calls -> Requests \cup {NoRequest}],
         seen' \in [Calls -> [ module : ModuleIds \cup {None}, slug : DocSlugs \cup {None},
                               doc : DocRow \cup {NoDoc} ]],
         \A k \in Calls \ {c} : pc'[k] = pc[k] /\ args'[k] = args[k] /\ seen'[k] = seen[k],
         Knows(c)'
  PROVE  IInv'
<1>1. TypeOK'
  BY DEF IInv, TypeOK
<1>2. TablesKeyed' /\ PublishedDated' /\ RowsStay
  BY DEF IInv, TablesKeyed, PublishedDated, RowsStay, ModuleExists, DocExists
<1>3. CallsKnow'
  BY <1>2, KnowledgeKept DEF IInv, CallsKnow
<1> QED BY <1>1, <1>2, <1>3 DEF IInv

\* A step that ends call c with a write: what is left to show is the tables.
LEMMA WritingStep ==
  ASSUME IInv, NEW c \in Calls, Answer(c, "done"), args' = args,
         module' \in [ModuleIds -> ModuleRow \cup {NoModule}],
         doc' \in [DocIds -> DocRow \cup {NoDoc}],
         RowsStay, TablesKeyed', PublishedDated'
  PROVE  IInv'
<1>1. TypeOK
  BY DEF IInv
<1>2. TypeOK' /\ Knows(c)'
  BY <1>1, Ended DEF TypeOK
<1>3. \A k \in Calls \ {c} : Knows(k)'
  BY <1>1, Ended, KnowledgeKept DEF IInv, CallsKnow
<1> QED BY <1>2, <1>3 DEF IInv, CallsKnow

\* A refusal or a failure writes nothing.
LEMMA RefusalKeeps ==
  ASSUME IInv, NEW c \in Calls, NEW how \in {"refused", "failed"},
         Answer(c, how), UNCHANGED <<module, doc, args>>
  PROVE  IInv'
BY Ended, ReadingStep DEF IInv

----------------------------------------------------------------------------
(* The steps.                                                              *)

\* Initially the seeded modules, no documents and no calls.
THEOREM InitEstablishes == Init => IInv
BY ManualAssumption
   DEF Init, IInv, TypeOK, TablesKeyed, PublishedDated, CallsKnow, Knows, Running,
       ModuleExists, DocExists, NoModule, NoDoc, NothingSeen

LEMMA StartKeeps ==
  ASSUME IInv, NEW c \in Calls, NEW a \in Requests, Start(c, a)
  PROVE  IInv'
<1>1. pc' \in [Calls -> Running \cup {"idle", "done", "refused", "failed"}]
      /\ args' \in [Calls -> Requests \cup {NoRequest}]
      /\ \A k \in Calls \ {c} : pc'[k] = pc[k] /\ args'[k] = args[k]
  BY DEF IInv, TypeOK, Start, Goto, Running
<1>2. Knows(c)'
  BY DEF IInv, TypeOK, Start, Goto, Knows
<1>3. UNCHANGED <<module, doc, seen>>
  BY DEF Start
<1> QED BY <1>1, <1>2, <1>3, ReadingStep DEF IInv, TypeOK

\* A lookup that lets the call go on.
LEMMA LookupStep ==
  ASSUME IInv, NEW c \in Calls, NEW to \in {"read", "checked"}, Goto(c, to),
         UNCHANGED <<module, doc, args>>, pc[c] \in Running,
         seen' \in [Calls -> [ module : ModuleIds \cup {None}, slug : DocSlugs \cup {None},
                               doc : DocRow \cup {NoDoc} ]],
         \A k \in Calls \ {c} : seen'[k] = seen[k],
         args[c].op \in {"updateModule", "removeModule"} => ModuleExists(args[c].module),
         args[c].op = "createDoc" => /\ seen'[c].module \in ModuleIds
                                     /\ module[seen'[c].module] # NoModule
                                     /\ seen'[c].slug \in DocSlugs,
         args[c].op \in {"updateDoc", "publishDoc", "unpublishDoc"} => DocExists(args[c].doc)
  PROVE  IInv'
<1>1. TypeOK /\ Knows(c)
  BY DEF IInv, CallsKnow
<1>2. pc' = [pc EXCEPT ![c] = to]
  BY DEF Goto
<1>3. pc' \in [Calls -> Running \cup {"idle", "done", "refused", "failed"}]
      /\ \A k \in Calls \ {c} : pc'[k] = pc[k]
  BY <1>1, <1>2 DEF TypeOK, Running
<1>4. Knows(c)'
  BY <1>1, <1>2 DEF Knows, TypeOK, ModuleExists, DocExists
<1> QED BY <1>1, <1>3, <1>4, ReadingStep DEF TypeOK

\* create and update of a module.
LEMMA ModuleLookupKeeps ==
  ASSUME IInv, NEW c \in Calls, CheckModuleSlug(c) \/ ReadModule(c) \/ CheckNewSlug(c)
  PROVE  IInv'
<1>1. CASE Refuse(c)
  BY <1>1, RefusalKeeps DEF Refuse
<1>2. CASE ~Refuse(c)
  <2>1. PICK to \in {"read", "checked"} : Goto(c, to) /\ UNCHANGED <<module, doc, args, seen>>
    BY <1>2 DEF CheckModuleSlug, ReadModule, CheckNewSlug
  <2>2. /\ pc[c] \in Running
        /\ args[c].op \in {"createModule", "updateModule", "removeModule"}
        /\ args[c].op # "createModule" => ModuleExists(args[c].module)
    BY <1>2 DEF CheckModuleSlug, ReadModule, CheckNewSlug, At, Running, IInv, CallsKnow, Knows
  <2> QED BY <2>1, <2>2, LookupStep DEF IInv, TypeOK
<1> QED BY <1>1, <1>2

\* createDoc keeps the module it has found and the slug it has made.
LEMMA ResolveModuleKeeps ==
  ASSUME IInv, NEW c \in Calls, ResolveModule(c)
  PROVE  IInv'
<1>1. CASE Refuse(c)
  BY <1>1, RefusalKeeps DEF Refuse
<1>2. CASE ~Refuse(c)
  <2>1. /\ pc[c] = "started" /\ args[c].op = "createDoc" /\ args[c] \in Requests
        /\ seen \in [Calls -> [ module : ModuleIds \cup {None}, slug : DocSlugs \cup {None},
                                doc : DocRow \cup {NoDoc} ]]
    BY DEF ResolveModule, At, IInv, TypeOK, CallsKnow, Knows, Running
  <2>2. SlugOfNew(args[c]) \in DocSlugs
    BY <2>1, RequestFields, ManualAssumption DEF SlugOfNew
  <2>3. PICK m \in ModuleIds :
          /\ ModuleExists(m)
          /\ seen' = [seen EXCEPT ![c].module = m, ![c].slug = SlugOfNew(args[c])]
    BY <1>2 DEF ResolveModule, Resolved
  <2>4. /\ seen' \in [Calls -> [ module : ModuleIds \cup {None}, slug : DocSlugs \cup {None},
                                  doc : DocRow \cup {NoDoc} ]]
        /\ \A k \in Calls \ {c} : seen'[k] = seen[k]
        /\ seen'[c].module = m /\ seen'[c].slug \in DocSlugs
    BY <2>1, <2>2, <2>3
  <2>5. Goto(c, "read") /\ UNCHANGED <<module, doc, args>>
    BY <1>2 DEF ResolveModule
  <2> QED BY <2>1, <2>3, <2>4, <2>5, LookupStep DEF ModuleExists, Running
<1> QED BY <1>1, <1>2

LEMMA CheckDocSlugKeeps ==
  ASSUME IInv, NEW c \in Calls, CheckDocSlug(c)
  PROVE  IInv'
<1>1. CASE Refuse(c)
  BY <1>1, RefusalKeeps DEF Refuse
<1>2. CASE ~Refuse(c)
  <2>1. Goto(c, "checked") /\ UNCHANGED <<module, doc, args, seen>>
    BY <1>2 DEF CheckDocSlug
  <2>2. /\ pc[c] = "read" /\ args[c].op = "createDoc"
        /\ seen[c].module \in ModuleIds /\ ModuleExists(seen[c].module)
        /\ seen[c].slug \in DocSlugs
    BY DEF CheckDocSlug, At, IInv, CallsKnow, Knows
  <2> QED BY <2>1, <2>2, LookupStep DEF IInv, TypeOK, ModuleExists, Running
<1> QED BY <1>1, <1>2

\* updateDoc, publishDoc and unpublishDoc.
LEMMA ReadDocKeeps ==
  ASSUME IInv, NEW c \in Calls, ReadDoc(c)
  PROVE  IInv'
<1>1. CASE Refuse(c)
  BY <1>1, RefusalKeeps DEF Refuse
<1>2. CASE ~Refuse(c)
  <2>1. /\ pc[c] = "started" /\ args[c] \in Requests
        /\ args[c].op \in {"updateDoc", "publishDoc", "unpublishDoc"}
        /\ DocExists(args[c].doc)
        /\ Goto(c, "checked") /\ UNCHANGED <<module, doc, args>>
        /\ seen' = [seen EXCEPT ![c].doc = doc[args[c].doc]]
    BY <1>2 DEF ReadDoc, At, IInv, CallsKnow, Knows, Running
  <2>2. doc[args[c].doc] \in DocRow
    BY <2>1, RequestFields, RowsTyped DEF IInv
  <2>3. /\ seen' \in [Calls -> [ module : ModuleIds \cup {None}, slug : DocSlugs \cup {None},
                                  doc : DocRow \cup {NoDoc} ]]
        /\ \A k \in Calls \ {c} : seen'[k] = seen[k]
    BY <2>1, <2>2 DEF IInv, TypeOK
  <2> QED BY <2>1, <2>3, LookupStep DEF Running
<1> QED BY <1>1, <1>2

\* The unique index refuses what the lookup came too early for.
LEMMA InsertModuleKeeps ==
  ASSUME IInv, NEW c \in Calls, InsertModule(c)
  PROVE  IInv'
<1>1. TypeOK /\ args[c] \in Requests /\ args[c].op = "createModule"
  BY DEF IInv, CallsKnow, Knows, Running, InsertModule, At
<1>2. CASE ~SlugFree(args[c].slug, None)
  BY <1>2, RefusalKeeps DEF InsertModule, Refuse
<1>3. CASE SlugFree(args[c].slug, None)
  <2>1. PICK m \in ModuleIds :
          /\ ~ModuleExists(m)
          /\ module' = [module EXCEPT ![m] = [ slug |-> args[c].slug, active |-> TRUE ]]
    BY <1>3 DEF InsertModule
  <2>2. Answer(c, "done") /\ UNCHANGED <<doc, args>>
    BY <1>3 DEF InsertModule
  <2>3. [ slug |-> args[c].slug, active |-> TRUE ] \in ModuleRow
    BY <1>1, RequestFields DEF ModuleRow
  <2>4. module' \in [ModuleIds -> ModuleRow \cup {NoModule}] /\ RowsStay
    BY <1>1, <2>1, <2>2, <2>3, RowsTyped DEF TypeOK, RowsStay, ModuleExists, DocExists
  <2>5. \A n \in ModuleIds : ModuleExists(n) => module[n].slug # args[c].slug
    BY <1>3, ManualAssumption DEF SlugFree, SlugTaken
  <2>6. TablesKeyed' /\ PublishedDated'
    BY <1>1, <2>1, <2>2, <2>4, <2>5, RowsTyped DEF IInv, TypeOK, TablesKeyed, PublishedDated, RowsStay,
         ModuleExists, DocExists
  <2> QED BY <1>1, <2>2, <2>4, <2>6, WritingStep DEF TypeOK
<1> QED BY <1>2, <1>3

\* update and remove: the row is there, and its slug stays or is a free one.
LEMMA ModuleChanged ==
  ASSUME IInv, NEW c \in Calls, Answer(c, "done"), UNCHANGED <<doc, args>>,
         NEW m \in ModuleIds, ModuleExists(m), NEW row \in ModuleRow,
         module' = [module EXCEPT ![m] = row], SlugFree(row.slug, m)
  PROVE  IInv'
<1>1. TypeOK
  BY DEF IInv
<1>2. module' \in [ModuleIds -> ModuleRow \cup {NoModule}] /\ RowsStay
  BY <1>1, RowsTyped, ManualAssumption
     DEF TypeOK, RowsStay, ModuleExists, DocExists, ModuleRow, NoModule
<1>3. \A n \in ModuleIds \ {m} : ModuleExists(n) => module[n].slug # row.slug
  BY DEF SlugFree, SlugTaken
<1>4. TablesKeyed' /\ PublishedDated'
  BY <1>1, <1>2, <1>3
     DEF IInv, TypeOK, TablesKeyed, PublishedDated, RowsStay, ModuleExists, DocExists
<1> QED BY <1>1, <1>2, <1>4, WritingStep DEF TypeOK

LEMMA WriteModuleKeeps ==
  ASSUME IInv, NEW c \in Calls, WriteModule(c)
  PROVE  IInv'
<1> DEFINE a == args[c]
           now == module[a.module]
           slug == IF a.slug = Omitted THEN now.slug ELSE a.slug
           row == [ slug |-> slug, active |-> IF a.active = Omitted THEN now.active ELSE a.active ]
<1>1. /\ a \in Requests /\ a.op = "updateModule"
      /\ a.module \in ModuleIds /\ ModuleExists(a.module) /\ now \in ModuleRow
  BY RequestFields, RowsTyped DEF IInv, CallsKnow, Knows, Running, WriteModule, At
<1>2. CASE ~SlugFree(slug, a.module)
  BY <1>2, RefusalKeeps DEF WriteModule, Refuse
<1>3. CASE SlugFree(slug, a.module)
  <2>1. row \in ModuleRow
    BY <1>1, RequestFields DEF ModuleRow
  <2>2. /\ Answer(c, "done") /\ UNCHANGED <<doc, args>>
        /\ module' = [module EXCEPT ![a.module] = row]
    BY <1>3 DEF WriteModule
  <2>3. row.slug = slug
    OBVIOUS
  <2> HIDE DEF row
  <2> QED BY <1>1, <1>3, <2>1, <2>2, <2>3, ModuleChanged
<1> QED BY <1>2, <1>3

LEMMA RemoveModuleKeeps ==
  ASSUME IInv, NEW c \in Calls, RemoveModule(c)
  PROVE  IInv'
<1> DEFINE m == args[c].module
           row == [module[m] EXCEPT !.active = FALSE]
<1>1. m \in ModuleIds /\ ModuleExists(m) /\ module[m] \in ModuleRow
  BY RequestFields, RowsTyped DEF IInv, CallsKnow, Knows, Running, RemoveModule, At
<1>2. row \in ModuleRow /\ row.slug = module[m].slug
  BY <1>1 DEF ModuleRow
<1>4. module' = [module EXCEPT ![m] = row]
  BY DEF RemoveModule
<1>5. SlugFree(row.slug, m)
  BY <1>1, <1>2 DEF IInv, TablesKeyed, SlugFree, SlugTaken
<1>6. Answer(c, "done") /\ UNCHANGED <<doc, args>>
  BY DEF RemoveModule
<1> HIDE DEF row
<1> QED BY <1>1, <1>2, <1>4, <1>5, <1>6, ModuleChanged

\* The unique index again; the new document is a draft.
LEMMA InsertDocKeeps ==
  ASSUME IInv, NEW c \in Calls, InsertDoc(c)
  PROVE  IInv'
<1>1. /\ TypeOK /\ args[c] \in Requests /\ args[c].op = "createDoc"
      /\ seen[c].module \in ModuleIds /\ ModuleExists(seen[c].module)
      /\ seen[c].slug \in DocSlugs
  BY DEF IInv, CallsKnow, Knows, Running, InsertDoc, At
<1>2. CASE ~DocSlugFree(seen[c].module, seen[c].slug)
  BY <1>2, RefusalKeeps DEF InsertDoc, Refuse
<1>3. CASE DocSlugFree(seen[c].module, seen[c].slug)
  <2> DEFINE row == [ module |-> seen[c].module, slug |-> seen[c].slug, title |-> args[c].title,
                      json |-> args[c].json, text |-> args[c].text, status |-> "DRAFT",
                      publishedAt |-> FALSE ]
  <2>1. PICK d \in DocIds : ~DocExists(d) /\ doc' = [doc EXCEPT ![d] = row]
    BY <1>3 DEF InsertDoc
  <2>2. Answer(c, "done") /\ UNCHANGED <<module, args>>
    BY <1>3 DEF InsertDoc
  <2>3. row \in DocRow
    BY <1>1, RequestFields DEF DocRow
  <2>4. doc' \in [DocIds -> DocRow \cup {NoDoc}] /\ RowsStay
    BY <1>1, <2>1, <2>2, <2>3 DEF TypeOK, RowsStay, ModuleExists, DocExists
  <2>5. \A e \in DocIds : DocExists(e) => doc[e].module # row.module \/ doc[e].slug # row.slug
    BY <1>3 DEF DocSlugFree, DocAt
  <2>6. ModuleExists(row.module) /\ row.status = "DRAFT"
    BY <1>1
  <2> HIDE DEF row
  <2>7. TablesKeyed' /\ PublishedDated'
    BY <1>1, <2>1, <2>2, <2>3, <2>5, <2>6
       DEF IInv, TypeOK, TablesKeyed, PublishedDated, ModuleExists, DocExists
  <2> QED BY <1>1, <2>2, <2>4, <2>7, WritingStep DEF TypeOK
<1> QED BY <1>2, <1>3

\* The three updates of a document leave it where it is.
LEMMA DocChanged ==
  ASSUME IInv, NEW c \in Calls, Answer(c, "done"), UNCHANGED <<module, args>>,
         NEW d \in DocIds, DocExists(d), NEW row \in DocRow,
         doc' = [doc EXCEPT ![d] = row],
         row.module = doc[d].module, row.slug = doc[d].slug,
         row.status = "PUBLISHED" => row.publishedAt
  PROVE  IInv'
<1>1. TypeOK
  BY DEF IInv
<1>2. doc' \in [DocIds -> DocRow \cup {NoDoc}] /\ RowsStay
  BY <1>1, RowsTyped, ManualAssumption DEF TypeOK, RowsStay, ModuleExists, DocExists, DocRow, NoDoc
<1>3. TablesKeyed' /\ PublishedDated'
  BY <1>1, <1>2
     DEF IInv, TypeOK, TablesKeyed, PublishedDated, RowsStay, ModuleExists, DocExists
<1> QED BY <1>1, <1>2, <1>3, WritingStep DEF TypeOK

LEMMA DocUpdatesKeep ==
  ASSUME IInv, NEW c \in Calls, EditDoc(c) \/ PublishDoc(c) \/ UnpublishDoc(c)
  PROVE  IInv'
<1> DEFINE d == args[c].doc
           row == doc'[d]
<1>1. /\ TypeOK /\ args[c] \in Requests
      /\ args[c].op \in {"updateDoc", "publishDoc", "unpublishDoc"}
      /\ d \in DocIds /\ DocExists(d) /\ doc[d] \in DocRow
      /\ doc[d].status = "PUBLISHED" => doc[d].publishedAt
  BY RequestFields, RowsTyped
     DEF IInv, PublishedDated, CallsKnow, Knows, Running, EditDoc, PublishDoc, UnpublishDoc, At
<1>2. Answer(c, "done") /\ UNCHANGED <<module, args>>
  BY DEF EditDoc, PublishDoc, UnpublishDoc
<1>3. /\ doc' = [doc EXCEPT ![d] = row] /\ row \in DocRow
      /\ row.module = doc[d].module /\ row.slug = doc[d].slug
      /\ row.status = "PUBLISHED" => row.publishedAt
  <2>1. CASE EditDoc(c)
    <3>1. args[c].op = "updateDoc"
      BY <2>1 DEF EditDoc, At
    <3>2. /\ doc' = [doc EXCEPT ![d] = Edited(c, doc[d], args[c])]
          /\ row = Edited(c, doc[d], args[c])
      BY <1>1, <2>1 DEF EditDoc, TypeOK
    <3>3. /\ args[c].title \in Titles \cup {Omitted}
          /\ args[c].json \in Contents \cup {Omitted}
          /\ args[c].text \in Texts \cup {Omitted}
      BY <1>1, <3>1, RequestFields
    <3>4. Edited(c, doc[d], args[c]) \in DocRow
      BY <1>1, <3>3 DEF Edited, DocRow
    <3>5. /\ Edited(c, doc[d], args[c]).module = doc[d].module
          /\ Edited(c, doc[d], args[c]).slug = doc[d].slug
          /\ Edited(c, doc[d], args[c]).status = doc[d].status
          /\ Edited(c, doc[d], args[c]).publishedAt = doc[d].publishedAt
      BY <1>1, <3>3 DEF Edited, DocRow
    <3> QED BY <1>1, <3>2, <3>4, <3>5
  <2>2. CASE PublishDoc(c)
    <3>1. /\ row = [doc[d] EXCEPT !.status = "PUBLISHED", !.publishedAt = TRUE]
          /\ doc' = [doc EXCEPT ![d] = row]
      BY <1>1, <2>2 DEF PublishDoc, TypeOK
    <3> QED BY <1>1, <3>1 DEF DocRow
  <2>3. CASE UnpublishDoc(c)
    <3>1. /\ row = [doc[d] EXCEPT !.status = "DRAFT"]
          /\ doc' = [doc EXCEPT ![d] = row]
      BY <1>1, <2>3 DEF UnpublishDoc, TypeOK
    <3> QED BY <1>1, <3>1 DEF DocRow
  <2> QED BY <2>1, <2>2, <2>3
<1> HIDE DEF row
<1> QED BY <1>1, <1>2, <1>3, DocChanged

----------------------------------------------------------------------------
(* Theorems.                                                               *)

\* Every step of every call keeps the invariant.
THEOREM StepKeeps == IInv /\ [Next]_vars => IInv'
<1> SUFFICES ASSUME IInv, [Next]_vars PROVE IInv'
  OBVIOUS
<1>1. ASSUME NEW c \in Calls, Step(c) PROVE IInv'
  BY <1>1, ModuleLookupKeeps, InsertModuleKeeps, WriteModuleKeeps, RemoveModuleKeeps,
     ResolveModuleKeeps, CheckDocSlugKeeps, InsertDocKeeps, ReadDocKeeps, DocUpdatesKeep DEF Step
<1>2. ASSUME NEW c \in Calls, Fail(c) PROVE IInv'
  BY <1>2, RefusalKeeps DEF Fail
<1>3. CASE UNCHANGED vars
  <2>1. TypeOK' /\ TablesKeyed' /\ PublishedDated' /\ RowsStay
    BY <1>3 DEF vars, IInv, TypeOK, TablesKeyed, PublishedDated, RowsStay, ModuleExists, DocExists
  <2>2. CallsKnow'
    BY <1>3, <2>1, KnowledgeKept DEF vars, IInv, CallsKnow
  <2> QED BY <2>1, <2>2 DEF IInv
<1> QED BY <1>1, <1>2, <1>3, StartKeeps DEF Next

\* The inductive invariant of the manual: typing, the keys of the two tables,
\* what is published being dated, and what the calls may rely on.
THEOREM InvariantHolds == Spec => []IInv
<1> QED BY InitEstablishes, StepKeeps, PTL DEF Spec

\* Every reachable state is well typed (all routes of ModulesController and
\* ManualController).
THEOREM TypeCorrect == Spec => []TypeOK
<1>1. IInv => TypeOK
  BY DEF IInv
<1> QED BY <1>1, InvariantHolds, PTL

\* A module whose id or slug the key is, and which no other module's slug or id
\* makes ambiguous, is the one the key finds.
LEMMA KeyResolved ==
  ASSUME IInv, NEW m \in ModuleIds, ModuleExists(m),
         NEW key \in { m, module[m].slug }, ~Ambiguous(key)
  PROVE  Resolved(key) = {m}
<1>1. m \in Resolved(key)
  BY DEF Resolved
<1>2. ASSUME NEW n \in Resolved(key) PROVE n = m
  <2>1. n \in ModuleIds /\ ModuleExists(n) /\ (n = key \/ module[n].slug = key)
    BY <1>2 DEF Resolved
  <2>2. CASE key = m
    BY <2>1, <2>2 DEF Ambiguous
  <2>3. CASE key = module[m].slug
    BY <2>1, <2>3 DEF Ambiguous, IInv, TablesKeyed
  <2> QED BY <2>2, <2>3
<1> QED BY <1>1, <1>2

\* Documents keep a slug of their own, and a path through the id or the slug of
\* its module shows a document alone unless another module is named by that id or
\* slug too, however creations and renames overlap (create, update; createDoc,
\* getDoc).
THEOREM PathsStayUnique == Spec => []PathsAreUnique
<1>1. IInv => PathsAreUnique
  <2> SUFFICES ASSUME IInv PROVE PathsAreUnique
    OBVIOUS
  <2>1. \A d, e \in DocIds : d # e /\ DocExists(d) =>
          doc[d].module # doc[e].module \/ doc[d].slug # doc[e].slug
    <3> SUFFICES ASSUME NEW d \in DocIds, NEW e \in DocIds, d # e, DocExists(d)
                 PROVE  doc[d].module # doc[e].module \/ doc[d].slug # doc[e].slug
      OBVIOUS
    <3>1. CASE DocExists(e)
      BY <3>1 DEF IInv, TablesKeyed
    <3>2. CASE ~DocExists(e)
      <4>1. doc[e].module = None
        BY <3>2 DEF DocExists, NoDoc
      <4>2. doc[d].module \in ModuleIds
        BY RowsTyped DEF IInv, DocRow
      <4> QED BY <4>1, <4>2, ManualAssumption
    <3> QED BY <3>1, <3>2
  <2>2. ASSUME NEW d \in DocIds, DocExists(d),
               NEW key \in { doc[d].module, module[doc[d].module].slug }, ~Ambiguous(key)
        PROVE  FoundDoc(key, doc[d].slug) = {d}
    <3>1. doc[d].module \in ModuleIds /\ ModuleExists(doc[d].module)
      BY <2>2, RowsTyped DEF IInv, TablesKeyed, DocRow
    <3>2. Resolved(key) = {doc[d].module}
      BY <2>2, <3>1, KeyResolved
    <3>3. DocAt(doc[d].module, doc[d].slug) = {d}
      BY <2>2 DEF IInv, TablesKeyed, DocAt
    <3> QED BY <3>2, <3>3 DEF FoundDoc
  <2> QED BY <2>1, <2>2 DEF PathsAreUnique
<1> QED BY <1>1, InvariantHolds, PTL

\* The answer of a call that writes a document.
LEMMA WriterAnswers ==
  ASSUME IInv, NEW c \in Calls, EditDoc(c) \/ PublishDoc(c) \/ UnpublishDoc(c)
  PROVE  /\ pc[c] = "checked" /\ pc'[c] = "done" /\ args[c] \in Requests
         /\ Required[args[c].op] \in PermsOf[args[c].by]
         /\ EditDoc(c) => args[c].op = "updateDoc"
         /\ PublishDoc(c) => args[c].op = "publishDoc"
         /\ UnpublishDoc(c) => args[c].op = "unpublishDoc"
<1>1. pc[c] = "checked" /\ pc'[c] = "done"
  BY DEF EditDoc, PublishDoc, UnpublishDoc, At, Answer, Goto, IInv, TypeOK
<1>2. args[c] \in Requests /\ Required[args[c].op] \in PermsOf[args[c].by]
  BY <1>1 DEF IInv, CallsKnow, Knows, Running
<1> QED BY <1>1, <1>2 DEF EditDoc, PublishDoc, UnpublishDoc, At

\* Only a creation, an update, a publication or a withdrawal changes a document,
\* and a creation only adds a draft.
LEMMA WhoWrites ==
  ASSUME IInv, Next, NEW d \in DocIds, doc'[d] # doc[d]
  PROVE  \E c \in Calls :
           \/ (EditDoc(c) \/ PublishDoc(c) \/ UnpublishDoc(c)) /\ args[c].doc = d /\ DocExists(d)
           \/ InsertDoc(c) /\ ~DocExists(d) /\ doc'[d].status = "DRAFT"
<1>1. \A c \in Calls, a \in Requests : ~Start(c, a)
  BY DEF Start
<1>2. \A c \in Calls : ~Fail(c)
  BY DEF Fail
<1>3. PICK c \in Calls : Step(c)
  BY <1>1, <1>2 DEF Next
<1>4. CASE EditDoc(c) \/ PublishDoc(c) \/ UnpublishDoc(c)
  <2>1. args[c].doc = d
    BY <1>4 DEF EditDoc, PublishDoc, UnpublishDoc, IInv, TypeOK
  <2>2. DocExists(args[c].doc)
    BY <1>4, WriterAnswers DEF IInv, CallsKnow, Knows, EditDoc, PublishDoc, UnpublishDoc, At
  <2> QED BY <1>4, <2>1, <2>2
<1>5. CASE InsertDoc(c)
  BY <1>5 DEF InsertDoc, Refuse, IInv, TypeOK
<1> QED BY <1>3, <1>4, <1>5 DEF Step, CheckModuleSlug, InsertModule, ReadModule, CheckNewSlug,
         WriteModule, RemoveModule, ResolveModule, CheckDocSlug, ReadDoc, Refuse

\* search gains and loses a document only by what a call was asked: an update
\* that gives one column takes back no other (updateDoc, publishDoc,
\* unpublishDoc, search).
THEOREM SearchFollows == Spec => SearchFollowsEdits
<1> DEFINE Loses(d, q) ==
      \E c \in Calls : LET a == args[c] IN
        /\ pc[c] = "checked" /\ pc'[c] = "done" /\ a \in Requests
        /\ \/ a.op = "unpublishDoc" /\ a.doc = d
           \/ /\ a.op = "updateDoc" /\ a.doc = d
              /\ \/ a.title # Omitted /\ doc[d].title \in Holding[q]
                 \/ a.text # Omitted /\ doc[d].text \in Holding[q]
    Gains(d, q) ==
      \E c \in Calls : LET a == args[c] IN
        /\ pc[c] = "checked" /\ pc'[c] = "done" /\ a \in Requests
        /\ \/ a.op = "publishDoc" /\ a.doc = d
           \/ /\ a.op = "updateDoc" /\ a.doc = d
              /\ a.title \in Holding[q] \/ a.text \in Holding[q]
    A == \A d \in DocIds, q \in Terms :
           /\ d \in Matching(q) /\ d \notin Matching(q)' => Loses(d, q)
           /\ d \notin Matching(q) /\ d \in Matching(q)' => Gains(d, q)
<1>1. ASSUME IInv, Next, NEW d \in DocIds, NEW q \in Terms
      PROVE  /\ d \in Matching(q) /\ d \notin Matching(q)' => Loses(d, q)
             /\ d \notin Matching(q) /\ d \in Matching(q)' => Gains(d, q)
  <2>1. CASE doc'[d] = doc[d]
    BY <2>1 DEF Matching, DocExists
  <2>2. CASE doc'[d] # doc[d] /\ ~DocExists(d)
    <3>1. doc'[d].status = "DRAFT"
      BY <1>1, <2>2, WhoWrites
    <3> QED BY <2>2, <3>1 DEF Matching
  <2>3. CASE doc'[d] # doc[d] /\ DocExists(d)
    <3>1. PICK c \in Calls : (EditDoc(c) \/ PublishDoc(c) \/ UnpublishDoc(c)) /\ args[c].doc = d
      BY <1>1, <2>3, WhoWrites
    <3>2. /\ pc[c] = "checked" /\ pc'[c] = "done" /\ args[c] \in Requests
          /\ EditDoc(c) => args[c].op = "updateDoc"
          /\ PublishDoc(c) => args[c].op = "publishDoc"
          /\ UnpublishDoc(c) => args[c].op = "unpublishDoc"
      BY <1>1, <3>1, WriterAnswers
    <3>3. doc[d] \in DocRow
      BY <1>1, <2>3, RowsTyped DEF IInv
    <3>4. CASE EditDoc(c)
      <4>1. doc'[d] = Edited(c, doc[d], args[c])
        BY <1>1, <3>1, <3>4 DEF EditDoc, IInv, TypeOK
      <4>2. /\ doc'[d].status = doc[d].status
            /\ doc'[d].title = IF args[c].title = Omitted THEN doc[d].title ELSE args[c].title
            /\ doc'[d].text = IF args[c].text = Omitted THEN doc[d].text ELSE args[c].text
        BY <3>3, <4>1 DEF Edited, DocRow
      <4>3. doc[d].status \in {"DRAFT", "PUBLISHED"}
        BY <3>3 DEF DocRow
      <4>4. DocExists(d)'
        BY <4>2, <4>3 DEF DocExists, NoDoc
      <4>5. CASE doc[d].status # "PUBLISHED"
        BY <4>2, <4>5 DEF Matching
      <4>6. CASE doc[d].status = "PUBLISHED"
        <5>1. d \in Matching(q) <=> doc[d].title \in Holding[q] \/ doc[d].text \in Holding[q]
          BY <2>3, <4>6 DEF Matching
        <5>2. d \in Matching(q)' <=> doc'[d].title \in Holding[q] \/ doc'[d].text \in Holding[q]
          BY <4>2, <4>4, <4>6 DEF Matching
        <5> QED BY <3>1, <3>2, <3>4, <4>2, <5>1, <5>2
      <4> QED BY <4>5, <4>6
    <3>5. CASE PublishDoc(c)
      <4>1. doc'[d] = [doc[d] EXCEPT !.status = "PUBLISHED", !.publishedAt = TRUE]
        BY <1>1, <3>1, <3>5 DEF PublishDoc, IInv, TypeOK
      <4>2. doc'[d].status = "PUBLISHED" /\ doc'[d].title = doc[d].title /\ doc'[d].text = doc[d].text
        BY <3>3, <4>1 DEF DocRow
      <4>3. d \in Matching(q) => d \in Matching(q)'
        BY <4>2 DEF Matching, DocExists, NoDoc
      <4> QED BY <3>1, <3>2, <3>5, <4>3
    <3>6. CASE UnpublishDoc(c)
      <4>1. doc'[d] = [doc[d] EXCEPT !.status = "DRAFT"]
        BY <1>1, <3>1, <3>6 DEF UnpublishDoc, IInv, TypeOK
      <4>2. doc'[d].status # "PUBLISHED"
        BY <3>3, <4>1 DEF DocRow
      <4>3. d \notin Matching(q)'
        BY <4>2 DEF Matching
      <4> QED BY <3>1, <3>2, <3>6, <4>3
    <3> QED BY <3>1, <3>4, <3>5, <3>6
  <2> QED BY <2>1, <2>2, <2>3
<1>2. UNCHANGED vars => A
  BY DEF vars, Matching, DocExists
<1>3. IInv /\ [Next]_vars => [A]_vars
  BY <1>1, <1>2
<1>4. SearchFollowsEdits <=> [][A]_vars
  BY DEF SearchFollowsEdits
<1> HIDE DEF A
<1> QED BY <1>3, <1>4, InvariantHolds, PTL DEF Spec

\* Nobody without MANUAL_PUBLISH changes the status of a document, whatever
\* overlaps (publishDoc, unpublishDoc, updateDoc).
THEOREM OnlyPublishersDecide == Spec => PublishersDecide
<1>1. IInv /\ IInv' /\ [Next]_vars =>
        [\A d \in DocIds : DocExists(d) =>
           /\ doc'[d].status # doc[d].status =>
                \E c \in Calls : /\ pc[c] = "checked" /\ pc'[c] = "done"
                                 /\ args[c].op \in {"publishDoc", "unpublishDoc"}
                                 /\ args[c].doc = d
                                 /\ "MANUAL_PUBLISH" \in PermsOf[args[c].by]
           /\ doc[d].publishedAt => doc'[d].publishedAt
           /\ doc'[d].status = "PUBLISHED" => doc'[d].publishedAt]_vars
  <2> SUFFICES ASSUME IInv, IInv', Next, NEW d \in DocIds, DocExists(d)
               PROVE  /\ doc'[d].status # doc[d].status =>
                           \E c \in Calls : /\ pc[c] = "checked" /\ pc'[c] = "done"
                                            /\ args[c].op \in {"publishDoc", "unpublishDoc"}
                                            /\ args[c].doc = d
                                            /\ "MANUAL_PUBLISH" \in PermsOf[args[c].by]
                      /\ doc[d].publishedAt => doc'[d].publishedAt
    BY DEF IInv, PublishedDated
  <2>1. CASE doc'[d] = doc[d]
    BY <2>1
  <2>2. ASSUME NEW c \in Calls, EditDoc(c)
        PROVE  doc'[d].status = doc[d].status /\ doc'[d].publishedAt = doc[d].publishedAt
    BY <2>2 DEF EditDoc, Edited, IInv, TypeOK
  <2>3. ASSUME NEW c \in Calls, PublishDoc(c) \/ UnpublishDoc(c)
        PROVE  /\ pc[c] = "checked" /\ pc'[c] = "done"
               /\ args[c].op \in {"publishDoc", "unpublishDoc"}
               /\ "MANUAL_PUBLISH" \in PermsOf[args[c].by]
               /\ args[c].doc # d => doc'[d] = doc[d]
               /\ doc[d].publishedAt => doc'[d].publishedAt
    <3>1. /\ pc[c] = "checked" /\ pc'[c] = "done"
          /\ args[c].op \in {"publishDoc", "unpublishDoc"}
      BY <2>3, WriterAnswers
    <3>2. "MANUAL_PUBLISH" \in PermsOf[args[c].by]
      BY <2>3, <3>1, WriterAnswers DEF Required
    <3>3. doc' \in [DocIds -> DocRow \cup {NoDoc}] /\ doc[d] \in DocRow
      BY RowsTyped DEF IInv, TypeOK
    <3>4. /\ args[c].doc # d => doc'[d] = doc[d]
          /\ doc[d].publishedAt => doc'[d].publishedAt
      BY <2>3, <3>3 DEF PublishDoc, UnpublishDoc, IInv, TypeOK, DocRow
    <3> QED BY <3>1, <3>2, <3>4
  <2> QED BY <2>1, <2>2, <2>3, WhoWrites
<1> QED BY <1>1, InvariantHolds, StepKeeps, PTL DEF Spec, PublishersDecide
=============================================================================
