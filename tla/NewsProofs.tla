----------------------------- MODULE NewsProofs -----------------------------
(***************************************************************************)
(* Proofs about News, for any number of articles, editors and readers: the *)
(* slugs are unique, and every outdated answer of the portal has a cause.  *)
(*                                                                         *)
(* For a list that has been read and not yet stored HeldHasACause says the *)
(* same as OutdatedListHasACause says of the cached one: it is what makes  *)
(* the version in the key enough.                                          *)
(***************************************************************************)
EXTENDS News, TLAPS

Seen == [slug : Slugs \cup {Nil}, published : BOOLEAN, date : Dates \cup {Nil}]

\* What an editor's request holds at each step.
Works(r) ==
    /\ pc[r] = "idle" => seen[r] = Nil
    /\ pc[r] \in {"slug", "insert"} =>
           /\ op[r] \in Operation
           /\ op[r].kind = "create"
           /\ article[op[r].article] = Nil
           /\ seen[r] # Nil => seen[r].slug \in Slugs
           /\ \A s \in Requests \ {r} : op[s] # Nil => op[s].article # op[r].article
    /\ pc[r] \in {"find", "check", "write"} =>
           /\ op[r] \in Operation
           /\ op[r].kind # "create"
           /\ article[op[r].article] \in Row
    /\ pc[r] \in {"check", "write"} =>
           /\ seen[r] \in Seen
           /\ op[r].kind \in {"update", "delete"} => seen[r].slug \in Slugs
    /\ pc[r] = "del" => due[r] \in Slugs

Working == \A r \in Requests : Works(r)

\* What a reader holds at each step.
Reading ==
    \A v \in Readers :
        /\ at[v] # "idle" => asks[v] \in Keys
        /\ at[v] = "store" => held[v] \in Entry

\* A list that will be stored under the current version and is outdated already has the
\* increment that gives it away ahead of it.
HeldHasACause ==
    \A v \in Readers :
        (/\ at[v] = "store" /\ asks[v] = List /\ current[v]
         /\ ~held[v].excused /\ held[v].content # Public(List)) => InvalidationDue(List)

Causes == OutdatedArticleHasACause /\ OutdatedListHasACause /\ HeldHasACause

IInv == TypeOK /\ Working /\ Reading /\ Causes

------------------------------------------------------------------------------
(* What the portal should answer. *)

Listed(key) == IF key = List THEN Published ELSE {a \in Published : article[a].slug = key}

LEMMA PublicType ==
    ASSUME TypeOK, NEW key \in Keys, Public(key) # Broken
    PROVE  [content |-> Public(key), excused |-> FALSE] \in Entry
<1>1. \A a \in Listed(key) : /\ a \in Articles
                             /\ article[a].slug \in Slugs
                             /\ article[a].date \in Dates
  BY SentinelAssumption DEF TypeOK, Row, Public, Listed, Published, IsPublic
<1>2. Public(key) \in Detail \cup Listing \cup {Missing}
  <2>1. CASE key = List
    BY <1>1, <2>1 DEF Public, Listed, Listing
  <2>2. CASE key # List /\ Listed(key) = {}
    BY <2>2 DEF Public, Listed
  <2>3. CASE key # List /\ Listed(key) # {}
    <3> DEFINE a == CHOOSE b \in Listed(key) : TRUE
    <3>1. Public(key) = [article |-> a, date |-> article[a].date]
      BY <2>3 DEF Public, Listed
    <3>2. a \in Listed(key)
      BY <2>3
    <3>3. QED
      BY <1>1, <3>1, <3>2 DEF Detail
  <2>4. QED
    BY <2>1, <2>2, <2>3
<1>3. QED
  BY <1>2 DEF Entry

\* The answer is about the articles it lists.
LEMMA PublicSame ==
    ASSUME NEW key \in Keys, Listed(key)' = Listed(key),
           \A a \in Listed(key) : article'[a] = article[a]
    PROVE  Public(key)' = Public(key)
<1> DEFINE listed == Listed(key)
<1>1. Public(key) =
          IF \E a \in listed : article[a].date = Nil THEN Broken
          ELSE IF key = List
               THEN [articles |-> {[article |-> a, slug |-> article[a].slug,
                                    date |-> article[a].date] : a \in listed}]
          ELSE IF listed = {} THEN Missing
          ELSE [article |-> CHOOSE b \in listed : TRUE,
                date |-> article[CHOOSE b \in listed : TRUE].date]
  BY DEF Public, Listed
<1>2. Public(key)' =
          IF \E a \in listed : article'[a].date = Nil THEN Broken
          ELSE IF key = List
               THEN [articles |-> {[article |-> a, slug |-> article'[a].slug,
                                    date |-> article'[a].date] : a \in listed}]
          ELSE IF listed = {} THEN Missing
          ELSE [article |-> CHOOSE b \in listed : TRUE,
                date |-> article'[CHOOSE b \in listed : TRUE].date]
  BY DEF Public, Listed
<1> HIDE DEF listed
<1>3. {[article |-> a, slug |-> article'[a].slug, date |-> article'[a].date] : a \in listed}
        = {[article |-> a, slug |-> article[a].slug, date |-> article[a].date] : a \in listed}
  BY DEF listed
<1>4. listed # {} => (CHOOSE b \in listed : TRUE) \in listed
  OBVIOUS
<1>5. \A a \in listed : article'[a] = article[a]
  BY DEF listed
<1>6. (\E a \in listed : article'[a].date = Nil) <=> (\E a \in listed : article[a].date = Nil)
  BY ONLY <1>5
<1>7. CASE \E a \in listed : article[a].date = Nil
  BY <1>1, <1>2, <1>6, <1>7
<1>8. CASE ~(\E a \in listed : article[a].date = Nil) /\ key = List
  BY <1>1, <1>2, <1>3, <1>6, <1>8
<1>9. CASE ~(\E a \in listed : article[a].date = Nil) /\ key # List /\ listed = {}
  BY <1>1, <1>2, <1>6, <1>9
<1>10. CASE ~(\E a \in listed : article[a].date = Nil) /\ key # List /\ listed # {}
  <2> DEFINE first == CHOOSE b \in listed : TRUE
  <2>1. article'[first] = article[first]
    BY <1>4, <1>5, <1>10
  <2>2. Public(key) = [article |-> first, date |-> article[first].date]
    BY <1>1, <1>10
  <2>3. Public(key)' = [article |-> first, date |-> article'[first].date]
    BY <1>2, <1>6, <1>10
  <2>4. QED
    BY <2>1, <2>2, <2>3
<1>11. QED
  BY <1>7, <1>8, <1>9, <1>10

\* A write to one article changes the answers under its slugs, and the list, and those only
\* if it is, or was, public.
LEMMA WriteChanges ==
    ASSUME TypeOK, NEW a \in Articles, NEW x, article' = [article EXCEPT ![a] = x],
           NEW key \in Keys,
           \/ ~IsPublic(article[a]) /\ ~IsPublic(x)
           \/ key # List /\ (IsPublic(article[a]) => article[a].slug # key)
                         /\ (IsPublic(x) => x.slug # key)
    PROVE  Public(key)' = Public(key)
<1>1. \A b \in Articles : article'[b] = IF b = a THEN x ELSE article[b]
  BY DEF TypeOK
<1>2. Listed(key) = {b \in Articles : IsPublic(article[b]) /\ (key = List \/ article[b].slug = key)}
  BY DEF Listed, Published
<1>3. Listed(key)' =
          {b \in Articles : IsPublic(article'[b]) /\ (key = List \/ article'[b].slug = key)}
  BY DEF Listed, Published, IsPublic
<1>4. a \notin Listed(key) /\ a \notin Listed(key)'
  BY <1>1, <1>2, <1>3
<1>5. Listed(key)' = Listed(key) /\ \A b \in Listed(key) : article'[b] = article[b]
  BY <1>1, <1>2, <1>3, <1>4
<1>6. QED
  BY <1>5, PublicSame

LEMMA NothingWritten ==
    ASSUME UNCHANGED article
    PROVE  \A key \in Keys : Public(key)' = Public(key)
  BY PublicSame DEF Listed, Published, IsPublic

------------------------------------------------------------------------------
(* Causes. *)

\* The request r owes the invalidation of what is cached under key.
Owes(r, key) ==
    IF key = List THEN pc[r] \in {"del", "incr"} ELSE pc[r] = "del" /\ due[r] = key

LEMMA DueFacts ==
    ASSUME NEW key
    PROVE  /\ InvalidationDue(key) <=> \E r \in Requests : Owes(r, key)
           /\ InvalidationDue(key)' <=> \E r \in Requests : Owes(r, key)'
  BY DEF InvalidationDue, Owes

\* A step of r keeps the cause of every outdated answer, unless r's invalidation was it;
\* and it outdates none without being a cause itself.
LEMMA EditKeepsCauses ==
    ASSUME Causes, NEW r \in Requests,
           \A s \in Requests \ {r} : pc'[s] = pc[s] /\ due'[s] = due[s],
           UNCHANGED <<at, asks>>,
           \A v \in Readers : current'[v] => current[v],
           \A key \in Keys :
               \/ cache'[key] = Nil
               \/ cache'[key].excused
               \/ Owes(r, key)'
               \/ cache'[key] = cache[key] /\ Public(key)' = Public(key) /\ ~Owes(r, key),
           \A v \in Readers :
               (at[v] = "store" /\ asks[v] = List /\ current'[v]) =>
                   \/ held'[v].excused
                   \/ Owes(r, List)'
                   \/ held'[v] = held[v] /\ Public(List)' = Public(List) /\ ~Owes(r, List)
    PROVE  Causes'
<1>1. List \in Keys /\ Slugs \subseteq Keys
  BY DEF Keys
<1>2. \A key \in Keys : Outdated(key) => InvalidationDue(key)
  BY DEF Causes, OutdatedArticleHasACause, OutdatedListHasACause, Keys
<1>3. ASSUME NEW key \in Keys, InvalidationDue(key), ~Owes(r, key)
      PROVE  InvalidationDue(key)'
  <2>1. PICK s \in Requests : Owes(s, key)
    BY <1>3, DueFacts
  <2>2. Owes(s, key)'
    BY <1>3, <2>1 DEF Owes
  <2>3. QED
    BY <2>2, DueFacts
<1>4. ASSUME NEW key \in Keys, Outdated(key)'
      PROVE  InvalidationDue(key)'
  <2>1. cache'[key] # Nil /\ ~cache'[key].excused /\ cache'[key].content # Public(key)'
    BY <1>4 DEF Outdated
  <2>2. CASE Owes(r, key)'
    BY <2>2, DueFacts
  <2>3. CASE cache'[key] = cache[key] /\ Public(key)' = Public(key) /\ ~Owes(r, key)
    <3>1. Outdated(key)
      BY <2>1, <2>3 DEF Outdated
    <3>2. QED
      BY <1>2, <1>3, <2>3, <3>1
  <2>4. QED
    BY <2>1, <2>2, <2>3
<1>5. HeldHasACause'
  <2>1. SUFFICES ASSUME NEW v \in Readers, at'[v] = "store", asks'[v] = List, current'[v],
                        ~held'[v].excused, held'[v].content # Public(List)'
                 PROVE  InvalidationDue(List)'
    BY DEF HeldHasACause
  <2>2. at[v] = "store" /\ asks[v] = List /\ current[v]
    BY <2>1
  <2>3. CASE Owes(r, List)'
    BY <2>3, DueFacts
  <2>4. CASE held'[v] = held[v] /\ Public(List)' = Public(List) /\ ~Owes(r, List)
    <3>1. InvalidationDue(List)
      BY <2>1, <2>2, <2>4 DEF Causes, HeldHasACause
    <3>2. QED
      BY <1>1, <1>3, <2>4, <3>1
  <2>5. QED
    BY <2>1, <2>2, <2>3, <2>4
<1>6. QED
  BY <1>1, <1>4, <1>5 DEF Causes, OutdatedArticleHasACause, OutdatedListHasACause

\* A step that is no editor's keeps every cause.
LEMMA ReadKeepsCauses ==
    ASSUME Causes, UNCHANGED <<article, editVars>>,
           \A key \in Keys :
               \/ cache'[key] = Nil
               \/ cache'[key].excused
               \/ cache'[key].content = Public(key)
               \/ InvalidationDue(key)
               \/ cache'[key] = cache[key],
           \A v \in Readers :
               (at'[v] = "store" /\ asks'[v] = List /\ current'[v]) =>
                   \/ held'[v].content = Public(List)
                   \/ /\ at[v] = "store" /\ asks[v] = List /\ current[v]
                      /\ held'[v] = held[v]
    PROVE  Causes'
<1>1. \A key \in Keys : Public(key)' = Public(key)
  BY NothingWritten
<1>2. \A key \in Keys : InvalidationDue(key)' = InvalidationDue(key)
  BY DEF InvalidationDue, editVars
<1>3. List \in Keys /\ Slugs \subseteq Keys
  BY DEF Keys
<1>4. \A key \in Keys : Outdated(key) => InvalidationDue(key)
  BY DEF Causes, OutdatedArticleHasACause, OutdatedListHasACause, Keys
<1>5. \A key \in Keys : Outdated(key)' => InvalidationDue(key)'
  BY <1>1, <1>2, <1>4 DEF Outdated
<1>6. HeldHasACause'
  BY <1>1, <1>2, <1>3 DEF Causes, HeldHasACause
<1>7. QED
  BY <1>3, <1>5, <1>6 DEF Causes, OutdatedArticleHasACause, OutdatedListHasACause

LEMMA ExcuseFacts ==
    ASSUME TypeOK, Reading, NEW keys, keys \subseteq Keys, Excuse(keys)
    PROVE  /\ cache' \in [Keys -> Entry \cup {Nil}]
           /\ held' \in [Readers -> Entry \cup {Nil}]
           /\ UNCHANGED <<at, asks, current>>
           /\ Reading'
           /\ \A key \in keys : cache'[key] = Nil \/ cache'[key].excused
           /\ \A key \in Keys \ keys : cache'[key] = cache[key]
           /\ \A v \in Readers :
                  at[v] = "store" /\ asks[v] = List /\ List \in keys => held'[v].excused
           /\ List \notin keys => held' = held
<1>1. UNCHANGED <<at, asks, current>>
  BY DEF Excuse
<1>2. ASSUME NEW entry \in Entry
      PROVE  /\ [entry EXCEPT !.excused = TRUE] \in Entry
             /\ [entry EXCEPT !.excused = TRUE].excused
             /\ entry # Nil
             /\ [entry EXCEPT !.excused = TRUE] # Nil
  <2>1. [entry EXCEPT !.excused = TRUE] \in Entry /\ [entry EXCEPT !.excused = TRUE].excused
    BY DEF Entry
  <2>2. QED
    BY <2>1, SentinelAssumption
<1>3. /\ cache' = [key \in Keys |->
             IF key \in keys /\ cache[key] # Nil THEN [cache[key] EXCEPT !.excused = TRUE]
             ELSE cache[key]]
      /\ held' = [v \in Readers |->
             IF asks[v] = List /\ List \in keys /\ held[v] # Nil
             THEN [held[v] EXCEPT !.excused = TRUE] ELSE held[v]]
  BY DEF Excuse
<1>4. /\ cache \in [Keys -> Entry \cup {Nil}]
      /\ held \in [Readers -> Entry \cup {Nil}]
  BY DEF TypeOK
<1>5. /\ cache' \in [Keys -> Entry \cup {Nil}]
      /\ held' \in [Readers -> Entry \cup {Nil}]
  BY ONLY <1>2, <1>3, <1>4
<1>6. \A key \in keys : cache'[key] = Nil \/ cache'[key].excused
  BY <1>2, <1>3, <1>4
<1>7. \A key \in Keys \ keys : cache'[key] = cache[key]
  BY <1>3
<1>8. \A v \in Readers :
          at[v] = "store" /\ asks[v] = List /\ List \in keys => held'[v].excused
  BY <1>2, <1>3 DEF Reading
<1>9. List \notin keys => held' = held
  BY <1>3, <1>4
<1>10. Reading'
  <2>1. \A v \in Readers : held[v] \in Entry => held'[v] \in Entry
    BY <1>2, <1>3
  <2>2. QED
    BY <1>1, <2>1 DEF Reading
<1>11. QED
  BY <1>1, <1>5, <1>6, <1>7, <1>8, <1>9, <1>10

------------------------------------------------------------------------------
(* Editors: the table, and what each request holds. *)

EditTypes ==
    /\ article \in [Articles -> Row \cup {Nil}]
    /\ pc \in [Requests -> Steps]
    /\ op \in [Requests -> Operation \cup {Nil}]
    /\ seen \in [Requests -> Seen \cup {Nil}]
    /\ due \in [Requests -> Slugs \cup {Nil}]

SlugsUnique ==
    \A a, b \in Articles :
        a # b /\ article[a] # Nil /\ article[b] # Nil => article[a].slug # article[b].slug

ReadTypes ==
    /\ cache \in [Keys -> Entry \cup {Nil}]
    /\ at \in [Readers -> ReadSteps]
    /\ asks \in [Readers -> Keys \cup {Nil}]
    /\ held \in [Readers -> Entry \cup {Nil}]
    /\ current \in [Readers -> BOOLEAN]

EditInv == EditTypes /\ SlugsUnique /\ Working

ReadInv == ReadTypes /\ Reading

LEMMA Parts ==
    IInv <=> EditInv /\ ReadInv /\ Causes
  BY DEF IInv, TypeOK, EditInv, EditTypes, SlugsUnique, ReadInv, ReadTypes, Seen

LEMMA PartsNext ==
    (EditInv /\ ReadInv /\ Causes)' => IInv'
  BY DEF IInv, TypeOK, EditInv, EditTypes, SlugsUnique, ReadInv, ReadTypes, Seen

LEMMA OperationOfKind ==
    ASSUME NEW o \in Operation
    PROVE  /\ o.article \in Articles
           /\ o.kind \in {"create", "update", "delete", "publish", "withdraw"}
           /\ o.kind = "create" => o.body.slug \in Slugs /\ o.body.date \in Dates \cup {Nil}
           /\ o.kind = "update" => /\ o.body.slug \in Slugs \cup {Same}
                                   /\ o.body.date \in Dates \cup {Nil, Same}
           /\ o # Nil
  BY NewsAssumption, SentinelAssumption DEF Operation, Creation, Update

\* A step of r leaves the others what they hold.
LEMMA OthersWork ==
    ASSUME EditInv, NEW r \in Requests,
           \A s \in Requests \ {r} :
               pc'[s] = pc[s] /\ op'[s] = op[s] /\ seen'[s] = seen[s] /\ due'[s] = due[s],
           \A a \in Articles : article[a] \in Row => article'[a] \in Row,
           \A s \in Requests \ {r} :
               pc[s] \in {"slug", "insert"} =>
                   /\ article'[op[s].article] = article[op[s].article]
                   /\ op'[r] # Nil => op'[r].article # op[s].article,
           Works(r)'
    PROVE  Working'
<1>1. SUFFICES ASSUME NEW s \in Requests \ {r} PROVE Works(s)'
  BY DEF Working
<1>2. Works(s) /\ op[s] \in Operation \cup {Nil}
  BY DEF EditInv, EditTypes, Working
<1>3. /\ pc[s] = "idle" => seen'[s] = Nil
      /\ pc[s] \in {"slug", "insert"} =>
             /\ op[s] \in Operation
             /\ op[s].kind = "create"
             /\ article'[op[s].article] = Nil
             /\ seen[s] # Nil => seen[s].slug \in Slugs
  BY <1>2 DEF Works
<1>4. ASSUME pc[s] \in {"slug", "insert"}, NEW q \in Requests \ {s}, op'[q] # Nil
      PROVE  op'[q].article # op[s].article
  BY <1>2, <1>4 DEF Works
<1>5. pc[s] \in {"find", "check", "write"} =>
          /\ op[s] \in Operation
          /\ op[s].kind # "create"
          /\ article'[op[s].article] \in Row
  BY <1>2, OperationOfKind DEF Works
<1>6. /\ pc[s] \in {"check", "write"} =>
             /\ seen[s] \in Seen
             /\ op[s].kind \in {"update", "delete"} => seen[s].slug \in Slugs
      /\ pc[s] = "del" => due[s] \in Slugs
  BY <1>2 DEF Works
<1>7. QED
  BY <1>3, <1>4, <1>5, <1>6 DEF Works

\* A request that has an operation of its own already stands in nobody's way.
LEMMA Apart ==
    ASSUME EditInv, NEW r \in Requests, NEW s \in Requests \ {r},
           pc[s] \in {"slug", "insert"}, op[r] # Nil
    PROVE  op[r].article # op[s].article
  BY DEF EditInv, Working, Works

\* A request that is over, or has only an invalidation left to do, holds nothing else.
LEMMA LetsGo ==
    ASSUME EditInv, NEW r \in Requests,
           Idle(r) \/ \E slug \in Slugs : Owe(r, slug),
           article' \in [Articles -> Row \cup {Nil}], SlugsUnique',
           \A a \in Articles : article[a] \in Row => article'[a] \in Row,
           \A s \in Requests \ {r} :
               pc[s] \in {"slug", "insert"} =>
                   article'[op[s].article] = article[op[s].article]
    PROVE  EditInv'
<1> USE DEF EditInv
<1>1. EditTypes'
  BY DEF EditTypes, Idle, Owe, Steps
<1>2. /\ \A s \in Requests \ {r} :
             pc'[s] = pc[s] /\ op'[s] = op[s] /\ seen'[s] = seen[s] /\ due'[s] = due[s]
      /\ op'[r] = Nil /\ seen'[r] = Nil
      /\ pc'[r] = "idle" \/ (pc'[r] = "del" /\ due'[r] \in Slugs)
  BY DEF EditTypes, Idle, Owe
<1>3. Works(r)'
  BY <1>2 DEF Works
<1>4. Working'
  BY <1>2, <1>3, OthersWork
<1>5. QED
  BY <1>1, <1>4

\* A write to the article r has an operation on is no business of those who create one.
LEMMA WriteApart ==
    ASSUME EditInv, NEW r \in Requests, op[r] \in Operation, NEW x \in Row,
           article' = [article EXCEPT ![op[r].article] = x],
           \A b \in Articles \ {op[r].article} : article[b] # Nil => article[b].slug # x.slug
    PROVE  /\ article' \in [Articles -> Row \cup {Nil}]
           /\ SlugsUnique'
           /\ \A a \in Articles : article[a] \in Row => article'[a] \in Row
           /\ \A s \in Requests \ {r} :
                  pc[s] \in {"slug", "insert"} =>
                      article'[op[s].article] = article[op[s].article]
<1>1. op[r].article \in Articles /\ op[r] # Nil
  BY OperationOfKind
<1>2. \A a \in Articles : article'[a] = IF a = op[r].article THEN x ELSE article[a]
  BY DEF EditInv, EditTypes
<1>3. SlugsUnique'
  BY <1>1, <1>2 DEF EditInv, SlugsUnique
<1>4. ASSUME NEW s \in Requests \ {r}, pc[s] \in {"slug", "insert"}
      PROVE  article'[op[s].article] = article[op[s].article]
  <2>1. op[s].article \in Articles
    BY <1>4, OperationOfKind DEF EditInv, Working, Works
  <2>2. QED
    BY <1>1, <1>2, <1>4, <2>1, Apart
<1>5. QED
  BY <1>1, <1>2, <1>3, <1>4 DEF EditInv, EditTypes

\* The steps of a request up to its write.
LEMMA PreparesEdit ==
    ASSUME EditInv, NEW r \in Requests,
           (\E o \in Operation : Receive(r, o)) \/ TrySlug(r) \/ Find(r) \/ CheckSlug(r)
    PROVE  EditInv'
<1> USE DEF EditInv
<1>1. article' = article
  BY DEF Receive, TrySlug, Find, CheckSlug
<1>2. SlugsUnique'
  BY <1>1 DEF SlugsUnique
<1>3. ASSUME NEW o \in Operation, Receive(r, o)
      PROVE  EditInv'
  <2>1. /\ pc[r] = "idle"
        /\ pc' = [pc EXCEPT ![r] = IF o.kind = "create" THEN "slug" ELSE "find"]
        /\ op' = [op EXCEPT ![r] = o]
        /\ seen' = seen /\ due' = due
        /\ IF o.kind = "create" THEN Fresh(o.article) ELSE article[o.article] # Nil
    BY <1>3 DEF Receive
  <2>2. EditTypes'
    BY <1>1, <2>1 DEF EditTypes, Steps
  <2>3. /\ seen'[r] = Nil
        /\ op'[r] = o
        /\ pc'[r] = IF o.kind = "create" THEN "slug" ELSE "find"
        /\ \A s \in Requests \ {r} : pc'[s] = pc[s] /\ op'[s] = op[s]
    BY <2>1 DEF EditTypes, Working, Works
  <2>4. Works(r)'
    <3>1. CASE o.kind = "create"
      BY <1>1, <2>1, <2>3, <3>1 DEF Works, Fresh
    <3>2. CASE o.kind # "create"
      BY <1>1, <2>1, <2>3, <3>2, OperationOfKind DEF Works, EditTypes
    <3>3. QED
      BY <3>1, <3>2
  <2>5. ASSUME NEW s \in Requests \ {r}, pc[s] \in {"slug", "insert"}
        PROVE  o.article # op[s].article
    <3>1. op[s] # Nil /\ article[op[s].article] = Nil
      BY <2>5, OperationOfKind DEF Working, Works
    <3>2. QED
      BY <2>1, <3>1 DEF Fresh
  <2>6. Working'
    BY <1>1, <2>1, <2>3, <2>4, <2>5, OthersWork
  <2>7. QED
    BY <1>2, <2>2, <2>6
<1>4. CASE TrySlug(r)
  <2>1. Works(r) /\ pc[r] = "slug" /\ op' = op /\ due' = due
    BY <1>4 DEF TrySlug, Working
  <2>2. \/ pc' = pc /\ \E slug \in Slugs : seen' = [seen EXCEPT ![r] = Trying(slug)]
        \/ pc' = [pc EXCEPT ![r] = "insert"] /\ seen' = seen
    BY <1>4 DEF TrySlug
  <2>3. \A slug \in Slugs : Trying(slug) \in Seen /\ Trying(slug).slug = slug
    BY DEF Trying, Seen
  <2>4. EditTypes'
    BY <1>1, <2>1, <2>2, <2>3 DEF EditTypes, Steps
  <2>5. /\ pc'[r] \in {"slug", "insert"}
        /\ seen'[r] = seen[r] \/ seen'[r].slug \in Slugs
        /\ \A s \in Requests \ {r} : pc'[s] = pc[s] /\ seen'[s] = seen[s]
    BY <2>1, <2>2, <2>3 DEF EditTypes
  <2>6. Works(r)'
    BY <1>1, <2>1, <2>5 DEF Works
  <2>7. Working'
    BY <1>1, <2>1, <2>5, <2>6, OthersWork, Apart
  <2>8. QED
    BY <1>2, <2>4, <2>7
<1>5. CASE Find(r)
  <2> DEFINE o == op[r]
  <2>1. /\ Works(r) /\ pc[r] = "find" /\ op' = op /\ due' = due
        /\ seen' = [seen EXCEPT ![r] = Used(o, article[o.article])]
        /\ \E step \in {"check", "write"} : pc' = [pc EXCEPT ![r] = step]
    BY <1>5 DEF Find, Working
  <2>2. o \in Operation /\ o.kind # "create" /\ article[o.article] \in Row
    BY <2>1 DEF Works
  <2>3. /\ Used(o, article[o.article]) \in Seen
        /\ o.kind \in {"update", "delete"} => Used(o, article[o.article]).slug \in Slugs
    BY <2>2 DEF Used, Seen, Row, IsPublic
  <2>4. EditTypes'
    BY <1>1, <2>1, <2>3 DEF EditTypes, Steps
  <2>5. /\ pc'[r] \in {"check", "write"}
        /\ seen'[r] = Used(o, article[o.article])
        /\ \A s \in Requests \ {r} : pc'[s] = pc[s] /\ seen'[s] = seen[s]
    BY <2>1 DEF EditTypes
  <2>6. Works(r)'
    BY <1>1, <2>1, <2>2, <2>3, <2>5 DEF Works
  <2>7. Working'
    BY <1>1, <2>1, <2>5, <2>6, OthersWork, Apart
  <2>8. QED
    BY <1>2, <2>4, <2>7
<1>6. CASE CheckSlug(r)
  <2>1. Works(r) /\ pc[r] = "check" /\ UNCHANGED <<op, seen, due>>
        /\ pc' = [pc EXCEPT ![r] = "write"]
    BY <1>6 DEF CheckSlug, Goto, Working
  <2>2. EditTypes'
    BY <1>1, <2>1 DEF EditTypes, Steps
  <2>3. pc'[r] = "write" /\ \A s \in Requests \ {r} : pc'[s] = pc[s]
    BY <2>1 DEF EditTypes
  <2>4. Works(r)'
    BY <1>1, <2>1, <2>3 DEF Works
  <2>5. Working'
    BY <1>1, <2>1, <2>3, <2>4, OthersWork, Apart
  <2>6. QED
    BY <1>2, <2>2, <2>5
<1>7. QED
  BY <1>3, <1>4, <1>5, <1>6

------------------------------------------------------------------------------
(* Editors: what a write does to the answers. *)

LEMMA QuietReads ==
    ASSUME ReadInv, Quiet
    PROVE  ReadInv' /\ UNCHANGED <<cache, at, asks, held, current>>
  BY DEF ReadInv, ReadTypes, Reading, Quiet, readVars

\* A step that only excuses keeps what the readers have.
LEMMA ExcuseReads ==
    ASSUME TypeOK, ReadInv, NEW keys, keys \subseteq Keys, Excuse(keys)
    PROVE  ReadInv'
  BY ExcuseFacts DEF ReadInv, ReadTypes

\* Whatever a step changes in the answers it must excuse, or owe.
LEMMA WriteKeepsCauses ==
    ASSUME IInv, NEW r \in Requests, pc[r] \notin {"del", "incr"},
           NEW keys, keys \subseteq Keys, Excuse(keys) \/ (keys = {} /\ Quiet),
           \A s \in Requests \ {r} : pc'[s] = pc[s] /\ due'[s] = due[s],
           \A key \in Keys : Public(key)' = Public(key) \/ key \in keys \/ Owes(r, key)'
    PROVE  ReadInv' /\ Causes'
<1>1. TypeOK /\ Reading /\ Causes /\ ReadInv /\ List \in Keys
  BY Parts DEF IInv, Keys
<1>2. \A key : ~Owes(r, key)
  BY DEF Owes
<1>3. CASE Excuse(keys)
  <2>1. ReadInv'
    BY <1>1, <1>3, ExcuseReads
  <2>2. /\ UNCHANGED <<at, asks, current>>
        /\ \A key \in keys : cache'[key] = Nil \/ cache'[key].excused
        /\ \A key \in Keys \ keys : cache'[key] = cache[key]
        /\ \A v \in Readers :
               at[v] = "store" /\ asks[v] = List /\ List \in keys => held'[v].excused
        /\ List \notin keys => held' = held
    BY <1>1, <1>3, ExcuseFacts
  <2>3. Causes'
    BY <1>1, <1>2, <2>2, EditKeepsCauses
  <2>4. QED
    BY <2>1, <2>3
<1>4. CASE keys = {} /\ Quiet
  <2>1. ReadInv' /\ UNCHANGED <<cache, at, asks, held, current>>
    BY <1>1, <1>4, QuietReads
  <2>2. Causes'
    BY <1>1, <1>2, <1>4, <2>1, EditKeepsCauses
  <2>3. QED
    BY <2>1, <2>2
<1>5. QED
  BY <1>3, <1>4

LEMMA QuietWriteKeepsCauses ==
    ASSUME IInv, NEW r \in Requests, pc[r] \notin {"del", "incr"}, Quiet,
           \A s \in Requests \ {r} : pc'[s] = pc[s] /\ due'[s] = due[s],
           \A key \in Keys : Public(key)' = Public(key) \/ Owes(r, key)'
    PROVE  ReadInv' /\ Causes'
<1> DEFINE keys == {}
<1>1. /\ keys \subseteq Keys
      /\ Excuse(keys) \/ (keys = {} /\ Quiet)
      /\ \A key \in Keys : Public(key)' = Public(key) \/ key \in keys \/ Owes(r, key)'
  OBVIOUS
<1> HIDE DEF keys
<1>2. QED
  BY <1>1, WriteKeepsCauses

LEMMA Preparing ==
    ASSUME IInv, NEW r \in Requests,
           (\E o \in Operation : Receive(r, o)) \/ TrySlug(r) \/ Find(r) \/ CheckSlug(r)
    PROVE  IInv'
<1>1. EditInv /\ TypeOK
  BY Parts DEF IInv
<1>2. EditInv'
  BY <1>1, PreparesEdit
<1>3. article' = article /\ Quiet /\ pc[r] \notin {"del", "incr"}
  BY DEF Receive, TrySlug, Find, CheckSlug
<1>4. \A s \in Requests \ {r} : pc'[s] = pc[s] /\ due'[s] = due[s]
  BY <1>1 DEF EditInv, EditTypes, Receive, TrySlug, Find, CheckSlug, Goto
<1>5. \A key \in Keys : Public(key)' = Public(key)
  BY <1>3, NothingWritten
<1>6. ReadInv' /\ Causes'
  BY <1>3, <1>4, <1>5, QuietWriteKeepsCauses
<1>7. QED
  BY <1>2, <1>6, PartsNext

LEMMA Inserting ==
    ASSUME IInv, NEW r \in Requests, Insert(r)
    PROVE  IInv'
<1> DEFINE a == op[r].article
           y == [slug |-> Candidate(r), published |-> FALSE, date |-> op[r].body.date,
                 deleted |-> FALSE]
<1>1. EditInv /\ TypeOK
  BY Parts DEF IInv
<1>2. Works(r) /\ pc[r] = "insert"
  BY <1>1 DEF EditInv, Working, Insert
<1>3. op[r] \in Operation /\ op[r].kind = "create" /\ article[a] = Nil
  BY <1>2 DEF Works
<1>4. Candidate(r) \in Slugs
  BY <1>2, <1>3, OperationOfKind DEF Works, Candidate
<1>5. y \in Row /\ a \in Articles
  BY <1>3, <1>4, OperationOfKind DEF Row
<1>6. /\ article' = [article EXCEPT ![a] = y]
      /\ Idle(r) /\ Quiet
      /\ \A b \in Articles : article[b] # Nil => article[b].slug # y.slug
  BY DEF Insert, Taken
<1>7. EditInv'
  BY <1>1, <1>3, <1>5, <1>6, WriteApart, LetsGo
<1>8. ~IsPublic(article[a]) /\ ~IsPublic(y)
  BY <1>3 DEF IsPublic
<1> HIDE DEF y
<1>9. \A key \in Keys : Public(key)' = Public(key)
  BY <1>1, <1>5, <1>6, <1>8, WriteChanges
<1>10. \A s \in Requests \ {r} : pc'[s] = pc[s] /\ due'[s] = due[s]
  BY <1>1, <1>6 DEF EditInv, EditTypes, Idle
<1>11. ReadInv' /\ Causes'
  BY <1>2, <1>6, <1>9, <1>10, QuietWriteKeepsCauses
<1>12. QED
  BY <1>7, <1>11, PartsNext

\* What r works with when it writes.
LEMMA Writer ==
    ASSUME IInv, NEW r \in Requests, pc[r] = "write"
    PROVE  /\ op[r] \in Operation
           /\ op[r].kind # "create"
           /\ op[r].article \in Articles
           /\ article[op[r].article] \in Row
           /\ article[op[r].article] # Nil
           /\ seen[r] \in Seen
           /\ op[r].kind \in {"update", "delete"} => seen[r].slug \in Slugs
           /\ op[r].kind = "update" => NewSlug(r) \in Slugs
<1>1. Works(r)
  BY Parts DEF EditInv, Working
<1>2. QED
  BY <1>1, OperationOfKind, SentinelAssumption DEF Works, NewSlug

\* update and softDelete: what they make of a public article they excuse or owe.
LEMMA Overwriting ==
    ASSUME IInv, NEW r \in Requests, pc[r] = "write", op[r].kind \in {"update", "delete"},
           NEW y \in Row, article' = [article EXCEPT ![op[r].article] = y],
           IsPublic(y) => IsPublic(article[op[r].article]),
           Excuse(Overlooked(r, article[op[r].article], y.slug)),
           OweAsFound(r),
           \A b \in Articles \ {op[r].article} : article[b] # Nil => article[b].slug # y.slug
    PROVE  IInv'
<1> DEFINE a == op[r].article
           keys == Overlooked(r, article[a], y.slug)
<1>1. EditInv /\ TypeOK /\ List \notin Slugs
  BY Parts, SentinelAssumption DEF IInv
<1>2. /\ a \in Articles /\ article[a] \in Row /\ op[r] \in Operation
      /\ article[a].slug \in Slugs /\ y.slug \in Slugs /\ seen[r].slug \in Slugs
      /\ seen[r].published \in BOOLEAN
  BY Writer DEF Row, Seen
<1>3. Idle(r) \/ \E slug \in Slugs : Owe(r, slug)
  BY <1>2 DEF OweAsFound
<1>4. EditInv'
  BY <1>1, <1>2, <1>3, WriteApart, LetsGo
<1>5. keys \subseteq Keys
  BY <1>2 DEF Overlooked, Keys
<1>6. \A s \in Requests \ {r} : pc'[s] = pc[s] /\ due'[s] = due[s]
  BY <1>1, <1>3 DEF EditInv, EditTypes, Idle, Owe
<1>7. seen[r].published => pc'[r] = "del" /\ due'[r] = seen[r].slug
  BY <1>1 DEF OweAsFound, Owe, EditInv, EditTypes
<1>8. ASSUME NEW key \in Keys, Public(key)' # Public(key)
      PROVE  key \in keys \/ Owes(r, key)'
  <2>1. /\ IsPublic(article[a])
        /\ key = List \/ key = article[a].slug \/ key = y.slug
    BY <1>1, <1>2, <1>8, WriteChanges
  <2>2. CASE key = List
    BY <1>7, <2>1, <2>2 DEF Overlooked, Owes
  <2>3. CASE key = article[a].slug
    BY <1>1, <1>2, <1>7, <2>1, <2>3 DEF Overlooked, Owes
  <2>4. CASE key = y.slug /\ key # article[a].slug
    BY <2>1, <2>4 DEF Overlooked
  <2>5. QED
    BY <2>1, <2>2, <2>3, <2>4
<1> HIDE DEF keys
<1>9. ReadInv' /\ Causes'
  BY <1>5, <1>6, <1>8, WriteKeepsCauses DEF keys
<1>10. QED
  BY <1>4, <1>9, PartsNext

LEMMA Updating ==
    ASSUME IInv, NEW r \in Requests, UpdateRow(r) \/ SoftDelete(r)
    PROVE  IInv'
<1> DEFINE a == op[r].article
<1>1. pc[r] = "write"
  BY DEF UpdateRow, SoftDelete
<1>2. a \in Articles /\ article[a] \in Row /\ op[r] \in Operation
  BY <1>1, Writer
<1>3. CASE UpdateRow(r)
  <2> DEFINE date == op[r].body.date
             y == [article[a] EXCEPT !.slug = NewSlug(r),
                                     !.date = IF date = Same THEN @ ELSE date]
  <2>1. /\ op[r].kind = "update"
        /\ ~Collides(r)
        /\ article' = [article EXCEPT ![a] = y]
        /\ Excuse(Overlooked(r, article[a], NewSlug(r)))
        /\ OweAsFound(r)
    BY <1>3 DEF UpdateRow
  <2>2. NewSlug(r) \in Slugs /\ date \in Dates \cup {Nil, Same}
    BY <1>1, <2>1, Writer, OperationOfKind
  <2>3. y \in Row /\ y.slug = NewSlug(r) /\ (IsPublic(y) => IsPublic(article[a]))
    BY <1>2, <2>2, SentinelAssumption DEF Row, IsPublic
  <2>4. \A b \in Articles \ {a} : article[b] # Nil => article[b].slug # NewSlug(r)
    BY <2>1 DEF Collides
  <2> HIDE DEF y
  <2>5. QED
    BY <1>1, <2>1, <2>3, <2>4, Overwriting
<1>4. CASE SoftDelete(r)
  <2> DEFINE y == [article[a] EXCEPT !.deleted = TRUE]
  <2>1. /\ op[r].kind = "delete"
        /\ article' = [article EXCEPT ![a] = y]
        /\ Excuse(Overlooked(r, article[a], article[a].slug))
        /\ OweAsFound(r)
    BY <1>4 DEF SoftDelete
  <2>2. y \in Row /\ y.slug = article[a].slug /\ ~IsPublic(y)
    BY <1>2 DEF Row, IsPublic
  <2>3. \A b \in Articles \ {a} : article[b] # Nil => article[b].slug # article[a].slug
    BY <1>1, <1>2, Writer, Parts DEF EditInv, SlugsUnique
  <2> HIDE DEF y
  <2>4. QED
    BY <1>1, <2>1, <2>2, <2>3, Overwriting
<1>5. QED
  BY <1>3, <1>4

\* publish, revertToDraft and archive: what they change is under the slug they owe.
LEMMA Transition ==
    ASSUME IInv, NEW r \in Requests, Publish(r) \/ Withdraw(r)
    PROVE  IInv'
<1> DEFINE a == op[r].article
<1>1. EditInv /\ TypeOK /\ pc[r] = "write"
  BY Parts DEF IInv, Publish, Withdraw
<1>2. /\ a \in Articles /\ article[a] \in Row /\ article[a] # Nil /\ op[r] \in Operation
      /\ seen[r] \in Seen
  BY <1>1, Writer
<1>3. PICK y \in Row : /\ article' = [article EXCEPT ![a] = y]
                       /\ y.slug = article[a].slug
  <2>1. CASE Publish(r)
    <3>1. PICK date \in IF seen[r].date = Nil THEN Dates ELSE {seen[r].date} :
              article' = [article EXCEPT ![a].published = TRUE, ![a].date = date]
      BY <2>1 DEF Publish
    <3>2. date \in Dates
      BY <1>2, <3>1 DEF Seen
    <3> DEFINE y == [article[a] EXCEPT !.published = TRUE, !.date = date]
    <3>3. y \in Row /\ y.slug = article[a].slug
      BY <1>2, <3>2 DEF Row
    <3>4. article' = [article EXCEPT ![a] = y]
      BY <3>1
    <3>5. QED
      BY <3>3, <3>4
  <2>2. CASE Withdraw(r)
    <3> DEFINE y == [article[a] EXCEPT !.published = FALSE]
    <3>1. y \in Row /\ y.slug = article[a].slug
      BY <1>2 DEF Row
    <3>2. article' = [article EXCEPT ![a] = y]
      BY <2>2 DEF Withdraw
    <3>3. QED
      BY <3>1, <3>2
  <2>3. QED
    BY <2>1, <2>2
<1>4. Owe(r, article[a].slug) /\ Quiet /\ article[a].slug \in Slugs
  BY <1>2 DEF Publish, Withdraw, Row
<1>5. \A b \in Articles \ {a} : article[b] # Nil => article[b].slug # y.slug
  BY <1>1, <1>2, <1>3 DEF EditInv, SlugsUnique
<1>6. EditInv'
  BY <1>1, <1>2, <1>3, <1>4, <1>5, WriteApart, LetsGo
<1>7. /\ \A s \in Requests \ {r} : pc'[s] = pc[s] /\ due'[s] = due[s]
      /\ pc'[r] = "del" /\ due'[r] = article[a].slug
  BY <1>1, <1>4 DEF EditInv, EditTypes, Owe
<1>8. \A key \in Keys : Public(key)' = Public(key) \/ Owes(r, key)'
  BY <1>1, <1>2, <1>3, <1>7, WriteChanges DEF Owes
<1>9. ReadInv' /\ Causes'
  BY <1>1, <1>4, <1>7, <1>8, QuietWriteKeepsCauses
<1>10. QED
  BY <1>6, <1>9, PartsNext

------------------------------------------------------------------------------
(* Editors: refusals, invalidations and crashes. *)

\* Ending without a write.
LEMMA Ending ==
    ASSUME EditInv, NEW r \in Requests, Idle(r), article' = article
    PROVE  /\ EditInv'
           /\ pc'[r] = "idle"
           /\ \A s \in Requests \ {r} : pc'[s] = pc[s] /\ due'[s] = due[s]
<1>1. article' \in [Articles -> Row \cup {Nil}] /\ SlugsUnique'
  BY DEF EditInv, EditTypes, SlugsUnique
<1>2. EditInv'
  BY <1>1, LetsGo
<1>3. QED
  BY <1>2 DEF EditInv, EditTypes, Idle

LEMMA Refusing ==
    ASSUME IInv, NEW r \in Requests, Refuse(r)
    PROVE  IInv'
<1>1. EditInv
  BY Parts
<1>2. Idle(r) /\ article' = article /\ Quiet /\ pc[r] \notin {"del", "incr"}
  BY DEF Refuse
<1>3. EditInv' /\ \A s \in Requests \ {r} : pc'[s] = pc[s] /\ due'[s] = due[s]
  BY <1>1, <1>2, Ending
<1>4. ReadInv' /\ Causes'
  BY <1>2, <1>3, NothingWritten, QuietWriteKeepsCauses
<1>5. QED
  BY <1>3, <1>4, PartsNext

\* A step that leaves the table alone and sees to, or excuses, what r owed.
LEMMA SettleKeepsCauses ==
    ASSUME IInv, NEW r \in Requests, article' = article,
           \A s \in Requests \ {r} : pc'[s] = pc[s] /\ due'[s] = due[s],
           NEW keys, keys \subseteq Keys, Excuse(keys),
           \A key \in Keys \ keys : Owes(r, key) => Owes(r, key)'
    PROVE  ReadInv' /\ Causes'
<1>1. TypeOK /\ Reading /\ ReadInv /\ Causes /\ List \in Keys
  BY Parts DEF IInv, Keys
<1>2. ReadInv'
  BY <1>1, ExcuseReads
<1>3. /\ UNCHANGED <<at, asks, current>>
      /\ \A key \in keys : cache'[key] = Nil \/ cache'[key].excused
      /\ \A key \in Keys \ keys : cache'[key] = cache[key]
      /\ \A v \in Readers :
             at[v] = "store" /\ asks[v] = List /\ List \in keys => held'[v].excused
      /\ List \notin keys => held' = held
  BY <1>1, ExcuseFacts
<1>4. \A key \in Keys : Public(key)' = Public(key)
  BY NothingWritten
<1>5. Causes'
  BY <1>1, <1>3, <1>4, EditKeepsCauses
<1>6. QED
  BY <1>2, <1>5

LEMMA Deleting ==
    ASSUME IInv, NEW r \in Requests, DeleteEntry(r)
    PROVE  IInv'
<1>1. EditInv /\ ReadInv /\ Causes /\ List \in Keys /\ List \notin Slugs
  BY Parts, SentinelAssumption DEF Keys
<1>2. /\ pc[r] = "del" /\ due[r] \in Slugs /\ due[r] \in Keys
      /\ pc' = [pc EXCEPT ![r] = "incr"]
      /\ due' = [due EXCEPT ![r] = Nil]
      /\ UNCHANGED <<article, op, seen>>
  BY <1>1 DEF DeleteEntry, EditInv, Working, Works, Keys
<1>3. /\ pc'[r] = "incr"
      /\ \A s \in Requests \ {r} :
             pc'[s] = pc[s] /\ op'[s] = op[s] /\ seen'[s] = seen[s] /\ due'[s] = due[s]
  BY <1>1, <1>2 DEF EditInv, EditTypes
<1>4. EditInv'
  <2>1. EditTypes' /\ SlugsUnique'
    BY <1>1, <1>2 DEF EditInv, EditTypes, SlugsUnique, Steps
  <2>2. Works(r)'
    BY <1>3 DEF Works
  <2>3. Working'
    BY <1>1, <1>2, <1>3, <2>2, OthersWork, Apart
  <2>4. QED
    BY <2>1, <2>3 DEF EditInv
<1>5. CASE cache' = [cache EXCEPT ![due[r]] = Nil] /\ UNCHANGED readVars
  <2>1. ReadInv'
    BY <1>1, <1>5 DEF ReadInv, ReadTypes, Reading, readVars
  <2>2. \A key \in Keys : Public(key)' = Public(key)
    BY <1>2, NothingWritten
  <2>3. \A key \in Keys :
            \/ cache'[key] = Nil
            \/ Owes(r, key)'
            \/ cache'[key] = cache[key] /\ ~Owes(r, key)
    BY <1>1, <1>2, <1>3, <1>5 DEF ReadInv, ReadTypes, Owes
  <2>4. Owes(r, List)'
    BY <1>3 DEF Owes
  <2>5. Causes'
    BY <1>1, <1>3, <1>5, <2>2, <2>3, <2>4, EditKeepsCauses DEF readVars
  <2>6. QED
    BY <1>4, <2>1, <2>5, PartsNext
<1>6. CASE Excuse({due[r]})
  <2> DEFINE keys == {due[r]}
  <2>1. keys \subseteq Keys /\ Excuse(keys) /\ due[r] \in keys
    BY <1>2, <1>6
  <2> HIDE DEF keys
  <2>2. \A key \in Keys \ keys : Owes(r, key) => Owes(r, key)'
    BY <1>2, <1>3, <2>1 DEF Owes
  <2>3. ReadInv' /\ Causes'
    BY <1>2, <1>3, <2>1, <2>2, SettleKeepsCauses
  <2>4. QED
    BY <1>4, <2>3, PartsNext
<1>7. QED
  BY <1>5, <1>6 DEF DeleteEntry

\* The increment settles the list for good: whoever has read an old one will store it
\* under a version nobody asks for.
LEMMA Incrementing ==
    ASSUME IInv, NEW r \in Requests, IncrementVersion(r)
    PROVE  IInv'
<1>1. EditInv /\ ReadInv /\ Causes /\ List \in Keys
  BY Parts DEF Keys
<1>2. pc[r] = "incr" /\ Idle(r) /\ article' = article
  BY DEF IncrementVersion
<1>3. EditInv' /\ \A s \in Requests \ {r} : pc'[s] = pc[s] /\ due'[s] = due[s]
  BY <1>1, <1>2, Ending
<1>4. \A key \in Keys \ {List} : ~Owes(r, key)
  BY <1>2 DEF Owes
<1>5. CASE /\ cache' = [cache EXCEPT ![List] = Nil]
           /\ current' = [v \in Readers |-> FALSE]
           /\ UNCHANGED <<at, asks, held>>
  <2>1. ReadInv'
    BY <1>1, <1>5 DEF ReadInv, ReadTypes, Reading
  <2>2. \A key \in Keys : Public(key)' = Public(key)
    BY <1>2, NothingWritten
  <2>3. \A key \in Keys : cache'[key] = Nil \/ (cache'[key] = cache[key] /\ ~Owes(r, key))
    BY <1>1, <1>4, <1>5 DEF ReadInv, ReadTypes
  <2>4. \A v \in Readers : ~current'[v]
    BY <1>5
  <2>5. Causes'
    BY <1>1, <1>3, <1>5, <2>2, <2>3, <2>4, EditKeepsCauses
  <2>6. QED
    BY <1>3, <2>1, <2>5, PartsNext
<1>6. CASE Excuse({List})
  <2> DEFINE keys == {List}
  <2>1. keys \subseteq Keys /\ Excuse(keys) /\ \A key \in Keys \ keys : ~Owes(r, key)
    BY <1>1, <1>4, <1>6
  <2> HIDE DEF keys
  <2>2. ReadInv' /\ Causes'
    BY <1>2, <1>3, <2>1, SettleKeepsCauses
  <2>3. QED
    BY <1>3, <2>2, PartsNext
<1>7. QED
  BY <1>5, <1>6 DEF IncrementVersion

LEMMA Crashing ==
    ASSUME IInv, NEW r \in Requests, Crash(r)
    PROVE  IInv'
<1>1. EditInv /\ List \in Keys
  BY Parts DEF Keys
<1>2. Idle(r) /\ article' = article
  BY DEF Crash
<1>3. EditInv' /\ \A s \in Requests \ {r} : pc'[s] = pc[s] /\ due'[s] = due[s]
  BY <1>1, <1>2, Ending
<1> DEFINE keys == CASE pc[r] = "del" -> {due[r], List} [] pc[r] = "incr" -> {List}
                     [] OTHER -> {}
<1>4. Excuse(keys)
  BY DEF Crash
<1>5. /\ keys \subseteq Keys
      /\ \A key \in Keys \ keys : ~Owes(r, key)
  <2>1. CASE pc[r] = "del"
    BY <1>1, <2>1 DEF EditInv, Working, Works, Keys, Owes
  <2>2. CASE pc[r] = "incr"
    BY <1>1, <2>2 DEF Owes
  <2>3. CASE pc[r] \notin {"del", "incr"}
    BY <2>3 DEF Owes
  <2>4. QED
    BY <2>1, <2>2, <2>3
<1> HIDE DEF keys
<1>6. ReadInv' /\ Causes'
  BY <1>2, <1>3, <1>4, <1>5, SettleKeepsCauses
<1>7. QED
  BY <1>3, <1>6, PartsNext

------------------------------------------------------------------------------
(* Readers. *)

\* A reader's step, as the others see it.
LEMMA Reads ==
    ASSUME IInv, UNCHANGED <<article, editVars>>, ReadInv', Causes'
    PROVE  IInv'
<1>1. EditInv
  BY Parts
<1>2. EditTypes' /\ SlugsUnique'
  BY <1>1 DEF EditInv, EditTypes, SlugsUnique, editVars
<1>3. Working'
  BY <1>1 DEF EditInv, Working, Works, editVars
<1>4. QED
  BY <1>2, <1>3, PartsNext DEF EditInv

\* A reader that leaves holds nothing.
LEMMA Leaving ==
    ASSUME ReadInv, NEW v \in Readers, Leave(v), cache' \in [Keys -> Entry \cup {Nil}]
    PROVE  /\ ReadInv'
           /\ at'[v] = "idle"
           /\ \A w \in Readers \ {v} :
                  at'[w] = at[w] /\ asks'[w] = asks[w] /\ held'[w] = held[w]
                      /\ current'[w] = current[w]
<1>1. /\ at'[v] = "idle"
      /\ \A w \in Readers \ {v} :
             at'[w] = at[w] /\ asks'[w] = asks[w] /\ held'[w] = held[w]
                 /\ current'[w] = current[w]
  BY DEF ReadInv, ReadTypes, Leave
<1>2. ReadTypes'
  BY DEF ReadInv, ReadTypes, Leave, ReadSteps
<1>3. Reading'
  BY <1>1 DEF ReadInv, Reading
<1>4. QED
  BY <1>1, <1>2, <1>3 DEF ReadInv

LEMMA ReaderPreserves ==
    ASSUME IInv, NEW v \in Readers, ReadStep(v)
    PROVE  IInv'
<1>1. EditInv /\ ReadInv /\ Causes /\ TypeOK /\ UNCHANGED <<article, editVars>>
  BY Parts DEF ReadStep, IInv
<1>2. /\ cache \in [Keys -> Entry \cup {Nil}]
      /\ Reading
  BY <1>1 DEF ReadInv, ReadTypes
<1>3. ASSUME Leave(v), cache' = cache
      PROVE  IInv'
  <2>1. /\ ReadInv'
        /\ at'[v] = "idle"
        /\ \A w \in Readers \ {v} :
               at'[w] = at[w] /\ asks'[w] = asks[w] /\ held'[w] = held[w]
                   /\ current'[w] = current[w]
    BY <1>1, <1>2, <1>3, Leaving
  <2>2. Causes'
    BY <1>1, <1>3, <2>1, ReadKeepsCauses
  <2>3. QED
    BY <1>1, <2>1, <2>2, Reads
<1>4. ASSUME cache' = cache, at'[v] # "store", ReadInv',
             \A w \in Readers \ {v} :
                 at'[w] = at[w] /\ asks'[w] = asks[w] /\ held'[w] = held[w]
                     /\ current'[w] = current[w]
      PROVE  IInv'
  <2>1. Causes'
    BY <1>1, <1>4, ReadKeepsCauses
  <2>2. QED
    BY <1>1, <1>4, <2>1, Reads
<1>5. ASSUME NEW key \in Asked \cup {List}, Ask(v, key)
      PROVE  IInv'
  <2>1. key \in Keys
    BY NewsAssumption DEF Keys
  <2>2. ReadInv'
    BY <1>1, <1>5, <2>1 DEF Ask, ReadInv, ReadTypes, Reading, ReadSteps
  <2>3. QED
    BY <1>1, <1>4, <1>5, <2>2 DEF Ask, ReadInv, ReadTypes
<1>6. CASE TakeVersion(v)
  <2>1. ReadInv'
    BY <1>1, <1>6 DEF TakeVersion, ReadInv, ReadTypes, Reading, ReadSteps
  <2>2. QED
    BY <1>1, <1>4, <1>6, <2>1 DEF TakeVersion, ReadInv, ReadTypes
<1>7. CASE Hit(v)
  BY <1>3, <1>7 DEF Hit
<1>8. CASE Miss(v)
  <2>1. ReadInv'
    BY <1>1, <1>8 DEF Miss, ReadInv, ReadTypes, Reading, ReadSteps
  <2>2. QED
    BY <1>1, <1>4, <1>8, <2>1 DEF Miss, ReadInv, ReadTypes
<1>9. CASE Load(v)
  <2>1. CASE Public(asks[v]) = Broken
    BY <1>3, <1>9, <2>1 DEF Load
  <2>2. CASE Public(asks[v]) # Broken
    <3> DEFINE new == [content |-> Public(asks[v]), excused |-> FALSE]
    <3>1. asks[v] \in Keys
      BY <1>2, <1>9 DEF Load, Reading
    <3>2. new \in Entry /\ new.content = Public(asks[v])
      BY <1>1, <2>2, <3>1, PublicType
    <3>3. /\ at' = [at EXCEPT ![v] = "store"]
          /\ held' = [held EXCEPT ![v] = new]
          /\ UNCHANGED <<cache, asks, current>>
      BY <1>9, <2>2 DEF Load
    <3> HIDE DEF new
    <3>4. /\ held'[v] = new
          /\ \A w \in Readers \ {v} : at'[w] = at[w] /\ held'[w] = held[w]
      BY <1>1, <3>3 DEF ReadInv, ReadTypes
    <3>5. ReadInv'
      BY <1>1, <3>1, <3>2, <3>3 DEF ReadInv, ReadTypes, Reading, ReadSteps
    <3>6. Causes'
      BY <1>1, <3>2, <3>3, <3>4, ReadKeepsCauses
    <3>7. QED
      BY <1>1, <3>5, <3>6, Reads
  <2>3. QED
    BY <2>1, <2>2
<1>10. CASE Store(v)
  <2>1. asks[v] \in Keys /\ held[v] \in Entry /\ Leave(v) /\ at[v] = "store"
    BY <1>2, <1>10 DEF Store, Reading
  <2>2. CASE cache' = cache
    BY <1>3, <2>1, <2>2
  <2>3. CASE /\ current[v]
             /\ cache' = [cache EXCEPT ![asks[v]] =
                   IF asks[v] = List THEN held[v]
                   ELSE [held[v] EXCEPT !.excused = held[v].content # Public(asks[v])]]
    <3> DEFINE new == IF asks[v] = List THEN held[v]
                      ELSE [held[v] EXCEPT !.excused = held[v].content # Public(asks[v])]
    <3>1. new \in Entry
      BY <2>1 DEF Entry
    <3>2. asks[v] # List => new.excused \/ new.content = Public(asks[v])
      BY <2>1 DEF Entry
    <3>3. asks[v] = List => \/ new.excused
                            \/ new.content = Public(List)
                            \/ InvalidationDue(List)
      BY <1>1, <2>1, <2>3 DEF Causes, HeldHasACause
    <3> HIDE DEF new
    <3>4. cache' = [cache EXCEPT ![asks[v]] = new]
      BY <2>3 DEF new
    <3>5. cache' \in [Keys -> Entry \cup {Nil}] /\ cache'[asks[v]] = new
      BY <1>2, <2>1, <3>1, <3>4
    <3>6. /\ ReadInv'
          /\ at'[v] = "idle"
          /\ \A w \in Readers \ {v} :
                 at'[w] = at[w] /\ asks'[w] = asks[w] /\ held'[w] = held[w]
                     /\ current'[w] = current[w]
      BY <1>1, <2>1, <3>5, Leaving
    <3>7. \A key \in Keys \ {asks[v]} : cache'[key] = cache[key]
      BY <1>2, <3>4
    <3>8. Causes'
      BY <1>1, <3>2, <3>3, <3>5, <3>6, <3>7, ReadKeepsCauses
    <3>9. QED
      BY <1>1, <3>6, <3>8, Reads
  <2>4. QED
    BY <1>10, <2>2, <2>3 DEF Store
<1>11. QED
  BY <1>5, <1>6, <1>7, <1>8, <1>9, <1>10 DEF ReadStep

LEMMA Expiring ==
    ASSUME IInv, NEW key \in Keys, Expire(key)
    PROVE  IInv'
<1>1. ReadInv /\ Causes
  BY Parts
<1>2. UNCHANGED <<article, editVars>> /\ UNCHANGED <<at, asks, held, current>>
      /\ cache' = [cache EXCEPT ![key] = Nil]
  BY DEF Expire, readVars
<1>3. ReadInv'
  BY <1>1, <1>2 DEF ReadInv, ReadTypes, Reading
<1>4. \A k \in Keys : cache'[k] = Nil \/ cache'[k] = cache[k]
  BY <1>1, <1>2 DEF ReadInv, ReadTypes
<1>5. Causes'
  BY <1>1, <1>2, <1>4, ReadKeepsCauses
<1>6. QED
  BY <1>2, <1>3, <1>5, Reads

------------------------------------------------------------------------------
(* Theorems. *)

LEMMA InitHolds ==
    Init => IInv
<1>1. SUFFICES ASSUME Init PROVE EditInv /\ ReadInv /\ Causes
  BY Parts
<1>2. EditInv
  BY <1>1 DEF Init, EditInv, EditTypes, SlugsUnique, Working, Works, Steps
<1>3. ReadInv
  BY <1>1 DEF Init, ReadInv, ReadTypes, Reading, ReadSteps
<1>4. Causes
  BY <1>1
     DEF Init, Causes, OutdatedArticleHasACause, OutdatedListHasACause, HeldHasACause, Outdated,
         Keys
<1>5. QED
  BY <1>2, <1>3, <1>4

LEMMA StepPreserves ==
    IInv /\ [Next]_vars => IInv'
<1>1. SUFFICES ASSUME IInv, [Next]_vars PROVE IInv'
  OBVIOUS
<1>2. CASE UNCHANGED vars
  <2>1. UNCHANGED <<article, editVars>> /\ UNCHANGED <<cache, at, asks, held, current>>
    BY <1>2 DEF vars, readVars
  <2>2. ReadInv'
    BY <1>1, <2>1, Parts DEF ReadInv, ReadTypes, Reading
  <2>3. Causes'
    BY <1>1, <2>1, Parts, ReadKeepsCauses
  <2>4. QED
    BY <1>1, <2>1, <2>2, <2>3, Reads
<1>3. ASSUME NEW r \in Requests, EditStep(r)
      PROVE  IInv'
  BY <1>1, <1>3, Preparing, Inserting, Updating, Transition, Refusing, Deleting, Incrementing,
     Crashing DEF EditStep
<1>4. QED
  BY <1>1, <1>2, <1>3, ReaderPreserves, Expiring DEF Next

LEMMA Invariance ==
    Spec => []IInv
  BY InitHolds, StepPreserves, PTL DEF Spec

\* Every variable has its type and no two articles share a slug, deleted ones included, for
\* any number of articles and editors (news.service.ts:1133-1154 and :501).
THEOREM TypeCorrect ==
    Spec => []TypeOK
<1>1. IInv => TypeOK
  BY DEF IInv
<1>2. QED
  BY <1>1, Invariance, PTL

\* A cached article that was right when it was cached is outdated only with one of the
\* causes the model names (news.service.ts:542-545, :576-578, :638, :685 and :730).
THEOREM CauseOfOutdatedArticle ==
    Spec => []OutdatedArticleHasACause
<1>1. IInv => OutdatedArticleHasACause
  BY DEF IInv, Causes
<1>2. QED
  BY <1>1, Invariance, PTL

\* The list of the current version misses no change whose increment is done, however many
\* readers are on their way to store an older one (public.service.ts:229-267).
THEOREM CauseOfOutdatedList ==
    Spec => []OutdatedListHasACause
<1>1. IInv => OutdatedListHasACause
  BY DEF IInv, Causes
<1>2. QED
  BY <1>1, Invariance, PTL
=============================================================================
