-------------------------- MODULE PolicyRegistryProofs --------------------------
(***************************************************************************)
(* For any editors, files, repositories, profiles and bounds: the registry *)
(* stays well typed, the lock of a policy file belongs to one save, what   *)
(* the worker executes was adopted, is pinned and lies outside of the      *)
(* repository it governs, a save replaces what its page was shown, a       *)
(* cleanup removes its own file, and rows follow files.                    *)
(***************************************************************************)
EXTENDS PolicyRegistryProps, TLAPS

Shapes == { c \in Payloads : Shaped(c) }
RowRecords == [id : Nat, path : Files \cup {NoFile},
               document : Documents \cup {NoDocument}, profile : Nat]
AttemptRecords == [status : {"none", "queued", "fetched", "running", "done", "failed"},
                   repository : Nat, policy : Nat, frozen : Configurations,
                   row : RowRecords, root : Roots \cup {NoFile}]
Steps == {"idle", "create", "check", "load", "bind", "insert", "cleanup", "read", "profile",
          "lock", "compare", "replace", "record", "answer", "insert-repository",
          "bind-profile", "freeze"}
Requests == [pc : Steps, op : {"none", "register", "managed", "read", "save", "repository", "review"},
             path : Files \cup {NoFile}, root : Roots \cup {NoFile}, row : RowRecords,
             profile : Nat, repository : Nat, text : Texts \cup {Missing},
             configuration : Configurations]

\* What the locals of a handler are good for at each of its steps.
Fits(r) ==
  /\ r.pc \notin {"idle", "insert-repository"} => r.path \in Files
  /\ r.pc = "insert-repository" => r.root \in Roots
  /\ r.pc \in {"create", "bind", "insert"} \/ r.op = "save" => r.text \in Texts
  /\ r.pc \in {"check", "load", "bind", "insert"} => r.op \in {"register", "managed"}
  /\ r.pc = "freeze" => r.configuration \in Shapes

RequestsTyped ==
  /\ request \in [Editors -> Requests]
  /\ \A e \in Editors : Fits(request[e]) /\ request[e].profile \in Ids

\* Identifiers are given in their order.
TablesTyped ==
  /\ nextId \in Nat
  /\ policies \subseteq [id : Ids, path : Files, document : Documents, profile : Ids]
  /\ profiles \subseteq [id : Ids, configuration : Shapes]
  /\ repositories \subseteq [id : Ids, root : Roots]
  /\ \A r \in policies \cup profiles \cup repositories : r.id < nextId
  /\ \A r, s \in policies : r.id = s.id \/ r.path = s.path => r = s
  /\ \A r, s \in profiles : r.id = s.id => r = s
  /\ \A r, s \in repositories : r.id = s.id \/ r.root = s.root => r = s

PlacesTyped ==
  /\ disk \in [Files -> Texts \cup {Missing}]
  /\ lock \in [Files -> Editors \cup {NoFile}]
  /\ view \in [Editors -> [id : Nat, text : Texts \cup {Missing}]]
  /\ attempts \in [Attempts -> AttemptRecords]

Typed == TablesTyped /\ RequestsTyped /\ PlacesTyped

-----------------------------------------------------------------------------
(* The operators.                                                          *)

\* A row that is looked up is in its table, under the identifier asked for.
LEMMA RowFound ==
  ASSUME NEW table, NEW id, Has(table, id)
  PROVE  Row(table, id) \in table /\ Row(table, id).id = id
  BY DEF Row, Has

\* A text that loads is a text, and has a document of one.
LEMMA LoadedIsText ==
  ASSUME NEW text \in Texts \cup {Missing}, Loads(text)
  PROVE  text \in Texts /\ text.document \in Documents
  BY DEF Loads, Missing, NoDocument, Documents

\* A starter document is one of the texts a file may hold.
LEMMA TemplateIsText ==
  ASSUME NEW c \in Shapes \cup {NoConfiguration}
  PROVE  Template(c) \in Texts
  BY RegistryAssumption DEF Templates, Shapes

\* An idle handler has the locals it needs.
LEMMA IdleFits == Idle \in Requests /\ Fits(Idle) /\ Idle.profile = 0
  BY DEF Idle, Requests, Fits, Steps, RowRecords, NoRow, Configurations

\* An Attempt that is not there yet has the type of one.
LEMMA NoAttemptTyped == NoAttempt \in AttemptRecords
  BY DEF NoAttempt, AttemptRecords, RowRecords, NoRow, Configurations

-----------------------------------------------------------------------------
(* Types.  One lemma per group of actions.                                 *)

\* A registry in use is well typed.
LEMMA InitTyped == Init => Typed
<1> SUFFICES ASSUME Init PROVE Typed
  OBVIOUS
<1>1. PICK path \in Files, text \in Texts, c \in Payloads, owned \in SUBSET Roots :
        /\ Loads(text) /\ Shaped(c) /\ Binds(text.document, c)
        /\ \A root \in owned : path \notin Inside[root]
        /\ \A r, s \in owned : r = s
        /\ disk = [f \in Files |-> IF f = path THEN text ELSE Missing]
        /\ policies = { [id |-> 2, path |-> path, document |-> text.document, profile |-> 1] }
        /\ profiles = { [id |-> 1, configuration |-> c] }
        /\ repositories = { [id |-> 3, root |-> root] : root \in owned }
        /\ view = [e \in Editors |-> [id |-> 2, text |-> text]]
        /\ adopted = { <<2, text.document>> }
  BY Zenon DEF Init
<1>2. nextId = 4 /\ Ids = 0 .. 4
  BY DEF Init, Ids
<1>3. TablesTyped
  BY <1>1, <1>2 DEF TablesTyped, Shapes, Documents
<1>4. RequestsTyped
  BY <1>2, IdleFits DEF Init, RequestsTyped
<1>5. PlacesTyped
  BY <1>1, NoAttemptTyped DEF Init, PlacesTyped
<1> QED
  BY <1>3, <1>4, <1>5 DEF Typed

\* A handler goes to its next step, or ends.
LEMMA RequestsKept ==
  ASSUME Typed, NEW e \in Editors, NEW r,
         r \in Requests, Fits(r), r.profile \in Ids, Keeps(e, r),
         nextId' \in Nat, nextId' >= nextId
  PROVE  RequestsTyped'
  BY DEF Keeps, Typed, RequestsTyped, TablesTyped, Ids

\* Handlers stay well typed when identifiers are given.
LEMMA RequestsStay ==
  ASSUME Typed, request' = request, nextId' \in Nat, nextId' >= nextId
  PROVE  RequestsTyped'
  BY DEF Typed, RequestsTyped, TablesTyped, Ids

\* A row of the table is a row a handler may carry.
LEMMA RowsAreRecords ==
  ASSUME Typed, NEW row \in policies
  PROVE  row \in RowRecords /\ row.path \in Files /\ row.profile \in Ids
  BY DEF Typed, TablesTyped, RowRecords, Ids

\* A request arrives that only reads the tables.
LEMMA ArrivalTyped ==
  ASSUME Typed, NEW e \in Editors,
         \/ RegisterBegins(e) \/ ManagedBegins(e) \/ SaveBegins(e) \/ ReadBegins(e)
         \/ RepositoryBegins(e) \/ ReviewBegins(e)
  PROVE  Typed'
<1> DEFINE known == {0} \cup { r.id : r \in profiles }
<1>1. known \subseteq Ids /\ known \subseteq Nat /\ 0 \in Ids /\ 0 \in Nat /\ nextId \in Nat
  BY DEF Typed, TablesTyped, Ids
<1>2. TablesTyped' /\ PlacesTyped' /\ nextId' = nextId
  BY DEF Typed, TablesTyped, PlacesTyped, Ids, tables, RegisterBegins, ManagedBegins, SaveBegins,
         ReadBegins, RepositoryBegins, ReviewBegins
<1>3. SUFFICES \E r : r \in Requests /\ Fits(r) /\ r.profile \in Ids /\ Keeps(e, r)
  BY <1>1, <1>2, RequestsKept DEF Typed
<1>4. CASE RegisterBegins(e)
  <2>1. PICK path \in Files, p \in known :
          Keeps(e, [Idle EXCEPT !.pc = "check", !.op = "register", !.path = path, !.profile = p])
    BY <1>4 DEF RegisterBegins
  <2> HIDE DEF known
  <2> QED
    BY <2>1, <1>1, IdleFits DEF Requests, Fits, Steps, Idle
<1>5. CASE ManagedBegins(e)
  <2>1. PICK path \in Managed, p \in known :
          Keeps(e, [Idle EXCEPT !.pc = "create", !.op = "managed", !.path = path, !.profile = p,
               !.text = Template(IF p = 0 THEN NoConfiguration
                                 ELSE Row(profiles, p).configuration)])
    BY <1>5 DEF ManagedBegins
  <2>2. p # 0 => Has(profiles, p)
    BY DEF Has
  <2>3. p # 0 => Row(profiles, p).configuration \in Shapes
    BY <2>2, RowFound DEF Typed, TablesTyped
  <2>4. Template(IF p = 0 THEN NoConfiguration ELSE Row(profiles, p).configuration) \in Texts
    BY <2>3, TemplateIsText
  <2>5. path \in Files
    BY RegistryAssumption
  <2> HIDE DEF known
  <2> QED
    BY <2>1, <2>4, <2>5, <1>1, IdleFits DEF Requests, Fits, Steps, Idle
<1>6. CASE SaveBegins(e)
  <2> DEFINE row == Row(policies, view[e].id)
  <2>1. PICK text \in Texts :
          Keeps(e, [Idle EXCEPT !.pc = "profile", !.op = "save", !.path = row.path, !.row = row,
                         !.text = text])
    BY <1>6 DEF SaveBegins
  <2>2. row \in RowRecords /\ row.path \in Files
    BY <1>6, RowFound, RowsAreRecords DEF SaveBegins
  <2> HIDE DEF row
  <2> QED
    BY <2>1, <2>2, <1>1, IdleFits DEF Requests, Fits, Steps, Idle
<1>7. CASE ReadBegins(e)
  <2>1. PICK row \in policies : Reads(e, row)
    BY <1>7 DEF ReadBegins
  <2>2. row \in RowRecords /\ row.path \in Files
    BY RowsAreRecords
  <2> QED
    BY <2>1, <2>2, <1>1, IdleFits DEF Reads, Requests, Fits, Steps, Idle
<1>8. CASE RepositoryBegins(e)
  <2>1. PICK root \in Roots :
          Keeps(e, [Idle EXCEPT !.pc = "insert-repository", !.op = "repository", !.root = root])
    BY <1>8 DEF RepositoryBegins
  <2> QED
    BY <2>1, <1>1, IdleFits DEF Requests, Fits, Steps, Idle
<1>9. CASE ReviewBegins(e)
  <2>1. PICK r \in repositories, row \in policies :
          Keeps(e, [Idle EXCEPT !.pc = "bind-profile", !.op = "review", !.row = row,
                         !.path = row.path, !.repository = r.id])
    BY <1>9 DEF ReviewBegins
  <2>2. row \in RowRecords /\ row.path \in Files
    BY RowsAreRecords
  <2>3. r.id \in Nat
    BY DEF Typed, TablesTyped, Ids
  <2> QED
    BY <2>1, <2>2, <2>3, <1>1, IdleFits DEF Requests, Fits, Steps, Idle
<1> QED
  BY <1>4, <1>5, <1>6, <1>7, <1>8, <1>9

\* A handler that registers, reads or saves goes on; the tables stay.
LEMMA HandlerTyped ==
  ASSUME Typed, NEW e \in Editors,
         \/ ManagedCreates(e) \/ RegisterChecks(e) \/ RegisterLoads(e) \/ RegisterBinds(e)
         \/ ManagedCleansUp(e) \/ SaveAnswers(e) \/ ReadLoads(e) \/ SaveReadsProfile(e)
         \/ SaveLocks(e) \/ SaveCompares(e) \/ SaveReplaces(e) \/ ReviewBinds(e)
  PROVE  Typed'
<1> DEFINE r == request[e]
<1>1. r \in Requests /\ Fits(r) /\ r.profile \in Ids /\ 0 \in Ids /\ nextId \in Nat
  BY DEF Typed, RequestsTyped, TablesTyped, Ids
<1>2. /\ r.pc \in Steps /\ r.path \in Files \cup {NoFile} /\ r.text \in Texts \cup {Missing}
      /\ r.row \in RowRecords /\ disk \in [Files -> Texts \cup {Missing}]
      /\ NoConfiguration \in Configurations /\ Shapes \subseteq Configurations
  BY <1>1 DEF Requests, Typed, PlacesTyped, Configurations, Shapes
<1>3. TablesTyped' /\ nextId' = nextId /\ Ids' = Ids
  BY DEF Typed, TablesTyped, Ids, tables, ManagedCreates, RegisterChecks, RegisterLoads,
         RegisterBinds, ManagedCleansUp, SaveAnswers, ReadLoads, SaveReadsProfile, SaveLocks,
         SaveCompares, SaveReplaces, ReviewBinds
<1> HIDE DEF r
<1>4. ASSUME NEW q, q \in Requests, Fits(q), q.profile \in Ids, Keeps(e, q)
      PROVE  RequestsTyped'
  BY <1>1, <1>3, <1>4, RequestsKept
<1>5. Ends(e) => RequestsTyped'
  BY <1>1, <1>4, IdleFits DEF Ends, Keeps
<1>6. ASSUME NEW pc \in {"check", "load", "insert", "cleanup", "lock", "compare", "replace",
                         "record", "answer"},
             Goto(e, pc), r.path \in Files,
             pc \in {"check", "load", "insert"} => r.op \in {"register", "managed"},
             pc = "insert" => r.text \in Texts
      PROVE  RequestsTyped'
  <2>1. Keeps(e, [r EXCEPT !.pc = pc])
    BY <1>6 DEF Goto, Keeps, r, Typed, RequestsTyped
  <2>2. [r EXCEPT !.pc = pc] \in Requests
    BY <1>1 DEF Requests, Steps
  <2>3. /\ [r EXCEPT !.pc = pc].pc = pc /\ [r EXCEPT !.pc = pc].path = r.path
        /\ [r EXCEPT !.pc = pc].op = r.op /\ [r EXCEPT !.pc = pc].text = r.text
        /\ [r EXCEPT !.pc = pc].profile = r.profile
    BY <1>1 DEF Requests
  <2>4. Fits([r EXCEPT !.pc = pc])
    BY <2>3, <1>1, <1>6 DEF Fits
  <2> QED
    BY <2>1, <2>2, <2>3, <2>4, <1>1, <1>4
<1>7. CASE ManagedCreates(e)
  <2>1. r.pc = "create" /\ r.op = "managed" /\ r.path \in Files /\ r.text \in Texts
    BY <1>1, <1>7 DEF ManagedCreates, At, r, Fits
  <2>2. RequestsTyped'
    BY <1>5, <1>6, <1>7, <2>1 DEF ManagedCreates
  <2>3. PlacesTyped'
    BY <1>7, <2>1 DEF ManagedCreates, Typed, PlacesTyped, r
  <2> QED
    BY <1>3, <2>2, <2>3 DEF Typed
<1>8. CASE RegisterChecks(e)
  <2>1. r.path \in Files /\ r.op \in {"register", "managed"}
    BY <1>1, <1>8 DEF RegisterChecks, Fits, r
  <2>2. RequestsTyped'
    BY <1>5, <1>6, <1>8, <2>1 DEF RegisterChecks, Fails
  <2> QED
    BY <1>3, <1>8, <2>2 DEF Typed, PlacesTyped, RegisterChecks
<1>9. CASE RegisterLoads(e)
  <2> DEFINE text == disk[r.path]
             q == [r EXCEPT !.pc = "bind", !.text = text]
  <2>1. r.path \in Files /\ r.op \in {"register", "managed"}
    BY <1>1, <1>9 DEF RegisterLoads, Fits, r
  <2>2. ASSUME Loads(text) PROVE RequestsTyped'
    <3>1. Keeps(e, q)
      BY <1>9, <2>2 DEF RegisterLoads, r
    <3>2. text \in Texts
      BY <1>2, <2>1, <2>2, LoadedIsText
    <3>3. q \in Requests /\ Fits(q) /\ q.profile = r.profile
      BY <1>1, <2>1, <3>2 DEF Requests, Fits, Steps
    <3> QED
      BY <1>1, <1>4, <3>1, <3>3
  <2>3. ASSUME ~Loads(text) PROVE RequestsTyped'
    BY <1>5, <1>6, <1>9, <2>1, <2>3 DEF RegisterLoads, Fails, r
  <2> QED
    BY <1>3, <1>9, <2>2, <2>3 DEF Typed, PlacesTyped, RegisterLoads
<1>10. CASE RegisterBinds(e)
  <2>1. r.path \in Files /\ r.op \in {"register", "managed"} /\ r.text \in Texts
    BY <1>1, <1>10 DEF RegisterBinds, Fits, r
  <2>2. RequestsTyped'
    BY <1>5, <1>6, <1>10, <2>1 DEF RegisterBinds, Fails
  <2> QED
    BY <1>3, <1>10, <2>2 DEF Typed, PlacesTyped, RegisterBinds
<1>11. CASE ManagedCleansUp(e)
  <2>1. RequestsTyped'
    BY <1>5, <1>11 DEF ManagedCleansUp
  <2> QED
    BY <1>3, <1>11, <2>1 DEF Typed, PlacesTyped, ManagedCleansUp
<1>12. CASE SaveAnswers(e)
  <2> DEFINE row == Row(policies, r.row.id)
  <2>1. ASSUME Has(policies, r.row.id) /\ Reads(e, row) PROVE RequestsTyped'
    <3>1. row \in RowRecords /\ row.path \in Files
      BY <2>1, RowFound, RowsAreRecords
    <3> DEFINE q == [Idle EXCEPT !.pc = "read", !.op = "read", !.path = row.path, !.row = row]
    <3>2. Keeps(e, q)
      BY <2>1 DEF Reads
    <3> HIDE DEF row
    <3>3. q \in Requests /\ Fits(q) /\ q.profile = 0
      BY <3>1, IdleFits DEF Requests, Fits, Steps, Idle
    <3> QED
      BY <1>1, <1>4, <3>2, <3>3
  <2> QED
    BY <1>3, <1>5, <1>12, <2>1 DEF Typed, PlacesTyped, SaveAnswers, r
<1>13. CASE ReadLoads(e)
  <2>1. RequestsTyped'
    BY <1>5, <1>13 DEF ReadLoads
  <2>2. r.path \in Files /\ r.row.id \in Nat
    BY <1>1, <1>2, <1>13 DEF ReadLoads, At, Fits, r, RowRecords
  <2>3. disk[r.path] \in Texts \cup {Missing}
    BY <1>2, <2>2
  <2>4. view' \in [Editors -> [id : Nat, text : Texts \cup {Missing}]]
    BY <1>13, <2>2, <2>3 DEF ReadLoads, Typed, PlacesTyped, r
  <2> QED
    BY <1>3, <1>13, <2>1, <2>4 DEF Typed, PlacesTyped, ReadLoads
<1>14. CASE SaveReadsProfile(e)
  <2> DEFINE c == IF Has(profiles, r.row.profile) THEN Row(profiles, r.row.profile).configuration
                  ELSE NoConfiguration
             q == [r EXCEPT !.pc = "lock", !.configuration = c]
  <2>1. c \in Configurations
    BY <1>2, RowFound DEF Typed, TablesTyped
  <2>2. r.path \in Files /\ r.op = "save" /\ r.text \in Texts
    BY <1>1, <1>14 DEF SaveReadsProfile, At, Fits, r
  <2>3. Keeps(e, q)
    BY <1>14 DEF SaveReadsProfile, r
  <2> HIDE DEF c
  <2>4. q \in Requests /\ Fits(q) /\ q.profile = r.profile
    BY <1>1, <2>1, <2>2 DEF Requests, Fits, Steps
  <2> QED
    BY <1>1, <1>3, <1>4, <1>14, <2>3, <2>4 DEF Typed, PlacesTyped, SaveReadsProfile
<1>15. CASE SaveLocks(e) \/ SaveCompares(e) \/ SaveReplaces(e)
  <2>1. r.path \in Files /\ r.text \in Texts
    BY <1>1, <1>15 DEF SaveLocks, SaveCompares, SaveReplaces, At, Fits, r
  <2>2. RequestsTyped'
    BY <1>5, <1>6, <1>15, <2>1 DEF SaveLocks, SaveCompares, SaveReplaces
  <2>3. PlacesTyped'
    BY <1>15, <2>1 DEF Typed, PlacesTyped, SaveLocks, SaveCompares, SaveReplaces, Releases, r
  <2> QED
    BY <1>3, <2>2, <2>3 DEF Typed
<1>16. CASE ReviewBinds(e)
  <2> DEFINE c == Row(profiles, r.row.profile).configuration
             q == [r EXCEPT !.pc = "freeze", !.configuration = c]
  <2>1. ASSUME Has(profiles, r.row.profile) /\ Keeps(e, q) PROVE RequestsTyped'
    <3>1. c \in Shapes
      BY <2>1, RowFound DEF Typed, TablesTyped
    <3>2. r.path \in Files /\ r.op = "review"
      BY <1>1, <1>16 DEF ReviewBinds, At, Fits, r
    <3> HIDE DEF c
    <3>3. q \in Requests /\ Fits(q) /\ q.profile = r.profile
      BY <1>1, <1>2, <3>1, <3>2 DEF Requests, Fits, Steps
    <3> QED
      BY <1>1, <1>4, <2>1, <3>3
  <2> QED
    BY <1>3, <1>5, <1>16, <2>1 DEF Typed, PlacesTyped, ReviewBinds, r
<1> QED
  BY <1>7, <1>8, <1>9, <1>10, <1>11, <1>12, <1>13, <1>14, <1>15, <1>16

\* Rows are inserted, changed and removed.
LEMMA TableTyped ==
  ASSUME Typed, NEW e \in Editors,
         \/ RegisterInserts(e) \/ SaveRecords(e) \/ RepositoryInserts(e) \/ Unregister(e)
         \/ DeleteRepository(e) \/ CreateProfile(e) \/ UpdateProfile(e) \/ DeleteProfile(e)
  PROVE  Typed'
<1> DEFINE r == request[e]
<1>1. r \in Requests /\ Fits(r) /\ r.profile \in Ids /\ r.profile \in Nat /\ nextId \in Nat
  BY DEF Typed, RequestsTyped, TablesTyped, Requests
<1>2. ASSUME NEW q, q \in Requests, Fits(q), q.profile \in Ids, Keeps(e, q),
             nextId' = nextId \/ nextId' = nextId + 1
      PROVE  RequestsTyped'
  BY <1>1, <1>2, RequestsKept
<1>3. Ends(e) /\ (nextId' = nextId \/ nextId' = nextId + 1) => RequestsTyped'
  <2>1. Ends(e) => Keeps(e, Idle)
    BY DEF Ends, Keeps
  <2>2. Idle.profile \in Ids
    BY <1>1, IdleFits DEF Ids
  <2> QED
    BY <1>2, <2>1, <2>2, IdleFits
<1>4. CASE RegisterInserts(e)
  <2>1. r.path \in Files /\ r.op \in {"register", "managed"} /\ r.text \in Texts
    BY <1>1, <1>4 DEF RegisterInserts, Fits, r
  <2>2. r.text.document \in Documents
    BY <2>1 DEF Documents
  <2>3. CASE Registered(r.path)
    <3>1. TablesTyped' /\ nextId' = nextId
      BY <1>4, <2>3 DEF RegisterInserts, Typed, TablesTyped, Ids, r
    <3>2. Ends(e) \/ Goto(e, "cleanup")
      BY <1>4, <2>3 DEF RegisterInserts, Fails, r
    <3>3. Goto(e, "cleanup") => Keeps(e, [r EXCEPT !.pc = "cleanup"])
      BY DEF Goto, Keeps, r, Typed, RequestsTyped
    <3>4. /\ [r EXCEPT !.pc = "cleanup"] \in Requests /\ Fits([r EXCEPT !.pc = "cleanup"])
          /\ [r EXCEPT !.pc = "cleanup"].profile = r.profile
      BY <1>1, <2>1 DEF Requests, Fits, Steps
    <3>5. RequestsTyped'
      BY <1>1, <1>2, <1>3, <3>1, <3>2, <3>3, <3>4
    <3> QED
      BY <1>4, <3>1, <3>5 DEF Typed, PlacesTyped, RegisterInserts
  <2>4. CASE ~Registered(r.path)
    <3> DEFINE row == [id |-> nextId, path |-> r.path, document |-> r.text.document,
                       profile |-> r.profile]
    <3>1. policies' = policies \cup {row} /\ nextId' = nextId + 1 /\ Ends(e)
      BY <1>4, <2>4 DEF RegisterInserts, r
    <3>2. UNCHANGED <<profiles, repositories>>
      BY <1>4 DEF RegisterInserts
    <3>3. row \in [id : Ids', path : Files, document : Documents, profile : Ids'] /\ Ids \subseteq Ids'
      BY <1>1, <2>1, <2>2, <3>1 DEF Ids
    <3>4. \A s \in policies : s.id # row.id /\ s.path # row.path
      BY <1>1, <2>4 DEF Registered, Typed, TablesTyped, Ids
    <3>5. row.id < nextId'
      BY <1>1, <3>1
    <3> HIDE DEF row
    <3>6. TablesTyped'
      BY <3>1, <3>2, <3>3, <3>4, <3>5, <1>1 DEF Typed, TablesTyped, Ids
    <3>7. RequestsTyped'
      BY <1>3, <3>1
    <3> QED
      BY <1>4, <3>6, <3>7 DEF Typed, PlacesTyped, RegisterInserts
  <2> QED
    BY <2>3, <2>4
<1>5. CASE SaveRecords(e)
  <2>1. r.path \in Files /\ r.text \in Texts
    BY <1>1, <1>5 DEF SaveRecords, At, Fits, r
  <2>2. r.text.document \in Documents
    BY <2>1 DEF Documents
  <2> DEFINE New(row) == IF row.id = r.row.id THEN [row EXCEPT !.document = r.text.document]
                         ELSE row
  <2>3. policies' = { New(row) : row \in policies } /\ nextId' = nextId
    BY <1>5 DEF SaveRecords, r
  <2>4. \A row \in policies :
          /\ New(row) \in [id : Ids, path : Files, document : Documents, profile : Ids]
          /\ New(row).id = row.id /\ New(row).path = row.path
    BY <2>2 DEF Typed, TablesTyped
  <2> HIDE DEF New
  <2>5. TablesTyped'
    <3>1. Ids' = Ids
      BY <2>3 DEF Ids
    <3>2. UNCHANGED <<profiles, repositories, nextId>>
      BY <1>5, <2>3 DEF SaveRecords
    <3>3. /\ policies' \subseteq [id : Ids, path : Files, document : Documents, profile : Ids]
          /\ \A s \in policies' : s.id < nextId
          /\ \A s, u \in policies' : s.id = u.id \/ s.path = u.path => s = u
      BY <2>3, <2>4 DEF Typed, TablesTyped
    <3> QED
      BY <3>1, <3>2, <3>3 DEF Typed, TablesTyped
  <2>6. Keeps(e, [r EXCEPT !.pc = "answer"])
    BY <1>5 DEF SaveRecords, Goto, Keeps, r, Typed, RequestsTyped
  <2>7. /\ [r EXCEPT !.pc = "answer"] \in Requests /\ Fits([r EXCEPT !.pc = "answer"])
        /\ [r EXCEPT !.pc = "answer"].profile = r.profile
    BY <1>1, <2>1 DEF Requests, Fits, Steps
  <2>8. RequestsTyped'
    BY <1>1, <1>2, <2>3, <2>6, <2>7
  <2>9. PlacesTyped'
    BY <1>5, <2>1 DEF Typed, PlacesTyped, SaveRecords, Releases, r
  <2> QED
    BY <2>5, <2>8, <2>9 DEF Typed
<1>6. CASE RepositoryInserts(e)
  <2>1. r.root \in Roots
    BY <1>1, <1>6 DEF RepositoryInserts, At, Fits, r
  <2>2. TablesTyped' /\ (nextId' = nextId \/ nextId' = nextId + 1)
    BY <1>1, <1>6, <2>1 DEF RepositoryInserts, Typed, TablesTyped, Ids, r
  <2>3. RequestsTyped'
    BY <1>3, <1>6, <2>2 DEF RepositoryInserts
  <2> QED
    BY <1>6, <2>2, <2>3 DEF Typed, PlacesTyped, RepositoryInserts
<1>7. CASE Unregister(e) \/ DeleteRepository(e) \/ CreateProfile(e) \/ UpdateProfile(e)
           \/ DeleteProfile(e)
  <2>1. request' = request /\ nextId' \in Nat /\ nextId' >= nextId
    BY <1>1, <1>7 DEF Unregister, DeleteRepository, CreateProfile, UpdateProfile, DeleteProfile
  <2>2. RequestsTyped'
    BY <2>1, RequestsStay
  <2>3. PlacesTyped'
    BY <1>7 DEF Typed, PlacesTyped, Unregister, DeleteRepository, CreateProfile, UpdateProfile,
                DeleteProfile
  <2>4. CASE Unregister(e) \/ DeleteRepository(e) \/ DeleteProfile(e)
    <3>1. TablesTyped'
      BY <2>4 DEF Typed, TablesTyped, Ids, Unregister, DeleteRepository, DeleteProfile
    <3> QED
      BY <2>2, <2>3, <3>1 DEF Typed
  <2>5. CASE CreateProfile(e)
    <3>1. PICK c \in Payloads :
            Shaped(c) /\ profiles' = profiles \cup { [id |-> nextId, configuration |-> c] }
      BY <2>5 DEF CreateProfile
    <3>2. TablesTyped'
      BY <1>1, <2>5, <3>1 DEF CreateProfile, Typed, TablesTyped, Ids, Shapes
    <3> QED
      BY <2>2, <2>3, <3>2 DEF Typed
  <2>6. CASE UpdateProfile(e)
    <3>1. PICK p \in profiles, c \in Payloads :
            /\ Shaped(c)
            /\ profiles' = (profiles \ {p}) \cup { [p EXCEPT !.configuration = c] }
      BY <2>6 DEF UpdateProfile
    <3>2. TablesTyped'
      BY <1>1, <2>6, <3>1 DEF UpdateProfile, Typed, TablesTyped, Ids, Shapes
    <3> QED
      BY <2>2, <2>3, <3>2 DEF Typed
  <2> QED
    BY <1>7, <2>4, <2>5, <2>6
<1> QED
  BY <1>4, <1>5, <1>6, <1>7

\* The worker, an Attempt that is created, and the world around the server.
LEMMA AttemptTyped ==
  ASSUME Typed,
         \/ \E e \in Editors : ReviewFreezes(e)
         \/ \E a \in Attempts : WorkerFetches(a) \/ WorkerPrepares(a) \/ WorkerEnds(a)
         \/ OutsideEdit \/ Crash
  PROVE  Typed'
<1>1. TablesTyped' /\ nextId' = nextId /\ nextId \in Nat
  BY DEF Typed, TablesTyped, Ids, tables, ReviewFreezes, WorkerFetches, WorkerPrepares, WorkerEnds,
         OutsideEdit, Crash
<1>2. CASE \E e \in Editors : ReviewFreezes(e)
  <2>1. PICK e \in Editors : ReviewFreezes(e)
    BY <1>2
  <2> DEFINE r == request[e]
  <2>2. /\ r.repository \in Nat /\ r.row.id \in Nat
        /\ r.configuration \in Configurations
    BY DEF Typed, RequestsTyped, Requests, RowRecords
  <2>3. attempts' \in [Attempts -> AttemptRecords]
    <3> DEFINE new == [NoAttempt EXCEPT !.status = "queued", !.repository = r.repository,
                                        !.policy = r.row.id, !.frozen = r.configuration]
    <3>1. new \in AttemptRecords
      BY <2>2, NoAttemptTyped DEF AttemptRecords
    <3>2. attempts' = attempts \/ \E a \in Attempts : attempts' = [attempts EXCEPT ![a] = new]
      BY <2>1 DEF ReviewFreezes
    <3> HIDE DEF new
    <3> QED
      BY <3>1, <3>2 DEF Typed, PlacesTyped
  <2>4. Keeps(e, Idle)
    BY <2>1 DEF ReviewFreezes, Ends, Keeps
  <2>5. Idle.profile \in Ids
    BY <1>1, IdleFits DEF Ids
  <2>6. RequestsTyped'
    BY <1>1, <2>4, <2>5, IdleFits, RequestsKept
  <2>7. UNCHANGED <<disk, lock, view>>
    BY <2>1 DEF ReviewFreezes
  <2> QED
    BY <1>1, <2>3, <2>6, <2>7 DEF Typed, PlacesTyped
<1>3. CASE \E a \in Attempts : WorkerFetches(a) \/ WorkerPrepares(a) \/ WorkerEnds(a)
  <2>1. PICK a \in Attempts : WorkerFetches(a) \/ WorkerPrepares(a) \/ WorkerEnds(a)
    BY <1>3
  <2> DEFINE w == attempts[a]
  <2>2. w \in AttemptRecords
    BY DEF Typed, PlacesTyped
  <2>3. UNCHANGED <<disk, lock, view, request>>
    BY <2>1 DEF WorkerFetches, WorkerPrepares, WorkerEnds, tables
  <2>4. PICK new : attempts' = [attempts EXCEPT ![a] = new] /\ new \in AttemptRecords
    <3>1. CASE WorkerFetches(a)
      <4> DEFINE fetched == [w EXCEPT !.status = "fetched", !.row = Row(policies, w.policy),
                                      !.root = Row(repositories, w.repository).root]
      <4>1. CASE Has(repositories, w.repository) /\ Has(policies, w.policy)
        <5>1. /\ Row(policies, w.policy) \in RowRecords
              /\ Row(repositories, w.repository).root \in Roots
          BY <4>1, RowFound, RowsAreRecords DEF Typed, TablesTyped
        <5>2. fetched \in AttemptRecords
          BY <2>2, <5>1 DEF AttemptRecords
        <5> QED
          BY <3>1, <4>1, <5>2 DEF WorkerFetches
      <4>2. CASE ~(Has(repositories, w.repository) /\ Has(policies, w.policy))
        <5>1. [w EXCEPT !.status = "failed"] \in AttemptRecords
          BY <2>2 DEF AttemptRecords
        <5> QED
          BY <3>1, <4>2, <5>1 DEF WorkerFetches
      <4> QED
        BY <4>1, <4>2
    <3>2. CASE WorkerPrepares(a) \/ WorkerEnds(a)
      <4>1. PICK status \in {"running", "failed", "done"} :
              attempts' = [attempts EXCEPT ![a] = [w EXCEPT !.status = status]]
        BY <3>2 DEF WorkerPrepares, WorkerEnds
      <4>2. [w EXCEPT !.status = status] \in AttemptRecords
        BY <2>2 DEF AttemptRecords
      <4> QED
        BY <4>1, <4>2
    <3> QED
      BY <2>1, <3>1, <3>2
  <2>5. RequestsTyped'
    BY <1>1, <2>3, RequestsStay
  <2> QED
    BY <1>1, <2>3, <2>4, <2>5 DEF Typed, PlacesTyped
<1>4. CASE OutsideEdit
  <2>1. request' = request
    BY <1>4 DEF OutsideEdit
  <2>2. RequestsTyped'
    BY <1>1, <2>1, RequestsStay
  <2>3. PlacesTyped'
    BY <1>4 DEF OutsideEdit, Typed, PlacesTyped
  <2> QED
    BY <1>1, <2>2, <2>3 DEF Typed
<1>5. CASE Crash
  <2>1. 0 \in Ids'
    BY <1>1 DEF Ids
  <2>2. RequestsTyped'
    BY <1>5, <2>1, IdleFits DEF Crash, RequestsTyped
  <2>3. \A a \in Attempts :
          [attempts[a] EXCEPT !.status = "queued", !.row = NoRow, !.root = NoFile] \in AttemptRecords
    BY DEF Typed, PlacesTyped, AttemptRecords, RowRecords, NoRow
  <2>4. attempts' \in [Attempts -> AttemptRecords]
    BY <1>5, <2>3 DEF Crash, Typed, PlacesTyped
  <2>5. lock' \in [Files -> Editors \cup {NoFile}] /\ UNCHANGED <<disk, view>>
    BY <1>5 DEF Crash
  <2> QED
    BY <1>1, <2>2, <2>4, <2>5 DEF Typed, PlacesTyped
<1> QED
  BY <1>2, <1>3, <1>4, <1>5

\* A step that changes nothing leaves the types.
LEMMA StutterTyped ==
  ASSUME Typed, UNCHANGED vars
  PROVE  Typed'
  BY DEF Typed, TablesTyped, RequestsTyped, PlacesTyped, Ids, vars, tables

\* Typed is inductive.
LEMMA TypedKept == Typed /\ [Next]_vars => Typed'
<1> SUFFICES ASSUME Typed, [Next]_vars PROVE Typed'
  OBVIOUS
<1>1. ASSUME NEW e \in Editors, Arrives(e) \/ Handles(e) PROVE Typed'
  BY <1>1, ArrivalTyped, HandlerTyped, TableTyped, AttemptTyped DEF Arrives, Handles
<1>2. ASSUME \/ \E a \in Attempts : WorkerFetches(a) \/ WorkerPrepares(a) \/ WorkerEnds(a)
             \/ OutsideEdit \/ Crash
      PROVE Typed'
  BY <1>2, AttemptTyped
<1> QED
  BY <1>1, <1>2, StutterTyped DEF Next

\* Typed is stronger than the type invariant of the runs.
LEMMA TypedMeansTypes == Typed => PolicyRegistryTypeOK
  BY DEF Typed, TablesTyped, RequestsTyped, PlacesTyped, Requests, AttemptRecords, Shapes,
         Configurations, PolicyRegistryTypeOK

\* The tables, the files and the handlers keep their types, identifiers are
\* given once, and a file or a root is registered once.
THEOREM RegistryTypeCorrect == Spec => []PolicyRegistryTypeOK
<1>1. Typed /\ [Next]_vars => Typed'
  BY TypedKept
<1> QED
  BY <1>1, InitTyped, TypedMeansTypes, PTL DEF Spec

-----------------------------------------------------------------------------
(* Saving under the lock.                                                  *)

\* A save that is at work on its file.
Works(r) == r.op = "save" /\ r.pc \in {"compare", "replace", "record"}

\* A request that arrives comes to an idle handler, does not work on a file
\* yet, and leaves files and locks alone.
LEMMA ArrivalIsQuiet ==
  ASSUME Typed, NEW e \in Editors, Arrives(e)
  PROVE  /\ request[e] = Idle
         /\ UNCHANGED <<disk, lock, view, attempts, maker, executions>>
         /\ disturbed \subseteq disturbed'
         /\ \A f \in Editors \ {e} : request'[f] = request[f]
         /\ request'[e].pc \notin {"bind", "insert", "cleanup", "compare", "replace", "record", "answer"}
         /\ request'[e].op = "managed" => request'[e].pc = "create"
         /\ SaveBegins(e) \/ request'[e].op # "save"
<1> USE DEF tables, history, Asks
<1>1. request \in [Editors -> Requests]
  BY DEF Typed, RequestsTyped
<1>2. CASE RegisterBegins(e)
  BY <1>1, <1>2 DEF RegisterBegins, Keeps, Idle
<1>3. CASE ManagedBegins(e)
  BY <1>1, <1>3 DEF ManagedBegins, Keeps, Idle
<1>4. CASE SaveBegins(e)
  BY <1>1, <1>4 DEF SaveBegins, Keeps, Idle
<1>5. CASE ReadBegins(e)
  BY <1>1, <1>5 DEF ReadBegins, Reads, Keeps, Idle
<1>6. CASE RepositoryBegins(e)
  BY <1>1, <1>6 DEF RepositoryBegins, Keeps, Idle
<1>7. CASE ReviewBegins(e)
  BY <1>1, <1>7 DEF ReviewBegins, Keeps, Idle
<1>8. CASE Unregister(e) \/ DeleteRepository(e) \/ CreateProfile(e) \/ UpdateProfile(e)
           \/ DeleteProfile(e)
  BY <1>8 DEF Unregister, DeleteRepository, CreateProfile, UpdateProfile, DeleteProfile, Idle
<1> QED
  BY <1>2, <1>3, <1>4, <1>5, <1>6, <1>7, <1>8 DEF Arrives

\* A handler that holds no lock takes none in these steps.
LEMMA OthersDoNotWork ==
  ASSUME Typed, NEW e \in Editors,
         \/ ManagedCreates(e) \/ RegisterChecks(e) \/ RegisterLoads(e) \/ RegisterBinds(e)
         \/ RegisterInserts(e) \/ ManagedCleansUp(e) \/ SaveAnswers(e) \/ ReadLoads(e)
         \/ SaveReadsProfile(e) \/ RepositoryInserts(e) \/ ReviewBinds(e) \/ ReviewFreezes(e)
  PROVE  /\ ~Works(request[e]) /\ ~Works(request'[e])
         /\ lock' = lock
         /\ \A f \in Editors \ {e} : request'[f] = request[f]
<1> DEFINE r == request[e]
<1>1. request \in [Editors -> Requests] /\ Fits(request[e])
  BY DEF Typed, RequestsTyped
<1>2. ASSUME NEW q, Keeps(e, q)
      PROVE  request'[e] = q /\ \A f \in Editors \ {e} : request'[f] = request[f]
  BY <1>2, <1>1 DEF Keeps
<1>3. CASE ManagedCreates(e)
  BY <1>1, <1>3 DEF ManagedCreates, At, Goto, Ends, Idle, Works, Requests
<1>4. CASE RegisterChecks(e) \/ RegisterBinds(e)
  BY <1>1, <1>4 DEF RegisterChecks, RegisterBinds, At, Goto, Fails, Ends, Idle, Works, Fits, Requests
<1>5. CASE RegisterLoads(e)
  <2> DEFINE text == disk[r.path]
             q == [r EXCEPT !.pc = "bind", !.text = text]
  <2>1. r.op \in {"register", "managed"} /\ r \in Requests /\ lock' = lock
    BY <1>1, <1>5 DEF RegisterLoads, Fits
  <2>2. Keeps(e, q) \/ Fails(e)
    BY <1>5 DEF RegisterLoads
  <2>3. q.op = r.op
    BY <2>1 DEF Requests
  <2>4. CASE Keeps(e, q)
    <3> HIDE DEF q
    <3> QED
      BY <1>2, <2>1, <2>3, <2>4 DEF Works
  <2>5. CASE Fails(e)
    BY <1>1, <2>1, <2>5 DEF Fails, Goto, Ends, Idle, Works, Requests
  <2> QED
    BY <2>2, <2>4, <2>5
<1>6. CASE RegisterInserts(e)
  <2>1. r.op \in {"register", "managed"} /\ r \in Requests /\ lock' = lock
    BY <1>1, <1>6 DEF RegisterInserts, Fits
  <2>2. Fails(e) \/ Ends(e)
    BY <1>6 DEF RegisterInserts
  <2> QED
    BY <1>1, <2>1, <2>2 DEF Fails, Goto, Ends, Idle, Works, Requests
<1>7. CASE ManagedCleansUp(e) \/ RepositoryInserts(e) \/ ReadLoads(e) \/ ReviewFreezes(e)
  BY <1>1, <1>7 DEF ManagedCleansUp, RepositoryInserts, ReadLoads, ReviewFreezes, At, Ends, Idle, Works
<1>8. CASE SaveAnswers(e)
  <2>1. ~Works(r) /\ lock' = lock
    BY <1>8 DEF SaveAnswers, At, Works
  <2>2. ASSUME NEW row, Reads(e, row)
        PROVE  ~Works(request'[e]) /\ \A f \in Editors \ {e} : request'[f] = request[f]
    <3> DEFINE q == [Idle EXCEPT !.pc = "read", !.op = "read", !.path = row.path, !.row = row]
    <3>1. q.op = "read" /\ Keeps(e, q)
      BY <2>2 DEF Reads, Idle
    <3> HIDE DEF q
    <3> QED
      BY <1>2, <3>1 DEF Works
  <2>3. CASE Ends(e)
    BY <1>1, <2>3, <2>1 DEF Ends, Idle, Works
  <2> QED
    BY <1>8, <2>1, <2>2, <2>3 DEF SaveAnswers
<1>9. ASSUME NEW pc \in {"lock", "freeze"}, NEW c,
             Keeps(e, [r EXCEPT !.pc = pc, !.configuration = c])
      PROVE  ~Works(request'[e]) /\ \A f \in Editors \ {e} : request'[f] = request[f]
  <2> DEFINE q == [r EXCEPT !.pc = pc, !.configuration = c]
  <2>1. q.pc = pc
    BY <1>1 DEF Requests
  <2>2. Keeps(e, q)
    BY <1>9
  <2> HIDE DEF q
  <2> QED
    BY <1>2, <2>1, <2>2 DEF Works
<1>10. CASE SaveReadsProfile(e)
  <2>1. ~Works(r) /\ lock' = lock
    BY <1>10 DEF SaveReadsProfile, At, Works
  <2> DEFINE c == IF Has(profiles, r.row.profile) THEN Row(profiles, r.row.profile).configuration
                  ELSE NoConfiguration
  <2>2. Keeps(e, [r EXCEPT !.pc = "lock", !.configuration = c])
    BY <1>10 DEF SaveReadsProfile
  <2> HIDE DEF c
  <2> QED
    BY <1>9, <2>1, <2>2
<1>11. CASE ReviewBinds(e)
  <2>1. ~Works(r) /\ lock' = lock
    BY <1>11 DEF ReviewBinds, At, Works
  <2> DEFINE c == Row(profiles, r.row.profile).configuration
  <2>2. Keeps(e, [r EXCEPT !.pc = "freeze", !.configuration = c]) \/ Ends(e)
    BY <1>11 DEF ReviewBinds
  <2>3. Ends(e) => ~Works(request'[e]) /\ \A f \in Editors \ {e} : request'[f] = request[f]
    BY <1>1, <2>1 DEF Ends, Idle, Works
  <2> HIDE DEF c
  <2> QED
    BY <1>9, <2>1, <2>2, <2>3
<1> QED
  BY <1>3, <1>4, <1>5, <1>6, <1>7, <1>8, <1>10, <1>11

\* The worker, an edit from outside and a stutter leave handlers and locks.
LEMMA WorldDoesNotWork ==
  ASSUME \/ \E a \in Attempts : WorkerFetches(a) \/ WorkerPrepares(a) \/ WorkerEnds(a)
         \/ OutsideEdit \/ UNCHANGED vars
  PROVE  UNCHANGED <<lock, request, view, maker, adopted, tables>>
  BY DEF WorkerFetches, WorkerPrepares, WorkerEnds, OutsideEdit, vars, tables, history

\* The lock is taken by a save that goes to work and given back by the step
\* that ends the work.
LEMMA LockKept ==
  ASSUME Typed, LockBelongsToALiveSave, [Next]_vars
  PROVE  LockBelongsToALiveSave'
<1> DEFINE Agrees == \A path \in Files, e \in Editors :
             lock[path] = e <=> Works(request[e]) /\ request[e].path = path
<1>1. LockBelongsToALiveSave <=> Agrees
  BY DEF LockBelongsToALiveSave, Works
<1>2. SUFFICES Agrees'
  BY DEF LockBelongsToALiveSave, Works
<1>3. /\ request \in [Editors -> Requests] /\ lock \in [Files -> Editors \cup {NoFile}]
      /\ NoFile \notin Editors /\ Agrees
  BY <1>1, RegistryAssumption DEF Typed, RequestsTyped, PlacesTyped
<1>4. ASSUME NEW e \in Editors, ~Works(request[e]), ~Works(request'[e]), lock' = lock,
             \A f \in Editors \ {e} : request'[f] = request[f]
      PROVE  Agrees'
  BY <1>3, <1>4 DEF Works
<1>5. ASSUME NEW e \in Editors, Arrives(e) PROVE Agrees'
  BY <1>4, <1>5, ArrivalIsQuiet DEF Works, Idle
<1>6. ASSUME NEW e \in Editors, Handles(e) PROVE Agrees'
  <2> DEFINE r == request[e]
  <2>1. CASE SaveLocks(e)
    <3>1. /\ r.path \in Files /\ lock[r.path] = NoFile /\ lock' = [lock EXCEPT ![r.path] = e]
          /\ request' = [request EXCEPT ![e].pc = "compare"] /\ r.op = "save" /\ r.pc = "lock"
      BY <2>1 DEF SaveLocks, At, Goto, Typed, RequestsTyped, Fits
    <3> QED
      BY <1>3, <3>1 DEF Works, Requests
  <2>2. CASE SaveCompares(e)
    <3>1. /\ r.path \in Files /\ r.op = "save" /\ r.pc = "compare" /\ lock[r.path] = e
      BY <1>3, <2>2 DEF SaveCompares, At, Typed, RequestsTyped, Fits, Works
    <3>2. \/ lock' = lock /\ request' = [request EXCEPT ![e].pc = "replace"]
          \/ lock' = [lock EXCEPT ![r.path] = NoFile] /\ request' = [request EXCEPT ![e] = Idle]
      BY <2>2 DEF SaveCompares, Goto, Ends, Releases
    <3> QED
      BY <1>3, <3>1, <3>2 DEF Works, Requests, Idle
  <2>3. CASE SaveReplaces(e)
    BY <1>3, <2>3 DEF SaveReplaces, At, Goto, Works, Requests
  <2>4. CASE SaveRecords(e)
    <3>1. /\ r.path \in Files /\ r.op = "save" /\ r.pc = "record" /\ lock[r.path] = e
      BY <1>3, <2>4 DEF SaveRecords, At, Typed, RequestsTyped, Fits, Works
    <3>2. lock' = [lock EXCEPT ![r.path] = NoFile] /\ request' = [request EXCEPT ![e].pc = "answer"]
      BY <2>4 DEF SaveRecords, Goto, Releases
    <3> QED
      BY <1>3, <3>1, <3>2 DEF Works, Requests
  <2> QED
    BY <1>4, <1>6, <2>1, <2>2, <2>3, <2>4, OthersDoNotWork DEF Handles
<1>7. CASE \/ \E a \in Attempts : WorkerFetches(a) \/ WorkerPrepares(a) \/ WorkerEnds(a)
           \/ OutsideEdit \/ UNCHANGED vars
  BY <1>3, <1>7, WorldDoesNotWork
<1>8. CASE Crash
  BY <1>3, <1>8 DEF Crash, Works, Idle
<1> HIDE DEF Agrees
<1>9. Next \/ UNCHANGED vars
  OBVIOUS
<1> QED
  BY <1>5, <1>6, <1>7, <1>8, <1>9 DEF Next

\* Nobody holds a lock and nobody works at first.
LEMMA LockStarts == Init => LockBelongsToALiveSave
<1> SUFFICES ASSUME Init PROVE LockBelongsToALiveSave
  OBVIOUS
<1>1. lock = [path \in Files |-> NoFile] /\ request = [e \in Editors |-> Idle]
  BY DEF Init
<1> QED
  BY <1>1, RegistryAssumption DEF Idle, LockBelongsToALiveSave

\* Neither an early return of a save nor a crash leaves a lock behind, and two
\* saves never work on a file: the lock of a policy file belongs to the save
\* that is between its comparison and its record.
THEOREM LockBelongs == Spec => []LockBelongsToALiveSave
<1>1. Typed /\ [Next]_vars => Typed'
  BY TypedKept
<1>2. Typed /\ LockBelongsToALiveSave /\ [Next]_vars => LockBelongsToALiveSave'
  BY LockKept
<1> QED
  BY <1>1, <1>2, InitTyped, LockStarts, PTL DEF Spec

-----------------------------------------------------------------------------
(* What an Attempt executes with.                                          *)

\* Every document that a row names, and that the worker fetched, is adopted.
RowsAreAdopted ==
  /\ \A row \in policies : <<row.id, row.document>> \in adopted
  /\ \A a \in Attempts :
       attempts[a].status = "fetched" =>
         <<attempts[a].policy, attempts[a].row.document>> \in adopted

\* A registered or saved document is adopted when its row names it.
LEMMA AdoptionKept ==
  ASSUME Typed, RowsAreAdopted, [Next]_vars
  PROVE  RowsAreAdopted' /\ adopted \subseteq adopted'
<1>1. ASSUME UNCHANGED <<policies, attempts, adopted>>
      PROVE  RowsAreAdopted' /\ adopted \subseteq adopted'
  BY <1>1 DEF RowsAreAdopted
<1>2. ASSUME NEW e \in Editors, Arrives(e) PROVE RowsAreAdopted' /\ adopted \subseteq adopted'
  <2>1. attempts' = attempts /\ adopted' = adopted /\ policies' \subseteq policies
    BY <1>2 DEF Arrives, RegisterBegins, ManagedBegins, Unregister, SaveBegins, ReadBegins,
                RepositoryBegins, DeleteRepository, CreateProfile, UpdateProfile, DeleteProfile,
                ReviewBegins, tables, history
  <2> QED
    BY <2>1 DEF RowsAreAdopted
<1>3. ASSUME NEW e \in Editors, Handles(e) PROVE RowsAreAdopted' /\ adopted \subseteq adopted'
  <2>1. CASE RegisterInserts(e)
    BY <2>1 DEF RegisterInserts, RowsAreAdopted
  <2>2. CASE SaveRecords(e)
    <3> DEFINE r == request[e]
               New(row) == IF row.id = r.row.id THEN [row EXCEPT !.document = r.text.document]
                           ELSE row
    <3>1. /\ policies' = { New(row) : row \in policies } /\ attempts' = attempts
          /\ adopted' = IF Has(policies, r.row.id)
                        THEN adopted \cup { <<r.row.id, r.text.document>> } ELSE adopted
      BY <2>2 DEF SaveRecords
    <3>2. \A row \in policies :
            \/ row.id # r.row.id /\ New(row) = row
            \/ /\ row.id = r.row.id /\ New(row).id = row.id
               /\ New(row).document = r.text.document
      BY DEF Typed, TablesTyped
    <3> HIDE DEF New
    <3>3. \A row \in policies' : <<row.id, row.document>> \in adopted'
      BY <3>1, <3>2 DEF RowsAreAdopted, Has
    <3> QED
      BY <3>1, <3>3 DEF RowsAreAdopted
  <2>3. CASE ReviewFreezes(e)
    <3> DEFINE new == [NoAttempt EXCEPT !.status = "queued", !.repository = request[e].repository,
                         !.policy = request[e].row.id, !.frozen = request[e].configuration]
    <3>1. /\ policies' = policies /\ adopted' = adopted
          /\ attempts' = attempts \/ \E a \in Attempts : attempts' = [attempts EXCEPT ![a] = new]
      BY <2>3 DEF ReviewFreezes, tables, history
    <3>2. new.status = "queued"
      BY DEF NoAttempt
    <3> HIDE DEF new
    <3> QED
      BY <3>1, <3>2 DEF RowsAreAdopted, Typed, PlacesTyped
  <2>4. CASE ~RegisterInserts(e) /\ ~SaveRecords(e) /\ ~ReviewFreezes(e)
    <3>1. UNCHANGED <<policies, attempts, adopted>>
      BY <1>3, <2>4 DEF Handles, ManagedCreates, RegisterChecks, RegisterLoads, RegisterBinds,
           ManagedCleansUp, SaveAnswers, ReadLoads, SaveReadsProfile, SaveLocks, SaveCompares,
           SaveReplaces, RepositoryInserts, ReviewBinds, tables, history
    <3> QED
      BY <1>1, <3>1
  <2> QED
    BY <2>1, <2>2, <2>3, <2>4
<1>4. ASSUME NEW a \in Attempts, WorkerFetches(a) \/ WorkerPrepares(a) \/ WorkerEnds(a)
      PROVE  RowsAreAdopted' /\ adopted \subseteq adopted'
  <2> DEFINE w == attempts[a]
  <2>1. adopted' = adopted /\ policies' = policies /\ w \in AttemptRecords
    BY <1>4 DEF WorkerFetches, WorkerPrepares, WorkerEnds, tables, history, Typed, PlacesTyped
  <2>2. CASE WorkerFetches(a)
    <3> DEFINE row == Row(policies, w.policy)
               fetched == [w EXCEPT !.status = "fetched", !.row = row,
                                    !.root = Row(repositories, w.repository).root]
    <3>1. \/ attempts' = [attempts EXCEPT ![a] = [w EXCEPT !.status = "failed"]]
          \/ Has(policies, w.policy) /\ attempts' = [attempts EXCEPT ![a] = fetched]
      BY <2>2 DEF WorkerFetches
    <3>2. Has(policies, w.policy) => <<w.policy, row.document>> \in adopted
      BY RowFound DEF RowsAreAdopted
    <3>3. fetched.policy = w.policy /\ fetched.row = row /\ [w EXCEPT !.status = "failed"].status = "failed"
      BY <2>1 DEF AttemptRecords
    <3> HIDE DEF fetched, row
    <3> QED
      BY <2>1, <3>1, <3>2, <3>3 DEF RowsAreAdopted, Typed, PlacesTyped
  <2>3. CASE WorkerPrepares(a) \/ WorkerEnds(a)
    <3>1. PICK status \in {"running", "failed", "done"} :
            attempts' = [attempts EXCEPT ![a].status = status]
      BY <2>3 DEF WorkerPrepares, WorkerEnds
    <3> QED
      BY <2>1, <3>1 DEF RowsAreAdopted, Typed, PlacesTyped, AttemptRecords
  <2> QED
    BY <1>4, <2>2, <2>3
<1>5. CASE OutsideEdit \/ UNCHANGED vars
  BY <1>1, <1>5 DEF OutsideEdit, vars, tables, history
<1>6. CASE Crash
  BY <1>6 DEF Crash, RowsAreAdopted, Typed, PlacesTyped, AttemptRecords, tables
<1> QED
  BY <1>2, <1>3, <1>4, <1>5, <1>6 DEF Next

\* Only the worker executes, and it compares the row, the file and the frozen
\* profile in the step that starts the review.
LEMMA ExecutionKept ==
  ASSUME Typed, RowsAreAdopted, ExecutedIsTrusted, [Next]_vars
  PROVE  ExecutedIsTrusted'
<1>1. adopted \subseteq adopted'
  BY AdoptionKept
<1>2. CASE executions' = executions
  BY <1>1, <1>2 DEF ExecutedIsTrusted, ExecutedWasAdopted, ExecutedCommandIsPinned, NoRepositoryGovernsItself
<1>3. ASSUME NEW a \in Attempts, WorkerPrepares(a), executions' # executions PROVE ExecutedIsTrusted'
  <2> DEFINE w == attempts[a]
             document == disk[w.row.path].document
             x == [attempt |-> a, policy |-> w.policy, path |-> w.row.path, root |-> w.root,
                   document |-> document, frozen |-> w.frozen]
  <2>1. /\ executions' = executions \cup {x} /\ w.status = "fetched"
        /\ Trusted(w.row.path, w.root) /\ ~Drifted(w.row, document)
        /\ Resolves(w.frozen, document)
    BY <1>3 DEF WorkerPrepares
  <2>2. <<x.policy, x.document>> \in adopted
    BY <2>1 DEF RowsAreAdopted, Drifted
  <2>3. /\ x.frozen.provider = x.document.provider
        /\ x.frozen.provider = "local-cli" => x.document.pin = Fingerprint(x.frozen)
        /\ x.frozen.provider # "local-cli" => x.frozen.credential \in Environment
        /\ x.path \notin Inside[x.root]
    BY <2>1 DEF Resolves, Binds, Trusted
  <2> HIDE DEF x
  <2> QED
    BY <1>1, <2>1, <2>2, <2>3
       DEF ExecutedIsTrusted, ExecutedWasAdopted, ExecutedCommandIsPinned, NoRepositoryGovernsItself
<1>4. executions' = executions \/ \E a \in Attempts : WorkerPrepares(a)
  <2>1. \A e \in Editors : Arrives(e) => executions' = executions
    BY ArrivalIsQuiet
  <2>2. \A e \in Editors : Handles(e) => executions' = executions
    BY DEF Handles, ManagedCreates, RegisterChecks, RegisterLoads, RegisterBinds, RegisterInserts,
           ManagedCleansUp, SaveAnswers, ReadLoads, SaveReadsProfile, SaveLocks, SaveCompares,
           SaveReplaces, SaveRecords, RepositoryInserts, ReviewBinds, ReviewFreezes, history
  <2> QED
    BY <2>1, <2>2 DEF Next, WorkerFetches, WorkerEnds, OutsideEdit, Crash, vars, history
<1> QED
  BY <1>2, <1>3, <1>4

\* The row that registers a document is the first to name it.
LEMMA AdoptionStarts == Init => RowsAreAdopted /\ ExecutedIsTrusted
<1> SUFFICES ASSUME Init PROVE RowsAreAdopted /\ ExecutedIsTrusted
  OBVIOUS
<1>1. executions = {} /\ attempts = [a \in Attempts |-> NoAttempt]
  BY DEF Init
<1>2. PICK path \in Files, text \in Texts :
        /\ policies = { [id |-> 2, path |-> path, document |-> text.document, profile |-> 1] }
        /\ adopted = { <<2, text.document>> }
  BY Zenon DEF Init
<1>3. RowsAreAdopted
  BY <1>1, <1>2 DEF RowsAreAdopted, NoAttempt
<1> QED
  BY <1>1, <1>3 DEF ExecutedIsTrusted, ExecutedWasAdopted, ExecutedCommandIsPinned, NoRepositoryGovernsItself

\* The row is fetched, the file is read and the profile was frozen at different
\* moments, without the lock; what runs is nevertheless a document that the
\* row of its policy has named, with the command that it pins, and no policy
\* inside a registered repository governs a review of it.
THEOREM ExecutionIsTrusted == Spec => []ExecutedIsTrusted
<1>1. Typed /\ [Next]_vars => Typed'
  BY TypedKept
<1>2. Typed /\ RowsAreAdopted /\ [Next]_vars => RowsAreAdopted'
  BY AdoptionKept
<1>3. Typed /\ RowsAreAdopted /\ ExecutedIsTrusted /\ [Next]_vars => ExecutedIsTrusted'
  BY ExecutionKept
<1> QED
  BY <1>1, <1>2, <1>3, InitTyped, AdoptionStarts, PTL DEF Spec

-----------------------------------------------------------------------------
(* Files that requests work on.                                            *)

\* A file that was written or removed past the lock.
Spoilt(path) == <<"edit", path>> \in disturbed \/ <<"cleanup", path>> \in disturbed

\* A creation after it made its file.
HasMade(r) == r.op = "managed" /\ r.pc \in {"check", "load", "bind", "insert", "cleanup"}

\* Between its comparison and its replacement a save finds what it compared.
Shown ==
  \A e \in Editors :
    LET path == request[e].path IN
      At(e, "save", "replace") =>
        Spoilt(path) \/ (disk[path] = view[e].text /\ disk[path] # Missing)

\* A creation that is being registered is the one that made the file.
Made ==
  /\ maker \in [Files -> Editors \cup {NoFile}]
  /\ \A e \in Editors :
       LET path == request[e].path IN
         HasMade(request[e]) => Spoilt(path) \/ (maker[path] = e /\ disk[path] # Missing)

\* A step of one handler that leaves the files and that neither begins a
\* replacement nor a creation leaves Shown and Made.
LEMMA QuietStep ==
  ASSUME Shown, Made, NEW e \in Editors,
         UNCHANGED <<disk, maker>>, disturbed \subseteq disturbed',
         \A f \in Editors \ {e} : request'[f] = request[f] /\ view'[f] = view[f],
         ~(request'[e].op = "save" /\ request'[e].pc = "replace"),
         HasMade(request'[e]) => HasMade(request[e]) /\ request'[e].path = request[e].path
  PROVE  Shown' /\ Made'
<1>1. \A path : Spoilt(path) => Spoilt(path)'
  BY DEF Spoilt
<1>2. Shown'
  BY <1>1 DEF Shown, At
<1>3. Made'
  BY <1>1 DEF Made
<1> QED
  BY <1>2, <1>3

\* How a request looks after a step of its handler.
LEMMA NextPlace ==
  ASSUME Typed, NEW e \in Editors
  PROVE  /\ Ends(e) => request'[e] = Idle
         /\ \A q : Keeps(e, q) => request'[e] = q
         /\ \A pc : Goto(e, pc) => /\ request'[e].pc = pc /\ request'[e].op = request[e].op
                                   /\ request'[e].path = request[e].path
                                   /\ request'[e].text = request[e].text
                                   /\ request'[e].row = request[e].row
         /\ Ends(e) \/ (\E q : Keeps(e, q)) \/ (\E pc : Goto(e, pc)) =>
              \A f \in Editors \ {e} : request'[f] = request[f]
<1>1. request \in [Editors -> Requests]
  BY DEF Typed, RequestsTyped
<1>2. Ends(e) => request'[e] = Idle
  BY <1>1 DEF Ends
<1>3. ASSUME NEW q, Keeps(e, q)
      PROVE  request'[e] = q /\ \A f \in Editors \ {e} : request'[f] = request[f]
  BY <1>1, <1>3 DEF Keeps
<1>4. ASSUME NEW pc, Goto(e, pc)
      PROVE  /\ request'[e].pc = pc /\ request'[e].op = request[e].op
             /\ request'[e].path = request[e].path /\ request'[e].text = request[e].text
             /\ request'[e].row = request[e].row
             /\ \A f \in Editors \ {e} : request'[f] = request[f]
  BY <1>1, <1>4 DEF Goto, Requests
<1>5. Ends(e) => \A f \in Editors \ {e} : request'[f] = request[f]
  BY <1>1 DEF Ends
<1> QED
  BY <1>2, <1>3, <1>4, <1>5

\* A registration that fails goes nowhere else.
LEMMA AfterFailure ==
  ASSUME Typed, NEW e \in Editors, Fails(e)
  PROVE  /\ \A f \in Editors \ {e} : request'[f] = request[f]
         /\ \/ request'[e] = Idle
            \/ /\ request'[e].pc = "cleanup" /\ request'[e].op = "managed"
               /\ request[e].op = "managed" /\ request'[e].path = request[e].path
  BY NextPlace DEF Fails

\* A registration goes from one step to the next with its operation, its path
\* and, once it is loaded, its text.
LEMMA RegistrationGoesOn ==
  ASSUME Typed, NEW e \in Editors,
         RegisterChecks(e) \/ RegisterLoads(e) \/ RegisterBinds(e) \/ RegisterInserts(e)
  PROVE  /\ \A f \in Editors \ {e} : request'[f] = request[f]
         /\ \/ request'[e] = Idle
            \/ /\ request'[e].op = request[e].op /\ request'[e].path = request[e].path
               /\ request[e].op \in {"register", "managed"}
               /\ \/ request'[e].pc \in {"load", "cleanup"}
                  \/ request'[e].pc = "bind" /\ request'[e].text = disk[request[e].path]
                  \/ /\ request'[e].pc = "insert" /\ request[e].pc = "bind"
                     /\ request'[e].text = request[e].text
<1>1. request[e] \in Requests /\ Fits(request[e])
  BY DEF Typed, RequestsTyped
<1>2. CASE RegisterChecks(e)
  BY <1>1, <1>2, NextPlace, AfterFailure DEF RegisterChecks, Fits
<1>3. CASE RegisterLoads(e)
  <2> DEFINE q == [request[e] EXCEPT !.pc = "bind", !.text = disk[request[e].path]]
  <2>1. q.pc = "bind" /\ q.op = request[e].op /\ q.path = request[e].path
        /\ q.text = disk[request[e].path]
    BY <1>1 DEF Requests
  <2>2. Keeps(e, q) \/ Fails(e)
    BY <1>3 DEF RegisterLoads
  <2>3. request[e].op \in {"register", "managed"}
    BY <1>1, <1>3 DEF RegisterLoads, Fits
  <2> HIDE DEF q
  <2> QED
    BY <2>1, <2>2, <2>3, NextPlace, AfterFailure
<1>4. CASE RegisterBinds(e)
  BY <1>1, <1>4, NextPlace, AfterFailure DEF RegisterBinds, Fits
<1>5. CASE RegisterInserts(e)
  <2>1. Ends(e) \/ Fails(e)
    BY <1>5 DEF RegisterInserts
  <2>2. request[e].op \in {"register", "managed"}
    BY <1>1, <1>5 DEF RegisterInserts, Fits
  <2> QED
    BY <2>1, <2>2, NextPlace, AfterFailure
<1> QED
  BY <1>2, <1>3, <1>4, <1>5

\* A creation finds no file and a removal is remembered; a save writes a file
\* whose lock it holds.
LEMMA FilesKept ==
  ASSUME Typed, LockBelongsToALiveSave, Shown, Made, [Next]_vars
  PROVE  Shown' /\ Made'
<1>1. ASSUME NEW e \in Editors, Arrives(e) PROVE Shown' /\ Made'
  <2>1. request'[e].pc \notin {"check", "load"} \/ request'[e].op # "managed"
    BY <1>1, ArrivalIsQuiet
  <2> QED
    BY <1>1, <2>1, ArrivalIsQuiet, QuietStep DEF HasMade
<1>2. ASSUME NEW e \in Editors, Handles(e) PROVE Shown' /\ Made'
  <2> DEFINE r == request[e]
             path == r.path
  <2>0. /\ disk \in [Files -> Texts \cup {Missing}] /\ Missing \notin Texts
        /\ request \in [Editors -> Requests] /\ r \in Requests /\ Fits(r)
    BY RegistryAssumption DEF Typed, PlacesTyped, RequestsTyped
  <2>1. CASE ManagedCreates(e)
    <3>1. r.op = "managed" /\ r.pc = "create" /\ path \in Files /\ r.text \in Texts
      BY <2>0, <2>1 DEF ManagedCreates, At, Fits
    <3>2. UNCHANGED <<view, disturbed>>
      BY <2>1 DEF ManagedCreates
    <3>3. CASE disk[path] = Missing
      <4>1. /\ disk' = [disk EXCEPT ![path] = r.text] /\ maker' = [maker EXCEPT ![path] = e]
            /\ Goto(e, "check")
        BY <2>1, <3>3 DEF ManagedCreates, MayCreate
      <4>2. /\ request'[e].op = "managed" /\ request'[e].pc = "check" /\ request'[e].path = path
            /\ \A f \in Editors \ {e} : request'[f] = request[f]
        BY <4>1, <3>1, NextPlace
      <4>3. Shown'
        BY <2>0, <3>2, <3>3, <4>1, <4>2 DEF Shown, At, Spoilt, Typed, RequestsTyped, Fits
      <4> QED
        <5>1. maker'[path] = e /\ disk'[path] # Missing
          BY <2>0, <3>1, <4>1 DEF Made
        <5>2. \A f \in Editors \ {e} :
                HasMade(request[f]) => LET p == request[f].path IN
                  \/ Spoilt(p)
                  \/ p # path /\ maker'[p] = f /\ disk'[p] # Missing
          BY <3>3, <4>1 DEF Made
        <5>3. maker' \in [Files -> Editors \cup {NoFile}]
          BY <4>1 DEF Made
        <5> QED
          BY <3>2, <4>2, <4>3, <5>1, <5>2, <5>3 DEF Made, Spoilt
    <3>4. CASE disk[path] # Missing
      <4>1. Ends(e) /\ UNCHANGED <<disk, maker>>
        BY <2>1, <3>4 DEF ManagedCreates, MayCreate
      <4> QED
        BY <3>2, <4>1, NextPlace, QuietStep DEF Idle, HasMade
    <3> QED
      BY <3>3, <3>4
  <2>2. CASE RegisterChecks(e) \/ RegisterLoads(e) \/ RegisterBinds(e) \/ RegisterInserts(e)
    <3>1. UNCHANGED <<disk, maker, disturbed, view>>
      BY <2>2 DEF RegisterChecks, RegisterLoads, RegisterBinds, RegisterInserts, history
    <3>2. r.pc \in {"check", "load", "bind", "insert"}
      BY <2>2 DEF RegisterChecks, RegisterLoads, RegisterBinds, RegisterInserts
    <3>3. request'[e] # Idle => request'[e].op = r.op /\ request'[e].path = path
                               /\ request'[e].op \in {"register", "managed"}
      BY <2>2, RegistrationGoesOn
    <3>4. \A f \in Editors \ {e} : request'[f] = request[f]
      BY <2>2, RegistrationGoesOn
    <3> QED
      BY <3>1, <3>2, <3>3, <3>4, QuietStep DEF HasMade, Idle
  <2>3. CASE ManagedCleansUp(e)
    <3>1. /\ r.pc = "cleanup" /\ path \in Files /\ disk' = [disk EXCEPT ![path] = Missing]
          /\ disturbed' = disturbed \cup { <<"cleanup", path>> }
          /\ UNCHANGED <<view, maker>> /\ Ends(e)
      BY <2>0, <2>3 DEF ManagedCleansUp, At, Fits
    <3>2. request'[e] = Idle /\ \A f \in Editors \ {e} : request'[f] = request[f]
      BY <3>1, NextPlace
    <3>3. \A p \in Files : Spoilt(p)' \/ (~Spoilt(p) /\ disk'[p] = disk[p])
      BY <2>0, <3>1 DEF Spoilt
    <3>4. Shown'
      BY <3>1, <3>2, <3>3 DEF Shown, At, Idle, Typed, RequestsTyped, Fits
    <3>5. Made'
      BY <3>1, <3>2, <3>3 DEF Made, HasMade, Idle, Typed, RequestsTyped, Fits
    <3> QED
      BY <3>4, <3>5
  <2>4. CASE SaveCompares(e)
    <3>1. /\ r.op = "save" /\ r.pc = "compare" /\ UNCHANGED <<disk, view, maker, disturbed>>
          /\ \/ disk[path] # Missing /\ view[e].text = disk[path] /\ Goto(e, "replace")
             \/ Ends(e)
      BY <2>4 DEF SaveCompares, SameContent, At, history
    <3>2. /\ \A f \in Editors \ {e} : request'[f] = request[f]
          /\ \/ request'[e] = Idle
             \/ /\ request'[e].op = "save" /\ request'[e].path = path
                /\ disk[path] # Missing /\ view[e].text = disk[path]
      BY <3>1, NextPlace
    <3>3. Shown'
      BY <3>1, <3>2 DEF Shown, At, Spoilt, Idle
    <3>4. Made'
      BY <3>1, <3>2 DEF Made, HasMade, Spoilt, Idle
    <3> QED
      BY <3>3, <3>4
  <2>5. CASE SaveReplaces(e)
    <3>1. /\ r.op = "save" /\ r.pc = "replace" /\ path \in Files /\ r.text \in Texts
          /\ disk' = [disk EXCEPT ![path] = r.text]
          /\ UNCHANGED <<view, maker, disturbed>> /\ Goto(e, "record")
      BY <2>0, <2>5 DEF SaveReplaces, At, Fits, history
    <3>2. /\ request'[e].pc = "record" /\ request'[e].op = "save"
          /\ \A f \in Editors \ {e} : request'[f] = request[f]
      BY <3>1, NextPlace
    <3>3. \A f \in Editors \ {e} : At(f, "save", "replace") => request[f].path # path
      BY <3>1 DEF LockBelongsToALiveSave, At
    <3>4. Shown'
      BY <2>0, <3>1, <3>2, <3>3 DEF Shown, At, Spoilt
    <3>5. Made'
      BY <2>0, <3>1, <3>2 DEF Made, HasMade, Spoilt
    <3> QED
      BY <3>4, <3>5
  <2>6. CASE ReadLoads(e)
    <3>1. /\ Ends(e) /\ UNCHANGED <<disk, maker, disturbed>>
          /\ \A f \in Editors \ {e} : view'[f] = view[f]
      BY <2>6 DEF ReadLoads, history, Typed, PlacesTyped
    <3> QED
      BY <3>1, NextPlace, QuietStep DEF Idle, HasMade
  <2>7. CASE SaveAnswers(e) \/ SaveReadsProfile(e) \/ ReviewBinds(e)
    <3>1. UNCHANGED <<disk, maker, disturbed, view>>
      BY <2>7 DEF SaveAnswers, SaveReadsProfile, ReviewBinds, history
    <3>2. Ends(e) \/ \E q : Keeps(e, q) /\ q.op # "managed" /\ q.pc # "replace"
      <4>1. CASE SaveAnswers(e)
        <5> DEFINE row == Row(policies, r.row.id)
                   q == [Idle EXCEPT !.pc = "read", !.op = "read", !.path = row.path, !.row = row]
        <5>1. q.op = "read" /\ q.pc = "read" /\ (Keeps(e, q) \/ Ends(e))
          BY <4>1 DEF SaveAnswers, Reads, Idle
        <5> HIDE DEF q
        <5> QED
          BY <5>1
      <4>2. CASE SaveReadsProfile(e)
        <5> DEFINE c == IF Has(profiles, r.row.profile)
                        THEN Row(profiles, r.row.profile).configuration ELSE NoConfiguration
                   q == [r EXCEPT !.pc = "lock", !.configuration = c]
        <5>1. q.op = "save" /\ q.pc = "lock" /\ Keeps(e, q)
          BY <2>0, <4>2 DEF SaveReadsProfile, At, Requests
        <5> QED
          BY <5>1
      <4>3. CASE ReviewBinds(e)
        <5> DEFINE q == [r EXCEPT !.pc = "freeze",
                                  !.configuration = Row(profiles, r.row.profile).configuration]
        <5>1. q.op = "review" /\ q.pc = "freeze" /\ (Keeps(e, q) \/ Ends(e))
          BY <2>0, <4>3 DEF ReviewBinds, At, Requests
        <5> QED
          BY <5>1
      <4> QED
        BY <2>7, <4>1, <4>2, <4>3
    <3>3. /\ \A f \in Editors \ {e} : request'[f] = request[f]
          /\ request'[e].op # "managed" /\ request'[e].pc # "replace"
      BY <3>2, NextPlace DEF Idle
    <3> QED
      BY <3>1, <3>3, QuietStep DEF HasMade
  <2>8. CASE SaveLocks(e) \/ SaveRecords(e)
    <3>1. /\ r.op = "save" /\ UNCHANGED <<disk, maker, disturbed, view>>
          /\ Goto(e, "compare") \/ Goto(e, "answer")
      BY <2>8 DEF SaveLocks, SaveRecords, At, history
    <3>2. /\ request'[e].op = "save" /\ request'[e].pc # "replace"
          /\ \A f \in Editors \ {e} : request'[f] = request[f]
      BY <3>1, NextPlace
    <3> QED
      BY <3>1, <3>2, QuietStep DEF HasMade
  <2>9. CASE RepositoryInserts(e) \/ ReviewFreezes(e)
    <3>1. Ends(e) /\ UNCHANGED <<disk, maker, disturbed, view>>
      BY <2>9 DEF RepositoryInserts, ReviewFreezes, history
    <3> QED
      BY <3>1, NextPlace, QuietStep DEF Idle, HasMade
  <2> QED
    BY <1>2, <2>1, <2>2, <2>3, <2>4, <2>5, <2>6, <2>7, <2>8, <2>9 DEF Handles
<1>3. CASE UNCHANGED vars \/ \E a \in Attempts : WorkerFetches(a) \/ WorkerPrepares(a) \/ WorkerEnds(a)
  <2>1. UNCHANGED <<disk, maker, disturbed, view, request>>
    BY <1>3 DEF WorkerFetches, WorkerPrepares, WorkerEnds, vars, history
  <2> QED
    BY <2>1 DEF Shown, Made, At, Spoilt
<1>4. CASE OutsideEdit
  <2>1. PICK p \in Files, text \in Texts \cup {Missing} :
          /\ disk' = [disk EXCEPT ![p] = text]
          /\ disturbed' = disturbed \cup { <<"edit", p>> }
    BY <1>4 DEF OutsideEdit
  <2>2. UNCHANGED <<request, view, maker>>
    BY <1>4 DEF OutsideEdit
  <2>3. \A q \in Files : Spoilt(q)' \/ (~Spoilt(q) /\ disk'[q] = disk[q])
    BY <2>1 DEF Spoilt, Typed, PlacesTyped
  <2>4. Shown'
    BY <2>2, <2>3 DEF Shown, At, Typed, RequestsTyped, Fits
  <2>5. Made'
    BY <2>2, <2>3 DEF Made, HasMade, Typed, RequestsTyped, Fits
  <2> QED
    BY <2>4, <2>5
<1>5. CASE Crash
  <2>1. maker' = maker /\ \A e \in Editors : request'[e] = Idle
    BY <1>5 DEF Crash
  <2> QED
    BY <2>1 DEF Shown, Made, At, HasMade, Idle
<1> QED
  BY <1>1, <1>2, <1>3, <1>4, <1>5 DEF Next

\* At first nothing is shown in a save and nothing is being created.
LEMMA FilesStart == Init => Shown /\ Made
<1> SUFFICES ASSUME Init PROVE Shown /\ Made
  OBVIOUS
<1>1. request = [e \in Editors |-> Idle] /\ maker = [path \in Files |-> NoFile]
  BY DEF Init
<1> QED
  BY <1>1 DEF Shown, Made, At, HasMade, Idle

\* Shown and Made hold in every state, with what they rest on.
LEMMA FilesAlways == Spec => [](Typed /\ LockBelongsToALiveSave /\ Shown /\ Made)
<1>1. Typed /\ [Next]_vars => Typed'
  BY TypedKept
<1>2. Typed /\ LockBelongsToALiveSave /\ [Next]_vars => LockBelongsToALiveSave'
  BY LockKept
<1>3. Typed /\ LockBelongsToALiveSave /\ Shown /\ Made /\ [Next]_vars => Shown' /\ Made'
  BY FilesKept
<1> QED
  BY <1>1, <1>2, <1>3, InitTyped, LockStarts, FilesStart, PTL DEF Spec

\* Two pages may show a document and both may save: what a save replaces is
\* the very text its own page was shown.
THEOREM SaveReplacesShown == Spec => SaveReplacesWhatWasShown
<1> DEFINE Replaces == \A e \in Editors :
             At(e, "save", "replace") /\ request'[e].pc = "record" =>
               LET path == request[e].path IN
                 \/ disk[path] = view[e].text
                 \/ <<"edit", path>> \in disturbed \/ <<"cleanup", path>> \in disturbed
<1>1. Shown => Replaces
  BY DEF Shown, Spoilt
<1>2. Shown /\ [Next]_vars => [Replaces]_vars
  BY <1>1
<1>3. SaveReplacesWhatWasShown <=> [][Replaces]_vars
  BY DEF SaveReplacesWhatWasShown
<1> HIDE DEF Replaces
<1> QED
  BY <1>2, <1>3, FilesAlways, PTL DEF Spec

\* A creation that fails removes a file that it made itself.
THEOREM CleanupIsOfOwnFile == Spec => []CleanupRemovesOwnFile
<1>1. Made => CleanupRemovesOwnFile
  BY DEF Made, HasMade, CleanupRemovesOwnFile, At, Spoilt
<1> QED
  BY <1>1, FilesAlways, PTL

-----------------------------------------------------------------------------
(* Rows and files.                                                         *)

\* A file that may differ from its row for a reason that is on record.
Astray(path) == \E why \in {"edit", "crash", "cleanup", "unregister"} : <<why, path>> \in disturbed

Saving == {"profile", "lock", "compare", "replace", "record"}

\* A registration carries the text of the file, and a save the row of its file,
\* unless the file went astray.
Follows(e) ==
  LET r == request[e] IN
    /\ r.pc \in {"bind", "insert"} =>
         /\ Loads(r.text)
         /\ disk[r.path] = r.text \/ Astray(r.path) \/ Registered(r.path)
    /\ r.op = "save" /\ r.pc \in Saving =>
         /\ r.row.id < nextId
         /\ \A row \in policies : row.id = r.row.id => row.path = r.path
         /\ Astray(r.path) \/ Has(policies, r.row.id)
    /\ r.op = "save" /\ r.pc \in {"replace", "record"} => Loads(r.text)
    /\ r.op = "save" /\ r.pc = "record" => disk[r.path] = r.text \/ Astray(r.path)

RequestsFollow == \A e \in Editors : Follows(e)

RowFollows(row) ==
  \/ row.document = disk[row.path].document
  \/ \E e \in Editors : At(e, "save", "record") /\ request[e].path = row.path
  \/ Astray(row.path)

RowsFollow == \A row \in policies : row.document.provider # "none" /\ RowFollows(row)

\* A request that is left alone follows its file on, when the rows keep their
\* identifiers and paths and its file stays, appears or is saved.
LEMMA OthersFollow ==
  ASSUME Typed, NEW f \in Editors, Follows(f), request'[f] = request[f],
         disturbed \subseteq disturbed', nextId <= nextId', nextId' \in Nat,
         \A row \in policies :
           \/ \E s \in policies' : s.id = row.id /\ s.path = row.path
           \/ request[f].path # row.path \/ Astray(row.path)',
         \A s \in policies' :
           s.id >= nextId \/ \E row \in policies : s.id = row.id /\ s.path = row.path,
         LET p == request[f].path IN
           \/ p \notin Files \/ disk'[p] = disk[p] \/ Astray(p)' \/ disk[p] = Missing
           \/ request[f].pc # "record" /\ Registered(p)'
  PROVE  Follows(f)'
<1> DEFINE r == request[f]
           path == r.path
<1>1. r.row.id \in Nat /\ nextId \in Nat
  BY DEF Typed, RequestsTyped, Requests, RowRecords, TablesTyped
<1>2. \A p : Astray(p) => Astray(p)'
  BY DEF Astray
<1>3. Registered(path) => Registered(path)' \/ Astray(path)'
  BY DEF Registered
<1>4. ~Loads(Missing)
  BY DEF Loads, Missing, NoDocument
<1>5. r.pc \in {"bind", "insert", "record"} => path \in Files
  BY DEF Typed, RequestsTyped, Fits
<1>6. r.pc \in {"bind", "insert"} =>
        /\ Loads(r.text)
        /\ disk'[path] = r.text \/ Astray(path)' \/ Registered(path)'
  BY <1>2, <1>3, <1>4, <1>5 DEF Follows
<1>7. r.op = "save" /\ r.pc \in Saving =>
        /\ r.row.id < nextId'
        /\ \A row \in policies' : row.id = r.row.id => row.path = path
        /\ Astray(path)' \/ Has(policies', r.row.id)
  BY <1>1, <1>2 DEF Follows, Has
<1>8. r.op = "save" /\ r.pc = "record" => disk'[path] = r.text \/ Astray(path)'
  BY <1>2, <1>4, <1>5 DEF Follows
<1> QED
  BY <1>6, <1>7, <1>8 DEF Follows

\* A step of one handler that leaves files and policies.
LEMMA FollowingStep ==
  ASSUME Typed, RequestsFollow, RowsFollow, NEW e \in Editors,
         UNCHANGED <<disk, policies>>, disturbed \subseteq disturbed',
         nextId <= nextId', nextId' \in Nat,
         \A f \in Editors \ {e} : request'[f] = request[f],
         ~At(e, "save", "record"), Follows(e)'
  PROVE  RequestsFollow' /\ RowsFollow'
<1>1. \A f \in Editors \ {e} : Follows(f)'
  BY OthersFollow DEF RequestsFollow
<1>2. \A p : Astray(p) => Astray(p)'
  BY DEF Astray
<1>3. RowsFollow'
  BY <1>2 DEF RowsFollow, RowFollows, At
<1> QED
  BY <1>1, <1>3 DEF RequestsFollow

\* A request arrives; an unregistration is on record for those it cuts off.
LEMMA ArrivalFollows ==
  ASSUME Typed, RequestsFollow, RowsFollow, NEW e \in Editors, Arrives(e)
  PROVE  RequestsFollow' /\ RowsFollow'
<1> USE DEF tables, history
<1>1. nextId' = nextId \/ nextId' = nextId + 1
  BY DEF Arrives, RegisterBegins, ManagedBegins, Unregister, SaveBegins,
         ReadBegins, RepositoryBegins, DeleteRepository, CreateProfile, UpdateProfile,
         DeleteProfile, ReviewBegins
<1>2. nextId \in Nat /\ nextId' \in Nat /\ nextId <= nextId'
  BY <1>1 DEF Typed, TablesTyped
<1>3. /\ request[e] = Idle /\ disk' = disk /\ disturbed \subseteq disturbed'
      /\ \A f \in Editors \ {e} : request'[f] = request[f]
      /\ request'[e].pc \notin {"bind", "insert", "replace", "record"}
  BY ArrivalIsQuiet
<1>4. CASE Unregister(e)
  <2>1. PICK row \in policies :
          /\ policies' = policies \ {row}
          /\ disturbed' = IF \E f \in Editors : request[f].path = row.path
                          THEN disturbed \cup { <<"unregister", row.path>> } ELSE disturbed
    BY <1>4 DEF Unregister
  <2>2. request' = request
    BY <1>4 DEF Unregister
  <2>3. \A f \in Editors : request[f].path = row.path => Astray(row.path)'
    BY <2>1 DEF Astray
  <2>4. \A f \in Editors : Follows(f)'
    BY <1>2, <1>3, <2>1, <2>2, <2>3, OthersFollow DEF RequestsFollow
  <2>5. RowsFollow'
    BY <1>3, <2>1, <2>2 DEF RowsFollow, RowFollows, At, Astray
  <2> QED
    BY <2>4, <2>5 DEF RequestsFollow
<1>5. CASE SaveBegins(e)
  <2> DEFINE row == Row(policies, view[e].id)
  <2>1. PICK text \in Texts :
          /\ Has(policies, view[e].id)
          /\ Keeps(e, [Idle EXCEPT !.pc = "profile", !.op = "save", !.path = row.path, !.row = row,
                         !.text = text])
    BY <1>5 DEF SaveBegins
  <2>2. row \in policies
    BY <2>1, RowFound
  <2> HIDE DEF row
  <2>3. /\ request'[e].pc = "profile" /\ request'[e].op = "save" /\ request'[e].path = row.path
        /\ request'[e].row = row
    BY <2>1 DEF Keeps, Idle, Typed, RequestsTyped
  <2>4. policies' = policies /\ nextId' = nextId
    BY <1>5 DEF SaveBegins
  <2>5. row.id < nextId /\ Has(policies, row.id)
        /\ \A s \in policies : s.id = row.id => s.path = row.path
    BY <2>2 DEF Typed, TablesTyped, Has
  <2>6. Follows(e)'
    BY <2>3, <2>4, <2>5 DEF Follows, Has
  <2> QED
    BY <1>2, <1>3, <2>4, <2>6, FollowingStep DEF At, Idle
<1>6. CASE ~Unregister(e) /\ ~SaveBegins(e)
  <2>1. policies' = policies
    BY <1>6 DEF Arrives, RegisterBegins, ManagedBegins, ReadBegins, RepositoryBegins,
                DeleteRepository, CreateProfile, UpdateProfile, DeleteProfile, ReviewBegins
  <2>2. request'[e].op # "save"
    BY <1>6, ArrivalIsQuiet
  <2>3. Follows(e)'
    BY <1>3, <2>2 DEF Follows
  <2> QED
    BY <1>2, <1>3, <2>1, <2>3, FollowingStep DEF At, Idle
<1> QED
  BY <1>4, <1>5, <1>6

\* A registration names the text that its file holds, unless the file went
\* astray or another row has the file by then.
LEMMA RegistrationFollows ==
  ASSUME Typed, RequestsFollow, RowsFollow, NEW e \in Editors,
         \/ ManagedCreates(e) \/ RegisterChecks(e) \/ RegisterLoads(e) \/ RegisterBinds(e)
         \/ RegisterInserts(e) \/ ManagedCleansUp(e)
  PROVE  RequestsFollow' /\ RowsFollow'
<1> DEFINE r == request[e]
           path == r.path
<1>1. /\ disk \in [Files -> Texts \cup {Missing}] /\ request \in [Editors -> Requests]
      /\ r \in Requests /\ Fits(r) /\ nextId \in Nat
  BY DEF Typed, PlacesTyped, RequestsTyped, TablesTyped
<1>2. CASE ManagedCreates(e)
  <2>1. /\ r.op = "managed" /\ path \in Files /\ UNCHANGED <<policies, nextId, disturbed>>
        /\ \/ /\ disk[path] = Missing /\ disk' = [disk EXCEPT ![path] = r.text]
              /\ Goto(e, "check")
           \/ disk' = disk /\ Ends(e)
    BY <1>1, <1>2 DEF ManagedCreates, MayCreate, At, Fits, tables
  <2>2. /\ \A f \in Editors \ {e} : request'[f] = request[f]
        /\ request'[e] = Idle \/ (request'[e].pc = "check" /\ request'[e].op = "managed")
    BY <2>1, NextPlace
  <2>3. Follows(e)'
    BY <2>2 DEF Follows, Idle
  <2>4. \A p \in Files : disk'[p] = disk[p] \/ disk[p] = Missing
    BY <1>1, <2>1
  <2>6. \A f \in Editors \ {e} : Follows(f)'
    BY <1>1, <2>1, <2>2, <2>4, OthersFollow DEF RequestsFollow
  <2>7. RowsFollow'
    <3> SUFFICES ASSUME NEW row \in policies
                 PROVE  row.document.provider # "none" /\ RowFollows(row)'
      BY <2>1 DEF RowsFollow
    <3>1. row.path \in Files /\ row.document.provider # "none" /\ RowFollows(row)
      BY DEF RowsFollow, Typed, TablesTyped
    <3>2. row.document = disk[row.path].document => disk'[row.path] = disk[row.path]
      BY <2>4, <3>1 DEF Missing, NoDocument
    <3> QED
      BY <2>1, <2>2, <3>1, <3>2 DEF RowFollows, At, Astray
  <2> QED
    BY <2>3, <2>6, <2>7 DEF RequestsFollow
<1>3. CASE RegisterChecks(e) \/ RegisterLoads(e) \/ RegisterBinds(e)
  <2>1. UNCHANGED <<disk, policies, nextId, disturbed>> /\ r.pc \in {"check", "load", "bind"}
    BY <1>3 DEF RegisterChecks, RegisterLoads, RegisterBinds, tables, history
  <2>2. \A p : (Astray(p) <=> Astray(p)') /\ (Registered(p) <=> Registered(p)')
    BY <2>1 DEF Astray, Registered
  <2>3. RegisterLoads(e) /\ request'[e].pc = "bind" => Loads(disk[path])
    <3>1. RegisterLoads(e) /\ ~Loads(disk[path]) => Fails(e)
      BY DEF RegisterLoads
    <3> QED
      BY <3>1, AfterFailure DEF Idle
  <2>4. request'[e].op # "save"
    BY <1>3, RegistrationGoesOn DEF Idle
  <2>5. request'[e].pc = "bind" =>
          /\ request'[e].text = disk[path] /\ Loads(disk[path])
    <3>1. request'[e].pc = "bind" => RegisterLoads(e)
      BY <1>3, <2>1, NextPlace, AfterFailure DEF RegisterChecks, RegisterBinds, Idle
    <3> QED
      BY <1>3, <2>3, <3>1, RegistrationGoesOn DEF Idle
  <2>6. request'[e].pc = "insert" => r.pc = "bind" /\ request'[e].text = r.text
    BY <1>3, RegistrationGoesOn DEF Idle
  <2>7. request'[e].pc \in {"bind", "insert"} => request'[e].path = path
    BY <1>3, RegistrationGoesOn DEF Idle
  <2>8. Follows(e)
    BY DEF RequestsFollow
  <2>9. Follows(e)'
    BY <2>1, <2>2, <2>4, <2>5, <2>6, <2>7, <2>8 DEF Follows
  <2> QED
    BY <1>1, <1>3, <2>1, <2>9, RegistrationGoesOn, FollowingStep DEF At
<1>4. CASE RegisterInserts(e)
  <2>1. r.pc = "insert" /\ UNCHANGED <<disk, disturbed>> /\ r.op # "save"
    BY <1>1, <1>4 DEF RegisterInserts, Fits
  <2>2. /\ \A f \in Editors \ {e} : request'[f] = request[f]
        /\ request'[e] = Idle \/ request'[e].pc = "cleanup"
    <3>1. Ends(e) \/ Fails(e)
      BY <1>4 DEF RegisterInserts
    <3> QED
      BY <3>1, NextPlace, AfterFailure
  <2>3. Follows(e)'
    BY <2>2 DEF Follows, Idle, Saving
  <2>4. CASE Registered(path)
    <3>1. UNCHANGED <<policies, nextId>>
      BY <1>4, <2>4 DEF RegisterInserts
    <3> QED
      BY <1>1, <2>1, <2>2, <2>3, <3>1, FollowingStep DEF At
  <2>5. CASE ~Registered(path)
    <3>2. PICK new : /\ new.id = nextId /\ new.path = path /\ new.document = r.text.document
                     /\ policies' = policies \cup {new} /\ nextId' = nextId + 1
      BY <1>4, <2>5 DEF RegisterInserts
    <3>1. policies' = policies \cup {new} /\ nextId' = nextId + 1
      BY <3>2
    <3>3. \A f \in Editors \ {e} : Follows(f)'
      BY <1>1, <2>1, <2>2, <3>1, <3>2, OthersFollow DEF RequestsFollow
    <3>4. Follows(e)
      BY DEF RequestsFollow
    <3>5. Loads(r.text) /\ (disk[path] = r.text \/ Astray(path))
      BY <2>1, <2>5, <3>4 DEF Follows
    <3>6. new.document.provider # "none" /\ RowFollows(new)'
      BY <2>1, <3>2, <3>5 DEF Loads, RowFollows, Astray
    <3>7. \A row \in policies : row.document.provider # "none" /\ RowFollows(row)'
      BY <2>1, <2>2 DEF RowsFollow, RowFollows, At, Astray
    <3> QED
      BY <2>3, <3>1, <3>3, <3>6, <3>7 DEF RequestsFollow, RowsFollow
  <2> QED
    BY <2>4, <2>5
<1>5. CASE ManagedCleansUp(e)
  <2>1. /\ r.op = "managed" /\ path \in Files /\ UNCHANGED <<policies, nextId>>
        /\ disk' = [disk EXCEPT ![path] = Missing]
        /\ disturbed' = disturbed \cup { <<"cleanup", path>> } /\ Ends(e)
    BY <1>1, <1>5 DEF ManagedCleansUp, At, Fits, tables
  <2>2. request'[e] = Idle /\ \A f \in Editors \ {e} : request'[f] = request[f]
    BY <2>1, NextPlace
  <2>3. \A p : disk'[p] = disk[p] \/ Astray(p)'
    BY <1>1, <2>1 DEF Astray
  <2>4. \A f \in Editors \ {e} : Follows(f)'
    BY <1>1, <2>1, <2>2, <2>3, OthersFollow DEF RequestsFollow
  <2>5. RowsFollow'
    BY <2>1, <2>2, <2>3 DEF RowsFollow, RowFollows, At, Astray
  <2> QED
    BY <2>2, <2>4, <2>5 DEF RequestsFollow, Follows, Idle
<1> QED
  BY <1>2, <1>3, <1>4, <1>5

\* A save writes the file while it holds the lock and then gives the row the
\* document it wrote.
LEMMA SaveFollows ==
  ASSUME Typed, LockBelongsToALiveSave, RequestsFollow, RowsFollow, NEW e \in Editors,
         \/ SaveReadsProfile(e) \/ SaveLocks(e) \/ SaveCompares(e) \/ SaveReplaces(e)
         \/ SaveRecords(e)
  PROVE  RequestsFollow' /\ RowsFollow'
<1> DEFINE r == request[e]
           path == r.path
<1>1. /\ disk \in [Files -> Texts \cup {Missing}] /\ request \in [Editors -> Requests]
      /\ r \in Requests /\ nextId \in Nat /\ Follows(e)
      /\ r.op = "save" /\ r.pc \in {"profile", "lock", "compare", "replace", "record"}
      /\ path \in Files
  BY DEF Typed, PlacesTyped, RequestsTyped, TablesTyped, RequestsFollow, Fits, At, SaveReadsProfile,
         SaveLocks, SaveCompares, SaveReplaces, SaveRecords
<1>2. CASE SaveReadsProfile(e) \/ SaveLocks(e) \/ SaveCompares(e)
  <2>1. UNCHANGED <<disk, policies, nextId, disturbed>> /\ r.pc # "record"
    BY <1>2 DEF SaveReadsProfile, SaveLocks, SaveCompares, At, tables, history
  <2>2. \A p : Astray(p) <=> Astray(p)'
    BY <2>1 DEF Astray
  <2>3. \/ request'[e] = Idle
        \/ /\ request'[e].op = "save" /\ request'[e].path = path /\ request'[e].row = r.row
           /\ request'[e].text = r.text /\ request'[e].pc \in {"lock", "compare", "replace"}
           /\ request'[e].pc = "replace" => Loads(r.text)
    <3>1. CASE SaveReadsProfile(e)
      <4> DEFINE c == IF Has(profiles, r.row.profile)
                      THEN Row(profiles, r.row.profile).configuration ELSE NoConfiguration
                 q == [r EXCEPT !.pc = "lock", !.configuration = c]
      <4>1. Keeps(e, q)
        BY <3>1 DEF SaveReadsProfile
      <4>2. q.pc = "lock" /\ q.op = r.op /\ q.path = path /\ q.row = r.row /\ q.text = r.text
        BY <1>1 DEF Requests
      <4> HIDE DEF q
      <4> QED
        BY <1>1, <4>1, <4>2, NextPlace
    <3>2. CASE SaveLocks(e)
      BY <1>1, <3>2, NextPlace DEF SaveLocks
    <3>3. CASE SaveCompares(e)
      BY <1>1, <3>3, NextPlace DEF SaveCompares
    <3> QED
      BY <1>2, <3>1, <3>2, <3>3
  <2>4. \A f \in Editors \ {e} : request'[f] = request[f]
    <3>1. Ends(e) \/ (\E q : Keeps(e, q)) \/ (\E pc : Goto(e, pc))
      BY <1>2 DEF SaveReadsProfile, SaveLocks, SaveCompares
    <3> QED
      BY <3>1, NextPlace
  <2>5. Follows(e)'
    <3>1. CASE request'[e] = Idle
      BY <3>1 DEF Follows, Idle
    <3>2. CASE request'[e] # Idle
      BY <1>1, <2>1, <2>2, <2>3, <3>2 DEF Follows, Saving
    <3> QED
      BY <3>1, <3>2
  <2> QED
    BY <1>1, <2>1, <2>4, <2>5, FollowingStep DEF At
<1>3. CASE SaveReplaces(e)
  <2>1. /\ r.pc = "replace" /\ disk' = [disk EXCEPT ![path] = r.text] /\ Goto(e, "record")
        /\ UNCHANGED <<policies, nextId, disturbed>>
    BY <1>3 DEF SaveReplaces, At, tables, history
  <2>2. /\ request'[e].pc = "record" /\ request'[e].op = "save" /\ request'[e].path = path
        /\ request'[e].row = r.row /\ request'[e].text = r.text
        /\ \A f \in Editors \ {e} : request'[f] = request[f]
    BY <1>1, <2>1, NextPlace
  <2>3. \A p : Astray(p) <=> Astray(p)'
    BY <2>1 DEF Astray
  <2>4. disk'[path] = r.text /\ \A p \in Files \ {path} : disk'[p] = disk[p]
    BY <1>1, <2>1
  <2>5. Follows(e)'
    BY <1>1, <2>1, <2>2, <2>3, <2>4 DEF Follows, Saving
  <2>6. Astray(path) \/ Registered(path)
    BY <1>1 DEF Follows, Saving, Has, Registered
  <2>7. ASSUME NEW f \in Editors \ {e} PROVE Follows(f)'
    <3>1. Works(request[f]) => request[f].path # path
      BY <1>1, <2>1 DEF LockBelongsToALiveSave, Works
    <3>2. CASE request[f].op = "save" /\ request[f].pc = "record"
      <4>1. request[f].path # path
        BY <3>1, <3>2 DEF Works
      <4> QED
        BY <1>1, <2>1, <2>2, <2>4, <4>1, OthersFollow DEF RequestsFollow
    <3>3. CASE request[f].op # "save" /\ request[f].pc = "record"
      <4>1. Follows(f) /\ request'[f] = request[f]
        BY <2>2 DEF RequestsFollow
      <4> QED
        BY <3>3, <4>1 DEF Follows
    <3>4. CASE request[f].pc # "record"
      <4>1. \A p : Registered(p) => Registered(p)'
        BY <2>1 DEF Registered
      <4> QED
        BY <1>1, <2>1, <2>2, <2>3, <2>4, <2>6, <3>4, <4>1, OthersFollow DEF RequestsFollow
    <3> QED
      BY <3>2, <3>3, <3>4
  <2>8. RowsFollow'
    <3> SUFFICES ASSUME NEW row \in policies
                 PROVE  row.document.provider # "none" /\ RowFollows(row)'
      BY <2>1 DEF RowsFollow
    <3>1. row.path \in Files /\ row.document.provider # "none" /\ RowFollows(row)
      BY DEF RowsFollow, Typed, TablesTyped
    <3>2. CASE row.path = path
      BY <2>2, <3>1, <3>2 DEF RowFollows, At
    <3>3. CASE row.path # path
      BY <1>1, <2>1, <2>2, <2>3, <2>4, <3>1, <3>3 DEF RowFollows, At
    <3> QED
      BY <3>2, <3>3
  <2> QED
    BY <2>5, <2>7, <2>8 DEF RequestsFollow
<1>4. CASE SaveRecords(e)
  <2> DEFINE New(row) == IF row.id = r.row.id THEN [row EXCEPT !.document = r.text.document]
                         ELSE row
  <2>1. /\ r.pc = "record" /\ Goto(e, "answer") /\ UNCHANGED <<disk, nextId, disturbed>>
        /\ policies' = { New(row) : row \in policies }
    BY <1>4 DEF SaveRecords, At
  <2>2. \A row \in policies :
          /\ New(row).id = row.id /\ New(row).path = row.path
          /\ row.id = r.row.id => New(row).document = r.text.document
          /\ row.id # r.row.id => New(row) = row
    BY DEF Typed, TablesTyped
  <2> HIDE DEF New
  <2>3. /\ request'[e].pc = "answer" /\ request'[e].op = "save"
        /\ \A f \in Editors \ {e} : request'[f] = request[f]
    BY <1>1, <2>1, NextPlace
  <2>4. \A f \in Editors \ {e} : Follows(f)'
    BY <1>1, <2>1, <2>2, <2>3, OthersFollow DEF RequestsFollow
  <2>5. Follows(e)'
    BY <2>3 DEF Follows, Saving
  <2>6. \A p : Astray(p) <=> Astray(p)'
    BY <2>1 DEF Astray
  <2>7. RowsFollow'
    <3> SUFFICES ASSUME NEW row \in policies
                 PROVE  New(row).document.provider # "none"
                        /\ \/ New(row).document = disk'[row.path].document
                           \/ \E f \in Editors : /\ request'[f].op = "save" /\ request'[f].pc = "record"
                                                 /\ request'[f].path = row.path
                           \/ Astray(row.path)'
      BY <2>1, <2>2 DEF RowsFollow, RowFollows, At
    <3>1. row.document.provider # "none" /\ RowFollows(row)
      BY DEF RowsFollow
    <3>2. CASE row.id = r.row.id
      <4>1. row.path = path
        BY <1>1, <2>1, <3>2 DEF Follows, Saving
      <4> QED
        BY <1>1, <2>1, <2>2, <2>6, <3>2, <4>1 DEF Follows, Loads
    <3>3. CASE row.id # r.row.id
      <4>1. row.path # path \/ Astray(row.path)
        BY <1>1, <2>1, <3>3 DEF Follows, Saving, Has, Typed, TablesTyped
      <4> QED
        BY <2>1, <2>2, <2>3, <2>6, <3>1, <3>3, <4>1 DEF RowFollows, At
    <3> QED
      BY <3>2, <3>3
  <2> QED
    BY <2>4, <2>5, <2>7 DEF RequestsFollow
<1> QED
  BY <1>2, <1>3, <1>4

\* Every other step leaves the rows to their files or is on record.
LEMMA FollowKept ==
  ASSUME Typed, LockBelongsToALiveSave, RequestsFollow, RowsFollow, [Next]_vars
  PROVE  RequestsFollow' /\ RowsFollow'
<1>1. nextId \in Nat /\ disk \in [Files -> Texts \cup {Missing}]
  BY DEF Typed, TablesTyped, PlacesTyped
<1>2. ASSUME NEW e \in Editors, Arrives(e) PROVE RequestsFollow' /\ RowsFollow'
  BY <1>2, ArrivalFollows
<1>3. ASSUME NEW e \in Editors,
             \/ SaveAnswers(e) \/ ReadLoads(e) \/ RepositoryInserts(e) \/ ReviewBinds(e)
             \/ ReviewFreezes(e)
      PROVE  RequestsFollow' /\ RowsFollow'
  <2>1. /\ UNCHANGED <<disk, policies, disturbed>>
        /\ nextId' = nextId \/ nextId' = nextId + 1
    BY <1>3 DEF SaveAnswers, ReadLoads, RepositoryInserts, ReviewBinds, ReviewFreezes, tables, history
  <2>2. ~At(e, "save", "record")
    BY <1>3 DEF SaveAnswers, ReadLoads, RepositoryInserts, ReviewBinds, ReviewFreezes, At
  <2>3. Ends(e) \/ \E q : Keeps(e, q) /\ q.pc \in {"read", "freeze"}
    <3>1. CASE SaveAnswers(e)
      <4> DEFINE row == Row(policies, request[e].row.id)
                 q == [Idle EXCEPT !.pc = "read", !.op = "read", !.path = row.path, !.row = row]
      <4>1. q.pc = "read" /\ (Keeps(e, q) \/ Ends(e))
        BY <3>1 DEF SaveAnswers, Reads, Idle
      <4> HIDE DEF q
      <4> QED
        BY <4>1
    <3>2. CASE ReviewBinds(e)
      <4> DEFINE q == [request[e] EXCEPT !.pc = "freeze",
                         !.configuration = Row(profiles, request[e].row.profile).configuration]
      <4>1. request[e] \in Requests
        BY DEF Typed, RequestsTyped
      <4>2. q.pc = "freeze" /\ (Keeps(e, q) \/ Ends(e))
        BY <3>2, <4>1 DEF ReviewBinds, Requests
      <4> HIDE DEF q
      <4> QED
        BY <4>2
    <3> QED
      BY <1>3, <3>1, <3>2 DEF ReadLoads, RepositoryInserts, ReviewFreezes
  <2>4. request'[e].pc \in {"idle", "read", "freeze"}
    BY <2>3, NextPlace DEF Idle
  <2>5. Follows(e)'
    BY <2>4 DEF Follows, Saving
  <2>6. \A f \in Editors \ {e} : request'[f] = request[f]
    BY <2>3, NextPlace
  <2> QED
    BY <1>1, <2>1, <2>2, <2>5, <2>6, FollowingStep
<1>4. ASSUME NEW e \in Editors, Handles(e) PROVE RequestsFollow' /\ RowsFollow'
  BY <1>3, <1>4, RegistrationFollows, SaveFollows DEF Handles
<1>5. CASE UNCHANGED vars \/ \E a \in Attempts : WorkerFetches(a) \/ WorkerPrepares(a) \/ WorkerEnds(a)
  <2>1. UNCHANGED <<disk, policies, nextId, disturbed, request>>
    BY <1>5 DEF WorkerFetches, WorkerPrepares, WorkerEnds, vars, tables, history
  <2>2. \A p : Astray(p) <=> Astray(p)'
    BY <2>1 DEF Astray
  <2>3. RequestsFollow'
    BY <1>1, <2>1, OthersFollow DEF RequestsFollow
  <2> QED
    BY <2>1, <2>2, <2>3 DEF RowsFollow, RowFollows, At
<1>6. CASE OutsideEdit
  <2>1. PICK path \in Files, text \in Texts \cup {Missing} :
          /\ disk' = [disk EXCEPT ![path] = text]
          /\ disturbed' = disturbed \cup { <<"edit", path>> }
    BY <1>6 DEF OutsideEdit
  <2>2. UNCHANGED <<policies, nextId, request>>
    BY <1>6 DEF OutsideEdit, tables
  <2>3. \A p : (Astray(p) => Astray(p)') /\ (disk'[p] = disk[p] \/ Astray(p)')
    BY <1>1, <2>1 DEF Astray
  <2>4. RequestsFollow'
    BY <1>1, <2>1, <2>2, <2>3, OthersFollow DEF RequestsFollow
  <2> QED
    BY <2>2, <2>3, <2>4 DEF RowsFollow, RowFollows, At
<1>7. CASE Crash
  <2>1. /\ \A e \in Editors : request'[e] = Idle
        /\ UNCHANGED <<disk, policies>>
        /\ disturbed' = disturbed \cup
             { <<"crash", request[e].path>> : e \in { f \in Editors : request[f].pc = "record" } }
    BY <1>7 DEF Crash, tables
  <2>2. RequestsFollow'
    BY <2>1 DEF RequestsFollow, Follows, Idle
  <2>3. RowsFollow'
    BY <2>1 DEF RowsFollow, RowFollows, At, Astray
  <2> QED
    BY <2>2, <2>3
<1> QED
  BY <1>2, <1>4, <1>5, <1>6, <1>7 DEF Next

\* The registry in use has one row, and its file holds its document.
LEMMA FollowStarts == Init => RequestsFollow /\ RowsFollow
<1> SUFFICES ASSUME Init PROVE RequestsFollow /\ RowsFollow
  OBVIOUS
<1>1. PICK path \in Files, text \in Texts :
        /\ Loads(text)
        /\ disk = [f \in Files |-> IF f = path THEN text ELSE Missing]
        /\ policies = { [id |-> 2, path |-> path, document |-> text.document, profile |-> 1] }
  BY Zenon DEF Init
<1>2. request = [e \in Editors |-> Idle]
  BY DEF Init
<1>3. RequestsFollow
  BY <1>2 DEF RequestsFollow, Follows, Idle
<1>4. RowsFollow
  BY <1>1 DEF RowsFollow, RowFollows, Loads
<1> QED
  BY <1>3, <1>4

\* Whatever registrations, saves and unregistrations overlap: a row names the
\* document of its file, unless a save is about to record it or an edit, a
\* crash, a cleanup or an unregistration is to blame.
THEOREM RegistryFollowsDisk == Spec => []QuietRegistryAgreesWithDisk
<1>1. Typed /\ [Next]_vars => Typed'
  BY TypedKept
<1>2. Typed /\ LockBelongsToALiveSave /\ [Next]_vars => LockBelongsToALiveSave'
  BY LockKept
<1>3. /\ Typed /\ LockBelongsToALiveSave /\ RequestsFollow /\ RowsFollow /\ [Next]_vars
      => RequestsFollow' /\ RowsFollow'
  BY FollowKept
<1>4. RowsFollow => QuietRegistryAgreesWithDisk
  BY DEF RowsFollow, RowFollows, Astray, QuietRegistryAgreesWithDisk
<1> QED
  BY <1>1, <1>2, <1>3, <1>4, InitTyped, LockStarts, FollowStarts, PTL DEF Spec

=================================================================================
