---------------------------- MODULE PolicyRegistry ----------------------------
(***************************************************************************)
(* The registry of the local Web server (platform/web/registry.py, api.py, *)
(* provider_resolution.py, local_store.py, worker.py): reviewed            *)
(* repositories, Provider Profiles and trusted Compute Policies, which are *)
(* files on the server's disk that a registered row names together with   *)
(* the identity of the document they held.  Every await of a handler is a  *)
(* point where other requests, the worker and a text editor outside the    *)
(* server go on.                                                           *)
(*                                                                         *)
(* A document is what the parser returns: its identity (a digest of the    *)
(* parsed mapping) is the document itself, and a text is a document and    *)
(* the remarks and the layout that the parser drops.  A Review Policy goes *)
(* the same way without the Provider Profile; here a review uses the       *)
(* built-in one.                                                           *)
(***************************************************************************)
EXTENDS Naturals

CONSTANTS
  Editors,       \* the requests that are handled at a time
  Attempts,
  Files,         \* paths of policy files, as resolved
  Managed,       \* those in the directory of managed policies
  Roots,         \* repositories on the disk
  Inside,        \* Inside[r]: the files below r
  Texts,         \* texts a policy file may hold
  Payloads,      \* Provider Profiles a client may ask for
  Environment,   \* credential references that are set
  MaxRequests,   \* bound: requests
  MaxFaults      \* bound: writes and removals outside the server, and crashes

NoFile == "none"
NoPin == [command |-> "none", adapter |-> "none"]
NoDocument == [provider |-> "none", pin |-> NoPin, version |-> 0]
Missing == [document |-> NoDocument, remark |-> "missing"]
NoConfiguration == [provider |-> "none", endpoint |-> "none", credential |-> "none",
                    adapter |-> "none", command |-> "none"]
NoRow == [id |-> 0, path |-> NoFile, document |-> NoDocument, profile |-> 0]

Adapters == {"worktree-json", "codex"}
Remotes == {"anthropic", "openai"}

\* A profile's connection fields fit its kind of provider.
Shaped(c) ==
  \/ /\ c.provider = "local-cli"
     /\ c.command \notin {"none", "blank"}
     /\ c.adapter \in Adapters \cup {"none"}
     /\ c.endpoint = "none" /\ c.credential = "none"
  \/ /\ c.provider \in Remotes
     /\ c.adapter = "none" /\ c.command = "none"
     /\ c.credential \notin {"none", "literal"}
     /\ c.endpoint \in {"none", "https"}

Fingerprint(c) ==
  [command |-> c.command,
   adapter |-> IF c.adapter = "none" THEN "worktree-json" ELSE c.adapter]

\* A Compute Policy binds the profile it was written for and, when that runs
\* a command, pins the command.
Binds(document, c) ==
  /\ document.provider = c.provider
  /\ c.provider = "local-cli" => document.pin = Fingerprint(c)

\* The starter document of a managed policy, for a profile.
Template(c) ==
  [document |-> [provider |-> IF c.provider = "none" THEN "anthropic" ELSE c.provider,
                 pin |-> IF c.provider = "local-cli" THEN Fingerprint(c) ELSE NoPin,
                 version |-> 1],
   remark |-> "template"]

Templates == { Template(c) : c \in { d \in Payloads : Shaped(d) } \cup {NoConfiguration} }

Loads(text) == text.document.provider # "none"

\* A frozen profile becomes a provider for a document, credentials included.
Resolves(frozen, document) ==
  /\ Binds(document, frozen)
  /\ frozen.provider # "local-cli" => frozen.credential \in Environment

ASSUME RegistryAssumption ==
  /\ Managed \subseteq Files /\ NoFile \notin Files \cup Editors
  /\ Inside \in [Roots -> SUBSET Files]
  /\ Missing \notin Texts /\ Templates \subseteq Texts
  /\ MaxRequests \in Nat /\ MaxFaults \in Nat

VARIABLES
  disk,          \* the policy files
  policies,      \* trusted_compute_policies
  profiles,      \* provider_profiles
  repositories,  \* repositories
  nextId,        \* the identifier the next row gets
  attempts,      \* review_runs with the worker's place in them
  lock,          \* who holds the lock file beside a policy file
  request,       \* handlers that are under way, with their locals
  view,          \* the document an editor's page shows
  budget,        \* requests and faults that are left
  adopted,       \* history: documents a row has named
  maker,         \* history: who created a file exclusively
  disturbed,     \* history: why a file may differ from its row
  executions     \* history: what Attempts were executed with

tables == <<policies, profiles, repositories, nextId>>
history == <<adopted, maker, disturbed, executions>>
vars == <<disk, tables, attempts, lock, request, view, budget, history>>

Idle == [pc |-> "idle", op |-> "none", path |-> NoFile, root |-> NoFile, row |-> NoRow,
         profile |-> 0, repository |-> 0, text |-> Missing,
         configuration |-> NoConfiguration]

NoAttempt == [status |-> "none", repository |-> 0, policy |-> 0,
              frozen |-> NoConfiguration, row |-> NoRow, root |-> NoFile]

Row(table, id) == CHOOSE r \in table : r.id = id
Has(table, id) == \E r \in table : r.id = id
Enclosed(path) == \E r \in repositories : path \in Inside[r.root]
Registered(path) == \E row \in policies : row.path = path

At(e, op, pc) == request[e].op = op /\ request[e].pc = pc
Goto(e, pc) == request' = [request EXCEPT ![e].pc = pc]
Ends(e) == request' = [request EXCEPT ![e] = Idle]

Asks(e) ==
  /\ request[e] = Idle
  /\ budget.requests > 0
  /\ budget' = [budget EXCEPT !.requests = @ - 1]

Keeps(e, r) == request' = [request EXCEPT ![e] = r]

-----------------------------------------------------------------------------
(* Registering a policy file, and creating one in the managed directory.   *)

RegisterBegins(e) ==
  /\ Asks(e)
  /\ \E path \in Files, p \in {0} \cup { r.id : r \in profiles } :
        Keeps(e, [Idle EXCEPT !.pc = "check", !.op = "register", !.path = path,
                              !.profile = p])
  /\ UNCHANGED <<disk, tables, attempts, lock, view, history>>

\* The template is made for the profile as it is now.
ManagedBegins(e) ==
  /\ Asks(e)
  /\ \E path \in Managed, p \in {0} \cup { r.id : r \in profiles } :
       /\ ~Enclosed(path)
       /\ Keeps(e, [Idle EXCEPT !.pc = "create", !.op = "managed", !.path = path,
                      !.profile = p,
                      !.text = Template(IF p = 0 THEN NoConfiguration
                                        ELSE Row(profiles, p).configuration)])
  /\ UNCHANGED <<disk, tables, attempts, lock, view, history>>

MayCreate_Slip(path) == TRUE

MayCreate(path) == disk[path] = Missing

ManagedCreates(e) ==
  /\ At(e, "managed", "create")
  /\ LET path == request[e].path IN
       IF MayCreate(path)
       THEN /\ disk' = [disk EXCEPT ![path] = request[e].text]
            /\ maker' = [maker EXCEPT ![path] = e]
            /\ Goto(e, "check")
       ELSE Ends(e) /\ UNCHANGED <<disk, maker>>
  /\ UNCHANGED <<tables, attempts, lock, view, budget, adopted, disturbed, executions>>

\* A failed registration gives up; a managed one cleans up first.
Fails(e) == IF request[e].op = "managed" THEN Goto(e, "cleanup") ELSE Ends(e)

RegisterChecks(e) ==
  /\ request[e].pc = "check"
  /\ IF disk[request[e].path] = Missing \/ Enclosed(request[e].path)
     THEN Fails(e)
     ELSE Goto(e, "load")
  /\ UNCHANGED <<disk, tables, attempts, lock, view, budget, history>>

RegisterLoads(e) ==
  /\ request[e].pc = "load"
  /\ LET text == disk[request[e].path] IN
       IF Loads(text)
       THEN Keeps(e, [request[e] EXCEPT !.pc = "bind", !.text = text])
       ELSE Fails(e)
  /\ UNCHANGED <<disk, tables, attempts, lock, view, budget, history>>

RegisterBinds(e) ==
  /\ request[e].pc = "bind"
  /\ LET p == request[e].profile IN
       IF \/ p = 0
          \/ /\ Has(profiles, p)
             /\ Binds(request[e].text.document, Row(profiles, p).configuration)
       THEN Goto(e, "insert")
       ELSE Fails(e)
  /\ UNCHANGED <<disk, tables, attempts, lock, view, budget, history>>

\* The path is unique in the table.
RegisterInserts(e) ==
  /\ request[e].pc = "insert"
  /\ LET r == request[e] IN
       IF Registered(r.path)
       THEN Fails(e) /\ UNCHANGED <<policies, nextId, adopted>>
       ELSE /\ policies' = policies \cup
                 { [id |-> nextId, path |-> r.path, document |-> r.text.document,
                    profile |-> r.profile] }
            /\ nextId' = nextId + 1
            /\ adopted' = adopted \cup { <<nextId, r.text.document>> }
            /\ Ends(e)
  /\ UNCHANGED <<disk, profiles, repositories, attempts, lock, view, budget, maker,
                 disturbed, executions>>

\* Whatever file is there now is removed.
ManagedCleansUp(e) ==
  /\ At(e, "managed", "cleanup")
  /\ LET path == request[e].path IN
       /\ disk' = [disk EXCEPT ![path] = Missing]
       /\ disturbed' = disturbed \cup { <<"cleanup", path>> }
  /\ Ends(e)
  /\ UNCHANGED <<tables, attempts, lock, view, budget, adopted, maker, executions>>

\* A registration or a save that is under way may outlive the row.
Unregister(e) ==
  /\ Asks(e)
  /\ \E row \in policies :
       /\ policies' = policies \ {row}
       /\ disturbed' = IF \E f \in Editors : request[f].path = row.path
                       THEN disturbed \cup { <<"unregister", row.path>> }
                       ELSE disturbed
  /\ UNCHANGED <<disk, profiles, repositories, nextId, attempts, lock, request, view,
                 adopted, maker, executions>>

-----------------------------------------------------------------------------
(* The document editor: reading a document and saving it.                  *)

Reads(e, row) ==
  Keeps(e, [Idle EXCEPT !.pc = "read", !.op = "read", !.path = row.path, !.row = row])

ReadBegins(e) ==
  /\ Asks(e)
  /\ \E row \in policies : ~Enclosed(row.path) /\ Reads(e, row)
  /\ UNCHANGED <<disk, tables, attempts, lock, view, history>>

\* A save answers with the document as it is by then.
SaveAnswers(e) ==
  /\ At(e, "save", "answer")
  /\ LET id == request[e].row.id IN
       IF Has(policies, id) /\ ~Enclosed(request[e].path)
       THEN Reads(e, Row(policies, id))
       ELSE Ends(e)
  /\ UNCHANGED <<disk, tables, attempts, lock, view, budget, history>>

\* Under the shared lock: no save is at work on the file.
ReadLoads(e) ==
  /\ At(e, "read", "read")
  /\ lock[request[e].path] = NoFile
  /\ LET text == disk[request[e].path] IN
       view' = IF Loads(text)
               THEN [view EXCEPT ![e] = [id |-> request[e].row.id, text |-> text]]
               ELSE view
  /\ Ends(e)
  /\ UNCHANGED <<disk, tables, attempts, lock, budget, history>>

\* The page sends the text it was shown as the one to be replaced.
SaveBegins(e) ==
  /\ Asks(e)
  /\ Has(policies, view[e].id)
  /\ LET row == Row(policies, view[e].id) IN
       /\ ~Enclosed(row.path)
       /\ \E text \in Texts :
            Keeps(e, [Idle EXCEPT !.pc = "profile", !.op = "save", !.path = row.path,
                                  !.row = row, !.text = text])
  /\ UNCHANGED <<disk, tables, attempts, lock, view, history>>

\* A profile that is gone leaves the save without a binding to keep.
SaveReadsProfile(e) ==
  /\ At(e, "save", "profile")
  /\ LET p == request[e].row.profile IN
       Keeps(e, [request[e] EXCEPT !.pc = "lock",
                   !.configuration = IF Has(profiles, p) THEN Row(profiles, p).configuration
                                     ELSE NoConfiguration])
  /\ UNCHANGED <<disk, tables, attempts, lock, view, budget, history>>

SaveLocks(e) ==
  /\ At(e, "save", "lock")
  /\ lock[request[e].path] = NoFile
  /\ lock' = [lock EXCEPT ![request[e].path] = e]
  /\ Goto(e, "compare")
  /\ UNCHANGED <<disk, tables, attempts, view, budget, history>>

SameContent_Slip(shown, text) == shown.document = text.document

SameContent(shown, text) == shown = text

Releases(e) == lock' = [lock EXCEPT ![request[e].path] = NoFile]

SaveCompares(e) ==
  /\ At(e, "save", "compare")
  /\ LET r == request[e] IN
       IF /\ disk[r.path] # Missing
          /\ SameContent(view[e].text, disk[r.path])
          /\ Loads(r.text)
          /\ r.configuration # NoConfiguration => Binds(r.text.document, r.configuration)
       THEN Goto(e, "replace") /\ UNCHANGED lock
       ELSE Ends(e) /\ Releases(e)
  /\ UNCHANGED <<disk, tables, attempts, view, budget, history>>

SaveReplaces_Slip(e) ==
  /\ At(e, "save", "replace")
  /\ disk' = [disk EXCEPT ![request[e].path] = request[e].text]
  /\ Goto(e, "record") /\ Releases(e)
  /\ UNCHANGED <<tables, attempts, view, budget, history>>

SaveReplaces(e) ==
  /\ At(e, "save", "replace")
  /\ disk' = [disk EXCEPT ![request[e].path] = request[e].text]
  /\ Goto(e, "record")
  /\ UNCHANGED <<tables, attempts, lock, view, budget, history>>

\* The row may be gone: then nothing is updated.
SaveRecords(e) ==
  /\ At(e, "save", "record")
  /\ LET r == request[e] IN
       /\ policies' = { IF row.id = r.row.id THEN [row EXCEPT !.document = r.text.document]
                        ELSE row : row \in policies }
       /\ adopted' = IF Has(policies, r.row.id)
                     THEN adopted \cup { <<r.row.id, r.text.document>> } ELSE adopted
  /\ Releases(e)
  /\ Goto(e, "answer")
  /\ UNCHANGED <<disk, profiles, repositories, nextId, attempts, view, budget, maker,
                 disturbed, executions>>

-----------------------------------------------------------------------------
(* Repositories and Provider Profiles.                                     *)

RepositoryBegins(e) ==
  /\ Asks(e)
  /\ \E root \in Roots :
       /\ \A row \in policies : row.path \notin Inside[root]
       /\ Keeps(e, [Idle EXCEPT !.pc = "insert-repository", !.op = "repository",
                                !.root = root])
  /\ UNCHANGED <<disk, tables, attempts, lock, view, history>>

\* A root that is registered by then is answered or refused by the table.
RepositoryInserts(e) ==
  /\ At(e, "repository", "insert-repository")
  /\ IF \E r \in repositories : r.root = request[e].root
     THEN UNCHANGED <<repositories, nextId>>
     ELSE /\ repositories' = repositories \cup { [id |-> nextId, root |-> request[e].root] }
          /\ nextId' = nextId + 1
  /\ Ends(e)
  /\ UNCHANGED <<disk, policies, profiles, attempts, lock, view, budget, history>>

DeleteRepository(e) ==
  /\ Asks(e)
  /\ \E r \in repositories : repositories' = repositories \ {r}
  /\ UNCHANGED <<disk, policies, profiles, nextId, attempts, lock, request, view, history>>

CreateProfile(e) ==
  /\ Asks(e)
  /\ \E c \in Payloads :
       /\ Shaped(c)
       /\ profiles' = profiles \cup { [id |-> nextId, configuration |-> c] }
  /\ nextId' = nextId + 1
  /\ UNCHANGED <<disk, policies, repositories, attempts, lock, request, view, history>>

UpdateProfile(e) ==
  /\ Asks(e)
  /\ \E p \in profiles, c \in Payloads :
       /\ Shaped(c)
       /\ profiles' = (profiles \ {p}) \cup { [p EXCEPT !.configuration = c] }
  /\ UNCHANGED <<disk, policies, repositories, nextId, attempts, lock, request, view,
                 history>>

DeleteProfile(e) ==
  /\ Asks(e)
  /\ \E p \in profiles : profiles' = profiles \ {p}
  /\ UNCHANGED <<disk, policies, repositories, nextId, attempts, lock, request, view,
                 history>>

-----------------------------------------------------------------------------
(* Creating an Attempt, and the worker.                                    *)

ReviewBegins(e) ==
  /\ Asks(e)
  /\ \E r \in repositories, row \in policies :
       /\ row.profile # 0
       /\ Keeps(e, [Idle EXCEPT !.pc = "bind-profile", !.op = "review", !.row = row,
                                !.path = row.path, !.repository = r.id])
  /\ UNCHANGED <<disk, tables, attempts, lock, view, history>>

ReviewBinds(e) ==
  /\ At(e, "review", "bind-profile")
  /\ LET p == request[e].row.profile IN
       IF Has(profiles, p)
       THEN Keeps(e, [request[e] EXCEPT !.pc = "freeze",
                        !.configuration = Row(profiles, p).configuration])
       ELSE Ends(e)
  /\ UNCHANGED <<disk, tables, attempts, lock, view, budget, history>>

\* The binding is checked again, against the file as it is now.
ReviewFreezes(e) ==
  /\ At(e, "review", "freeze")
  /\ LET r == request[e]
         text == disk[r.path]
         unused == { a \in Attempts : attempts[a] = NoAttempt } IN
       IF Loads(text) /\ Binds(text.document, r.configuration) /\ unused # {}
       THEN \E a \in unused :
              attempts' = [attempts EXCEPT ![a] =
                [NoAttempt EXCEPT !.status = "queued", !.repository = r.repository,
                                  !.policy = r.row.id, !.frozen = r.configuration]]
       ELSE UNCHANGED attempts
  /\ Ends(e)
  /\ UNCHANGED <<disk, tables, lock, view, budget, history>>

\* One Attempt at a time.
WorkerFetches(a) ==
  /\ attempts[a].status = "queued"
  /\ \A b \in Attempts : attempts[b].status \notin {"fetched", "running"}
  /\ LET w == attempts[a] IN
       attempts' = [attempts EXCEPT ![a] =
         IF Has(repositories, w.repository) /\ Has(policies, w.policy)
         THEN [w EXCEPT !.status = "fetched", !.row = Row(policies, w.policy),
                        !.root = Row(repositories, w.repository).root]
         ELSE [w EXCEPT !.status = "failed"]]
  /\ UNCHANGED <<disk, tables, lock, request, view, budget, history>>

Trusted(path, root) == path \notin Inside[root]

Drifted_Slip(row, document) == FALSE

Drifted(row, document) == row.document # document

\* The file is loaded, compared with the row that was fetched, and the frozen
\* profile is resolved for it, all without the lock.
WorkerPrepares(a) ==
  /\ attempts[a].status = "fetched"
  /\ LET w == attempts[a]
         text == disk[w.row.path]
         runs == /\ Trusted(w.row.path, w.root)
                 /\ Loads(text)
                 /\ ~Drifted(w.row, text.document)
                 /\ Resolves(w.frozen, text.document) IN
       /\ attempts' = [attempts EXCEPT ![a].status = IF runs THEN "running" ELSE "failed"]
       /\ executions' = IF runs
            THEN executions \cup
                   { [attempt |-> a, policy |-> w.policy, path |-> w.row.path,
                      root |-> w.root, document |-> text.document, frozen |-> w.frozen] }
            ELSE executions
  /\ UNCHANGED <<disk, tables, lock, request, view, budget, adopted, maker, disturbed>>

WorkerEnds(a) ==
  /\ attempts[a].status = "running"
  /\ attempts' = [attempts EXCEPT ![a].status = "done"]
  /\ UNCHANGED <<disk, tables, lock, request, view, budget, history>>

-----------------------------------------------------------------------------
(* The world around the server.                                            *)

OutsideEdit ==
  /\ budget.faults > 0
  /\ budget' = [budget EXCEPT !.faults = @ - 1]
  /\ \E path \in Files, text \in Texts \cup {Missing} :
       /\ text # disk[path]
       /\ disk' = [disk EXCEPT ![path] = text]
       /\ disturbed' = disturbed \cup { <<"edit", path>> }
  /\ UNCHANGED <<tables, attempts, lock, request, view, adopted, maker, executions>>

\* Handlers and locks are gone; files, rows and pages stay, and what the
\* worker held is recovered from the start.
Crash ==
  /\ budget.faults > 0
  /\ budget' = [budget EXCEPT !.faults = @ - 1]
  /\ request' = [e \in Editors |-> Idle]
  /\ lock' = [path \in Files |-> NoFile]
  /\ disturbed' = disturbed \cup
       { <<"crash", request[e].path>> : e \in { f \in Editors : request[f].pc = "record" } }
  /\ attempts' = [a \in Attempts |->
       IF attempts[a].status \in {"fetched", "running"}
       THEN [attempts[a] EXCEPT !.status = "queued", !.row = NoRow, !.root = NoFile]
       ELSE attempts[a]]
  /\ UNCHANGED <<disk, tables, view, adopted, maker, executions>>

-----------------------------------------------------------------------------
\* A registry that is in use: a policy for the profile it is bound to.
Init ==
  /\ \E path \in Files, text \in Texts, c \in Payloads, owned \in SUBSET Roots :
       /\ Loads(text) /\ Shaped(c) /\ Binds(text.document, c)
       /\ \A root \in owned : path \notin Inside[root]
       /\ \A r, s \in owned : r = s
       /\ disk = [f \in Files |-> IF f = path THEN text ELSE Missing]
       /\ policies = { [id |-> 2, path |-> path, document |-> text.document,
                        profile |-> 1] }
       /\ profiles = { [id |-> 1, configuration |-> c] }
       /\ repositories = { [id |-> 3, root |-> root] : root \in owned }
       /\ view = [e \in Editors |-> [id |-> 2, text |-> text]]
       /\ adopted = { <<2, text.document>> }
  /\ nextId = 4
  /\ attempts = [a \in Attempts |-> NoAttempt]
  /\ lock = [path \in Files |-> NoFile]
  /\ request = [e \in Editors |-> Idle]
  /\ budget = [requests |-> MaxRequests, faults |-> MaxFaults]
  /\ maker = [path \in Files |-> NoFile]
  /\ disturbed = {}
  /\ executions = {}

\* One step of a handler that has begun.
Handles(e) ==
  \/ ManagedCreates(e) \/ RegisterChecks(e) \/ RegisterLoads(e) \/ RegisterBinds(e)
  \/ RegisterInserts(e) \/ ManagedCleansUp(e)
  \/ SaveAnswers(e) \/ ReadLoads(e)
  \/ SaveReadsProfile(e) \/ SaveLocks(e) \/ SaveCompares(e) \/ SaveReplaces(e)
  \/ SaveRecords(e) \/ RepositoryInserts(e) \/ ReviewBinds(e) \/ ReviewFreezes(e)

Arrives(e) ==
  \/ RegisterBegins(e) \/ ManagedBegins(e) \/ Unregister(e) \/ SaveBegins(e)
  \/ ReadBegins(e)
  \/ RepositoryBegins(e) \/ DeleteRepository(e) \/ CreateProfile(e) \/ UpdateProfile(e)
  \/ DeleteProfile(e) \/ ReviewBegins(e)

Next ==
  \/ \E e \in Editors : Arrives(e) \/ Handles(e)
  \/ \E a \in Attempts : WorkerFetches(a) \/ WorkerPrepares(a) \/ WorkerEnds(a)
  \/ OutsideEdit \/ Crash

Spec == Init /\ [][Next]_vars
===============================================================================
