-------------------------- MODULE PolicyRegistryProps --------------------------
(* What the registry of trusted policies promises.                         *)
EXTENDS PolicyRegistry

Configurations == { c \in Payloads : Shaped(c) } \cup {NoConfiguration}
Documents == { t.document : t \in Texts }
Ids == 0 .. nextId

\* Every variable holds values of its type, identifiers are given once and a
\* file is registered once (the UNIQUE columns of schema.sql).
PolicyRegistryTypeOK ==
  /\ disk \in [Files -> Texts \cup {Missing}]
  /\ policies \subseteq [id : Ids, path : Files, document : Documents, profile : Ids]
  /\ profiles \subseteq [id : Ids, configuration : Configurations]
  /\ repositories \subseteq [id : Ids, root : Roots]
  /\ \A r, s \in policies : r.id = s.id \/ r.path = s.path => r = s
  /\ \A r, s \in profiles : r.id = s.id => r = s
  /\ \A r, s \in repositories : r.id = s.id \/ r.root = s.root => r = s
  /\ lock \in [Files -> Editors \cup {NoFile}]
  /\ \A e \in Editors :
       /\ request[e].path \in Files \cup {NoFile}
       /\ request[e].configuration \in Configurations
       /\ view[e].text \in Texts \cup {Missing}
  /\ \A a \in Attempts :
       /\ attempts[a].status \in {"none", "queued", "fetched", "running", "done", "failed"}
       /\ attempts[a].frozen \in Configurations

\* The worker reads the row and later the file, without the lock that a save
\* holds.  What an Attempt executes with is nevertheless a document that the
\* row of its policy has named: an edit of the file outside the server, or a
\* save that is not recorded, runs no review (worker.py _trusted_policy_drift).
ExecutedWasAdopted ==
  \A x \in executions : <<x.policy, x.document>> \in adopted

\* The Provider Profile is frozen when the Attempt is created and the document
\* is read when it runs; the profile and the file may both change in between.
\* A command that runs is the one the executed document pins
\* (provider_resolution.py resolve_frozen_provider_configuration).
ExecutedCommandIsPinned ==
  \A x \in executions :
    /\ x.frozen.provider = x.document.provider
    /\ x.frozen.provider = "local-cli" => x.document.pin = Fingerprint(x.frozen)
    /\ x.frozen.provider # "local-cli" => x.frozen.credential \in Environment

\* A repository and a policy inside it can both get registered, since each
\* registration looks at the other's table before it writes its own; no review
\* of that repository is governed by that policy (USAGE.md:610, registry.py
\* register_local_repository).
NoRepositoryGovernsItself ==
  \A x \in executions : x.path \notin Inside[x.root]

\* What an Attempt executes with is trusted, however the registry changed since
\* it was created: adopted, with the command it pins, and from outside.
ExecutedIsTrusted ==
  ExecutedWasAdopted /\ ExecutedCommandIsPinned /\ NoRepositoryGovernsItself

\* Unless the file was edited outside the server, or a crash, a failed managed
\* creation or an unregistration cut in, a row names the document its file
\* holds whenever no save is between its replace and its record (registry.py
\* write_trusted_policy_document, which records before it unlocks).
QuietRegistryAgreesWithDisk ==
  \A row \in policies :
    \/ row.document = disk[row.path].document
    \/ \E e \in Editors : At(e, "save", "record") /\ request[e].path = row.path
    \/ \E why \in {"edit", "crash", "cleanup", "unregister"} :
         <<why, row.path>> \in disturbed

\* A managed creation whose registration fails removes a file that it created
\* itself and not one that another creation put there meanwhile (registry.py
\* create_managed_trusted_policy, exclusive_create_text).
CleanupRemovesOwnFile ==
  \A e \in Editors :
    LET path == request[e].path IN
      At(e, "managed", "cleanup") =>
        \/ disk[path] = Missing \/ maker[path] = e
        \/ <<"edit", path>> \in disturbed \/ <<"cleanup", path>> \in disturbed

\* A save replaces the very text that its page was shown, remarks and layout
\* included, unless the file is written outside the lock between the
\* comparison and the replacement (registry.py write_trusted_policy_document,
\* policy_document_content_sha256).
SaveReplacesWhatWasShown ==
  [][\A e \in Editors :
       At(e, "save", "replace") /\ request'[e].pc = "record" =>
         LET path == request[e].path IN
           \/ disk[path] = view[e].text
           \/ <<"edit", path>> \in disturbed \/ <<"cleanup", path>> \in disturbed]_vars

\* The lock of a policy file is held by the save that is at work on that very
\* file and by nobody else: neither an early return, nor a file that changed,
\* nor a crash leaves a lock behind that later saves and reads wait for
\* (registry.py _policy_document_lock).
LockBelongsToALiveSave ==
  \A path \in Files, e \in Editors :
    lock[path] = e <=> /\ request[e].op = "save" /\ request[e].path = path
                       /\ request[e].pc \in {"compare", "replace", "record"}
===============================================================================
