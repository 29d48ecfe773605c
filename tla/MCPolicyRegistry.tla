--------------------------- MODULE MCPolicyRegistry ---------------------------
(* An instance of PolicyRegistry for TLC: a file inside a repository and a   *)
(* managed one, a command and a remote provider.                           *)
EXTENDS PolicyRegistryProps

Local(command, adapter) ==
  [NoConfiguration EXCEPT !.provider = "local-cli", !.command = command,
                          !.adapter = adapter]
Remote == [NoConfiguration EXCEPT !.provider = "anthropic", !.endpoint = "https",
                                  !.credential = "KEY"]

MCPayloads == { Local("reviewer", "none"), Remote, Local("blank", "none") }

MCInside == [r \in {"repo"} |-> {"in"}]

MCTexts ==
  Templates \cup { Template(Local("other", "codex")),
                   [Template(Local("reviewer", "none")) EXCEPT !.remark = "edited"] }
===============================================================================
