------------------------------ MODULE ProjectFiles ------------------------------
(***************************************************************************)
(* The files Ciclo writes into a project besides its logs: the plugin list  *)
(* .ciclo/plugins.json (plugin-manager.ts), the MCP configuration of the     *)
(* harnesses, .mcp.json and .codex/config.toml (mcp-install.ts), the skills  *)
(* (skill-install.ts) and the starter .ciclo/config.json (ciclo-config.ts).  *)
(*                                                                          *)
(* One command changes files at a time, step by step at the file system, and *)
(* may be killed between two steps; an MCP process may start, and read the   *)
(* plugin list, at any of them.                                             *)
(***************************************************************************)
CONSTANTS Package, Manifests
\* Manifests: what packages ship, records
\*   [capabilities, runnerKinds, strategies, secretKinds, relative, named]

VARIABLES
    plugins, tmp,   \* plugins.json and plugins.json.tmp
    mcpJson,        \* .mcp.json: its servers
    codexToml,      \* .codex/config.toml: are the user's settings all there, is its
                    \* text valid, or is a line torn, in a server's table or outside
    skills,         \* a skill file
    config,         \* .ciclo/config.json
    command,        \* the command under way
    server,         \* the MCP process started last
    cutOff          \* history: files a command was killed in the middle of, and
                    \* "codexLine" if that tore a line of config.toml outside the tables

filesVars == <<plugins, tmp, mcpJson, codexToml, skills, config, command, server, cutOff>>

NoEntry == [installed |-> FALSE, enabled |-> FALSE, trusted |-> FALSE, valid |-> FALSE]
NoPlugins == [p \in Package |-> NoEntry]
Idle == [pc |-> "idle", files |-> {}, file |-> "none", extra |-> FALSE,
         list |-> NoPlugins]

(* The project has an .mcp.json and a config.toml of its own. *)
FilesInit ==
    /\ plugins = [kind |-> "absent", list |-> NoPlugins]
    /\ tmp = [kind |-> "absent", list |-> NoPlugins]
    /\ mcpJson = [kind |-> "whole", servers |-> {"users"}]
    /\ codexToml = [settings |-> TRUE, text |-> "valid", servers |-> {"users"}]
    /\ skills \in {"absent", "outdated"}
    /\ config = "absent"
    /\ command = Idle
    /\ server = [state |-> "running", activated |-> {}]
    /\ cutOff = {}
-----------------------------------------------------------------------------
(* The operators named Bug... are the definition after them with a defect,    *)
(* used only to show that the properties notice it.                           *)

PluginCapability == {"remote-runner", "image-resolver", "secret-provider"}

(* parsePluginManifest: capabilities Ciclo knows, at least one, each with the  *)
(* kinds it provides, and an entrypoint inside the package.                   *)
ValidManifest(m) ==
    /\ m.capabilities \subseteq PluginCapability /\ m.capabilities # {}
    /\ "remote-runner" \in m.capabilities => m.runnerKinds
    /\ "secret-provider" \in m.capabilities => m.secretKinds
    /\ "image-resolver" \in m.capabilities => m.strategies
    /\ m.relative

(* installPlugin also wants the manifest of the package it was asked for.     *)
Installable(m) == ValidManifest(m) /\ m.named

(* readPluginConfig parses the file and every manifest in it, or throws.      *)
Readable(f) ==
    \/ f.kind = "absent"
    \/ f.kind = "whole" /\ \A p \in Package : f.list[p].installed => f.list[p].valid

StartsUpdate(list) ==
    /\ Readable(plugins)
    /\ command' = [Idle EXCEPT !.pc = "open_tmp", !.list = list]
    /\ UNCHANGED <<plugins, tmp, mcpJson, codexToml, skills, config, server, cutOff>>

InstallPlugin(p, m, enable, trust) ==
    /\ command.pc = "idle" /\ Installable(m)
    /\ StartsUpdate([plugins.list EXCEPT ![p] =
           [installed |-> TRUE, enabled |-> enable, trusted |-> trust,
            valid |-> ValidManifest(m)]])

SetPluginEnabled(p, enabled) ==
    /\ command.pc = "idle" /\ plugins.list[p].installed
    /\ StartsUpdate([plugins.list EXCEPT ![p].enabled = enabled])

BugWritesInPlace ==
    /\ plugins' = [kind |-> IF command.pc = "open_tmp" THEN "cut" ELSE "whole",
                   list |-> command.list]
    /\ UNCHANGED tmp

(* writePluginConfig writes the temporary file, then renames it over the list. *)
WritesPluginStep ==
    CASE command.pc = "open_tmp" -> /\ tmp' = [kind |-> "cut", list |-> NoPlugins]
                                    /\ UNCHANGED plugins
      [] command.pc = "fill_tmp" -> /\ tmp' = [kind |-> "whole", list |-> command.list]
                                    /\ UNCHANGED plugins
      [] command.pc = "rename"   -> /\ plugins' = tmp
                                    /\ tmp' = [kind |-> "absent", list |-> NoPlugins]

WritePluginConfig ==
    /\ command.pc \in {"open_tmp", "fill_tmp", "rename"}
    /\ WritesPluginStep
    /\ command' = CASE command.pc = "open_tmp" -> [command EXCEPT !.pc = "fill_tmp"]
                    [] command.pc = "fill_tmp" -> [command EXCEPT !.pc = "rename"]
                    [] command.pc = "rename"   -> Idle
    /\ UNCHANGED <<mcpJson, codexToml, skills, config, server, cutOff>>

(* activateConfiguredPlugins: what is disabled is skipped, what is not trusted *)
(* or does not load fails alone; a list that cannot be read stops the start.   *)
Activated(list, loads) == {p \in loads : list[p].enabled /\ list[p].trusted}

McpStarts(loads) ==
    /\ server' = IF Readable(plugins) /\ config # "cut"
                 THEN [state |-> "running", activated |-> Activated(plugins.list, loads)]
                 ELSE [state |-> "failed", activated |-> {}]
    /\ UNCHANGED <<plugins, tmp, mcpJson, codexToml, skills, config, command, cutOff>>
-----------------------------------------------------------------------------
(* serverConfig and normalizeAdditionalServers: Ciclo's server, and one the     *)
(* project or the launch adds.                                                *)
ServersFor(extra) == IF extra THEN {"ciclo", "extra"} ELSE {"ciclo"}

(* installClaude merges Ciclo's and the additional servers into the file's.   *)
MergedMcpJson(extra) ==
    [kind |-> "whole", servers |-> mcpJson.servers \cup ServersFor(extra)]

(* stripCodexMcpServerBlocks drops every server table, the user's as well, and *)
(* what is torn in one; a torn line outside them is kept with the settings.    *)
GeneratedCodexToml(extra) ==
    [codexToml EXCEPT !.text = IF @ = "torn_line" THEN @ ELSE "valid",
                      !.servers = ServersFor(extra)]

(* What a kill leaves of the text above: it ends in the settings or in the     *)
(* first header, between two lines or within one, or else in a server's table. *)
CutCodexToml ==
    [settings : {FALSE, codexToml.settings}, text : {"valid", "torn_line"}, servers : {{}}]
    \cup {[codexToml EXCEPT !.text = IF @ = "torn_line" THEN @ ELSE "torn_table",
                             !.servers = s] : s \in {{}, {"ciclo"}}}

(* ciclo mcp install, or the launch of a worker, for one or both harnesses: an *)
(* .mcp.json that is not JSON throws.  A dry run changes nothing.              *)
BeginInstall(files, extra) ==
    /\ command.pc = "idle"
    /\ "mcpJson" \in files => mcpJson.kind # "cut"
    /\ command' = [Idle EXCEPT !.pc = "install", !.files = files, !.extra = extra]
    /\ UNCHANGED <<plugins, tmp, mcpJson, codexToml, skills, config, server, cutOff>>

(* ciclo skill install *)
BeginSkillInstall ==
    /\ command.pc = "idle"
    /\ command' = [Idle EXCEPT !.pc = "install", !.files = {"skills"}]
    /\ UNCHANGED <<plugins, tmp, mcpJson, codexToml, skills, config, server, cutOff>>

(* The content of the file after its truncation, a crash, or the whole write;  *)
(* a file that was cut off may be empty: .mcp.json is then read as {}.         *)
Cut(f, empty) ==
    /\ mcpJson' = IF f = "mcpJson"
                  THEN [kind |-> IF empty THEN "empty" ELSE "cut", servers |-> {}] ELSE mcpJson
    /\ codexToml' \in IF f = "codexToml" THEN CutCodexToml ELSE {codexToml}
    /\ skills' = IF f = "skills" THEN "cut" ELSE skills
    /\ config' = IF f = "config" THEN (IF empty THEN "empty" ELSE "cut") ELSE config

Whole(f, extra) ==
    /\ mcpJson' = IF f = "mcpJson" THEN MergedMcpJson(extra) ELSE mcpJson
    /\ codexToml' = IF f = "codexToml" THEN GeneratedCodexToml(extra) ELSE codexToml
    /\ skills' = IF f = "skills" THEN "whole" ELSE skills
    /\ config' = IF f = "config" THEN "whole" ELSE config

BugKeepsExisting(f) ==
    CASE f = "mcpJson"   -> MergedMcpJson(command.extra) # mcpJson
      [] f = "codexToml" -> TRUE
      [] f = "skills"    -> skills = "absent"

(* writeIfChanged compares the content with the file's.  That of config.toml  *)
(* always differs: the comment above Ciclo's table stays, and comes again.     *)
Changes(f) ==
    CASE f = "mcpJson"   -> MergedMcpJson(command.extra) # mcpJson
      [] f = "codexToml" -> TRUE
      [] f = "skills"    -> skills # "whole"

(* The next file: it is written whole, left alone, or the command is killed    *)
(* between the truncation and the last write.                                 *)
InstallFile(f) ==
    /\ command.pc = "install" /\ f \in command.files
    /\ IF Changes(f)
       THEN Whole(f, command.extra)
       ELSE UNCHANGED <<mcpJson, codexToml, skills, config>>
    /\ command' = IF command.files = {f} THEN [command EXCEPT !.pc = "finished", !.file = f]
                  ELSE [command EXCEPT !.files = @ \ {f}]
    /\ UNCHANGED <<plugins, tmp, server, cutOff>>

KilledWriting(f, empty) ==
    /\ command.pc = "install" /\ f \in command.files
    /\ Changes(f)
    /\ Cut(f, empty)
    /\ command' = Idle
    /\ cutOff' = cutOff \cup {f}
                 \cup IF codexToml'.text = "torn_line" THEN {"codexLine"} ELSE {}
    /\ UNCHANGED <<plugins, tmp, server>>

Returns ==
    /\ command.pc = "finished"
    /\ command' = Idle
    /\ UNCHANGED <<plugins, tmp, mcpJson, codexToml, skills, config, server, cutOff>>

(* ciclo config init writes the starter file only when there is none; an empty *)
(* one is read as a configuration that says nothing.                          *)
WriteSampleCicloConfig(killed) ==
    /\ command.pc = "idle" /\ config = "absent"
    /\ IF killed THEN \E empty \in BOOLEAN : Cut("config", empty) ELSE Whole("config", FALSE)
    /\ cutOff' = IF killed THEN cutOff \cup {"config"} ELSE cutOff
    /\ UNCHANGED <<plugins, tmp, command, server>>

(* Killed between two steps: what the plugin list's writer did so far stays.   *)
Killed ==
    /\ command.pc # "idle"
    /\ command' = Idle
    /\ UNCHANGED <<plugins, tmp, mcpJson, codexToml, skills, config, server, cutOff>>

FilesNext ==
    \/ \E p \in Package :
          \/ \E m \in Manifests, enable, trust \in BOOLEAN : InstallPlugin(p, m, enable, trust)
          \/ \E enabled \in BOOLEAN : SetPluginEnabled(p, enabled)
    \/ WritePluginConfig
    \/ \E loads \in SUBSET Package : McpStarts(loads)
    \/ \E files \in {{"mcpJson"}, {"codexToml"}, {"mcpJson", "codexToml"}},
          extra \in BOOLEAN : BeginInstall(files, extra)
    \/ BeginSkillInstall
    \/ \E f \in {"mcpJson", "codexToml", "skills"} :
          InstallFile(f) \/ \E empty \in BOOLEAN : KilledWriting(f, empty)
    \/ Returns
    \/ \E killed \in BOOLEAN : WriteSampleCicloConfig(killed)
    \/ Killed

FilesSpec == FilesInit /\ [][FilesNext]_filesVars
-----------------------------------------------------------------------------
(* An MCP process can start at any moment of a plugin command, and after one   *)
(* that was killed: the plugin list is always one that was written whole, and  *)
(* every manifest in it passes.  Only a starter configuration that was cut off *)
(* keeps it from starting.                                                    *)
StartNeverFails == server.state = "failed" => "config" \in cutOff

(* Running an installation again repairs what a killed one left: once it       *)
(* returns, the file it wrote is whole and has Ciclo's server.  .mcp.json still *)
(* has the servers the user configured, and config.toml the user's settings,   *)
(* unless a killed one has cut those off; and Codex can read config.toml unless *)
(* a killed one tore a line of it outside the server tables, which stays.       *)
RerunRepairs ==
    command.pc = "finished" =>
        CASE command.file = "mcpJson"   ->
                /\ mcpJson.kind = "whole" /\ "ciclo" \in mcpJson.servers
                /\ "users" \in mcpJson.servers \/ "mcpJson" \in cutOff
          [] command.file = "codexToml" ->
                /\ "ciclo" \in codexToml.servers
                /\ codexToml.text = "valid" \/ "codexLine" \in cutOff
                /\ codexToml.settings \/ "codexToml" \in cutOff
          [] command.file = "skills"    -> skills = "whole"
================================================================================
