----------------------------- MODULE ProjectProofs ------------------------------
(***************************************************************************)
(* Theorems about the files of a project (ProjectFiles), about what the       *)
(* response planner sends out and the context packs (ContextPlanning), and     *)
(* about remote runners (RemoteRunner).                                       *)
(***************************************************************************)
EXTENDS ProjectFiles, ContextPlanning, RemoteRunner, FiniteSetTheorems, WellFoundedInduction, TLAPS

(* What plugins.json says of a package. *)
Entry == [installed : BOOLEAN, enabled : BOOLEAN, trusted : BOOLEAN, valid : BOOLEAN]

Target == {"mcpJson", "codexToml", "skills"}
Server == {"users", "ciclo", "extra"}
CodexText == {"valid", "torn_table", "torn_line"}
CodexToml == [settings : BOOLEAN, text : CodexText, servers : SUBSET Server]

CommandState ==
    [pc : {"idle", "open_tmp", "fill_tmp", "rename", "install", "finished"},
     files : SUBSET Target, file : Target \cup {"none"}, extra : BOOLEAN,
     list : [Package -> Entry]]

FilesTypeOK ==
    /\ plugins \in [kind : {"absent", "whole", "cut"}, list : [Package -> Entry]]
    /\ mcpJson \in [kind : {"whole", "cut", "empty"}, servers : SUBSET Server]
    /\ codexToml \in CodexToml
    /\ command \in CommandState

ManifestsPass(list) == \A p \in Package : list[p].installed => list[p].valid

(* The list in place, and the one being written, are lists whose manifests     *)
(* pass, and what is about to be renamed is the whole of the latter.          *)
PluginsInv ==
    /\ plugins.kind # "cut" /\ ManifestsPass(plugins.list)
    /\ command.pc \in {"open_tmp", "fill_tmp", "rename"} => ManifestsPass(command.list)
    /\ command.pc = "rename" => tmp = [kind |-> "whole", list |-> command.list]

StartInv ==
    /\ config = "cut" => "config" \in cutOff
    /\ StartNeverFails

(* The user's settings in config.toml are lost, and a line of them or a header *)
(* torn, by a killed command only.                                           *)
CodexInv ==
    /\ codexToml.text = "torn_line" => "codexLine" \in cutOff
    /\ codexToml.settings \/ "codexToml" \in cutOff

(* An installation that has got past its reading of .mcp.json finds there what *)
(* it read, and the user's servers are lost by a killed command only.         *)
InstallInv ==
    /\ command.pc = "install" /\ "mcpJson" \in command.files => mcpJson.kind # "cut"
    /\ "users" \in mcpJson.servers \/ "mcpJson" \in cutOff
    /\ CodexInv
    /\ RerunRepairs

FilesInv == FilesTypeOK /\ PluginsInv /\ StartInv /\ InstallInv
-----------------------------------------------------------------------------
(* What the starting values are made of. *)
LEMMA IdleIsTyped == NoPlugins \in [Package -> Entry] /\ Idle \in CommandState
  BY DEF NoPlugins, NoEntry, Entry, Idle, CommandState, Target

(* What a command starts with: a plugin list to write, or files to install.    *)
LEMMA UpdateTyped ==
    ASSUME NEW list \in [Package -> Entry]
    PROVE  LET update == [Idle EXCEPT !.pc = "open_tmp", !.list = list]
           IN  update \in CommandState /\ update.pc = "open_tmp" /\ update.list = list
  BY IdleIsTyped DEF Idle, CommandState, Target

LEMMA InstallTyped ==
    ASSUME NEW files \in SUBSET Target, NEW extra \in BOOLEAN
    PROVE  LET install == [Idle EXCEPT !.pc = "install", !.files = files, !.extra = extra]
           IN  install \in CommandState /\ install.pc = "install" /\ install.files = files
  BY IdleIsTyped DEF Idle, CommandState, Target

LEMMA SkillInstallTyped ==
    LET install == [Idle EXCEPT !.pc = "install", !.files = {"skills"}]
    IN  install \in CommandState /\ install.pc = "install" /\ install.files = {"skills"}
  BY IdleIsTyped DEF Idle, CommandState, Target

(* The initial files. *)
LEMMA FilesInitially == FilesInit => FilesInv
<1> SUFFICES ASSUME FilesInit PROVE FilesInv
  OBVIOUS
<1>1. FilesTypeOK
  BY IdleIsTyped DEF FilesInit, FilesTypeOK, Server, CodexToml, CodexText
<1>2. PluginsInv
  BY DEF FilesInit, PluginsInv, ManifestsPass, NoPlugins, NoEntry, Idle
<1>3. StartInv
  BY DEF FilesInit, StartInv, StartNeverFails
<1>4. InstallInv
  BY DEF FilesInit, InstallInv, CodexInv, RerunRepairs, Idle
<1> QED
  BY <1>1, <1>2, <1>3, <1>4 DEF FilesInv
-----------------------------------------------------------------------------
(* A command on the plugin list: what it will write is made of what it read,  *)
(* which passed, and of a manifest that passes.                              *)
LEMMA UpdateStarts ==
    ASSUME FilesInv, NEW list \in [Package -> Entry], ManifestsPass(list),
           StartsUpdate(list)
    PROVE  FilesInv'
<1>1. /\ command' \in CommandState /\ command'.pc = "open_tmp" /\ command'.list = list
  BY UpdateTyped DEF StartsUpdate
<1>2. FilesTypeOK'
  BY <1>1 DEF FilesInv, FilesTypeOK, StartsUpdate
<1>3. PluginsInv'
  BY <1>1 DEF FilesInv, PluginsInv, StartsUpdate, ManifestsPass
<1>4. StartInv'
  BY DEF FilesInv, StartInv, StartNeverFails, StartsUpdate
<1>5. RerunRepairs'
  BY <1>1 DEF RerunRepairs
<1>6. InstallInv'
  BY <1>1, <1>5 DEF FilesInv, InstallInv, CodexInv, StartsUpdate
<1> QED
  BY <1>2, <1>3, <1>4, <1>6 DEF FilesInv

LEMMA PluginInstalled ==
    ASSUME FilesInv, NEW p \in Package, NEW m \in Manifests, NEW enable \in BOOLEAN,
           NEW trust \in BOOLEAN, InstallPlugin(p, m, enable, trust)
    PROVE  FilesInv'
<1> DEFINE entry == [installed |-> TRUE, enabled |-> enable, trusted |-> trust, valid |-> TRUE]
           list  == [plugins.list EXCEPT ![p] = entry]
<1>1. ValidManifest(m) = TRUE
  <2>1. ValidManifest(m)
    BY DEF InstallPlugin, Installable
  <2> QED
    BY <2>1, Zenon DEF ValidManifest
<1>2. StartsUpdate(list)
  BY <1>1, Zenon DEF InstallPlugin
<1>3. entry \in Entry
  BY DEF Entry
<1>4. plugins.list \in [Package -> Entry] /\ ManifestsPass(plugins.list)
  BY DEF FilesInv, FilesTypeOK, PluginsInv
<1>5. list \in [Package -> Entry] /\ ManifestsPass(list)
  BY <1>3, <1>4 DEF ManifestsPass
<1> HIDE DEF list
<1> QED
  BY <1>2, <1>5, UpdateStarts

LEMMA PluginSwitched ==
    ASSUME FilesInv, NEW p \in Package, NEW enabled \in BOOLEAN, SetPluginEnabled(p, enabled)
    PROVE  FilesInv'
<1> DEFINE list == [plugins.list EXCEPT ![p].enabled = enabled]
<1>1. StartsUpdate(list)
  BY DEF SetPluginEnabled
<1>2. plugins.list \in [Package -> Entry] /\ ManifestsPass(plugins.list)
  BY DEF FilesInv, FilesTypeOK, PluginsInv
<1>3. list \in [Package -> Entry] /\ ManifestsPass(list)
  BY <1>2 DEF ManifestsPass, Entry
<1> HIDE DEF list
<1> QED
  BY <1>1, <1>3, UpdateStarts

(* A step of the write: the rename puts in place the whole of what was to be  *)
(* written.                                                                  *)
LEMMA PluginsWritten ==
    ASSUME FilesInv, WritePluginConfig
    PROVE  FilesInv'
<1> USE DEF WritePluginConfig, WritesPluginStep
<1>1. CASE command.pc = "open_tmp"
  <2>1. command' = [command EXCEPT !.pc = "fill_tmp"] /\ UNCHANGED plugins
    BY <1>1
  <2>2. FilesTypeOK'
    BY <2>1 DEF FilesInv, FilesTypeOK, CommandState
  <2>3. PluginsInv'
    BY <1>1, <2>1 DEF FilesInv, FilesTypeOK, CommandState, PluginsInv, ManifestsPass
  <2>4. command'.pc = "fill_tmp"
    BY <2>1 DEF FilesInv, FilesTypeOK, CommandState
  <2> QED
    BY <2>2, <2>3, <2>4 DEF FilesInv, StartInv, StartNeverFails, InstallInv, CodexInv, RerunRepairs
<1>2. CASE command.pc = "fill_tmp"
  <2>1. /\ command' = [command EXCEPT !.pc = "rename"] /\ UNCHANGED plugins
        /\ tmp' = [kind |-> "whole", list |-> command.list]
    BY <1>2
  <2>2. FilesTypeOK'
    BY <2>1 DEF FilesInv, FilesTypeOK, CommandState
  <2>3. PluginsInv'
    BY <1>2, <2>1 DEF FilesInv, FilesTypeOK, CommandState, PluginsInv, ManifestsPass
  <2>4. command'.pc = "rename"
    BY <2>1 DEF FilesInv, FilesTypeOK, CommandState
  <2> QED
    BY <2>2, <2>3, <2>4 DEF FilesInv, StartInv, StartNeverFails, InstallInv, CodexInv, RerunRepairs
<1>3. CASE command.pc = "rename"
  <2>1. /\ command' = Idle
        /\ plugins' = [kind |-> "whole", list |-> command.list]
    BY <1>3 DEF FilesInv, PluginsInv
  <2>2. ManifestsPass(command.list) /\ command.list \in [Package -> Entry]
    BY <1>3 DEF FilesInv, FilesTypeOK, PluginsInv, CommandState
  <2>3. FilesTypeOK'
    BY <2>1, <2>2, IdleIsTyped DEF FilesInv, FilesTypeOK
  <2>4. Idle.pc = "idle"
    BY DEF Idle
  <2>5. PluginsInv'
    BY <2>1, <2>2, <2>4 DEF PluginsInv, ManifestsPass
  <2> QED
    BY <2>1, <2>3, <2>4, <2>5 DEF FilesInv, StartInv, StartNeverFails, InstallInv, CodexInv, RerunRepairs
<1> QED
  BY <1>1, <1>2, <1>3

(* A process that starts reads a list in place: only a starter configuration  *)
(* cut off keeps it from running.                                            *)
LEMMA ServerStarts ==
    ASSUME FilesInv, NEW loads \in SUBSET Package, McpStarts(loads)
    PROVE  FilesInv'
<1>1. Readable(plugins)
  <2>1. plugins.kind \in {"absent", "whole"}
    BY DEF FilesInv, FilesTypeOK, PluginsInv
  <2>2. \A p \in Package : plugins.list[p].installed => plugins.list[p].valid
    BY DEF FilesInv, PluginsInv, ManifestsPass
  <2> QED
    BY <2>1, <2>2 DEF Readable
<1>2. FilesTypeOK' /\ PluginsInv'
  BY DEF FilesInv, FilesTypeOK, PluginsInv, ManifestsPass, McpStarts
<1>3. StartInv'
  BY <1>1 DEF FilesInv, StartInv, StartNeverFails, McpStarts
<1>4. InstallInv'
  BY Zenon DEF FilesInv, InstallInv, CodexInv, RerunRepairs, McpStarts
<1> QED
  BY <1>2, <1>3, <1>4 DEF FilesInv
-----------------------------------------------------------------------------
(* An installation: what it begins with, what each file is made, and what a    *)
(* kill leaves.                                                              *)
LEMMA InstallBegins ==
    ASSUME FilesInv,
           NEW files \in {{"mcpJson"}, {"codexToml"}, {"mcpJson", "codexToml"}},
           NEW extra \in BOOLEAN, BeginInstall(files, extra)
    PROVE  FilesInv'
<1>1. files \in SUBSET Target
  BY DEF Target
<1>2. command' \in CommandState /\ command'.pc = "install" /\ command'.files = files
  BY <1>1, InstallTyped DEF BeginInstall
<1>3. FilesTypeOK'
  BY <1>2 DEF FilesInv, FilesTypeOK, BeginInstall
<1>4. PluginsInv'
  BY <1>2 DEF FilesInv, PluginsInv, ManifestsPass, BeginInstall
<1>5. StartInv'
  BY DEF FilesInv, StartInv, StartNeverFails, BeginInstall
<1>6. RerunRepairs'
  BY <1>2 DEF RerunRepairs
<1>7. InstallInv'
  BY <1>2, <1>6 DEF FilesInv, InstallInv, CodexInv, BeginInstall
<1> QED
  BY <1>3, <1>4, <1>5, <1>7 DEF FilesInv

LEMMA SkillInstallBegins ==
    ASSUME FilesInv, BeginSkillInstall
    PROVE  FilesInv'
<1>1. command' \in CommandState /\ command'.pc = "install" /\ command'.files = {"skills"}
  BY SkillInstallTyped DEF BeginSkillInstall
<1>2. FilesTypeOK'
  BY <1>1 DEF FilesInv, FilesTypeOK, BeginSkillInstall
<1>3. PluginsInv'
  BY <1>1 DEF FilesInv, PluginsInv, ManifestsPass, BeginSkillInstall
<1>4. StartInv'
  BY DEF FilesInv, StartInv, StartNeverFails, BeginSkillInstall
<1>5. RerunRepairs'
  BY <1>1 DEF RerunRepairs
<1>6. InstallInv'
  BY <1>1, <1>5 DEF FilesInv, InstallInv, CodexInv, BeginSkillInstall
<1> QED
  BY <1>2, <1>3, <1>4, <1>6 DEF FilesInv

(* The merge keeps the servers of the file it reads, and adds Ciclo's. *)
LEMMA MergeKeeps ==
    ASSUME FilesTypeOK, NEW extra \in BOOLEAN
    PROVE  /\ MergedMcpJson(extra) \in [kind : {"whole"}, servers : SUBSET Server]
           /\ "ciclo" \in MergedMcpJson(extra).servers
           /\ "users" \in mcpJson.servers => "users" \in MergedMcpJson(extra).servers
  BY DEF FilesTypeOK, MergedMcpJson, ServersFor, Server

LEMMA GeneratedHasCiclo ==
    ASSUME FilesTypeOK, NEW extra \in BOOLEAN
    PROVE  /\ GeneratedCodexToml(extra) \in CodexToml
           /\ "ciclo" \in GeneratedCodexToml(extra).servers
           /\ GeneratedCodexToml(extra).settings = codexToml.settings
           /\ GeneratedCodexToml(extra).text =
                IF codexToml.text = "torn_line" THEN "torn_line" ELSE "valid"
  BY DEF FilesTypeOK, GeneratedCodexToml, ServersFor, Server, CodexToml, CodexText

(* What a kill leaves of config.toml. *)
LEMMA CutIsTyped ==
    ASSUME FilesTypeOK
    PROVE  CutCodexToml \subseteq CodexToml
<1>1. codexToml \in CodexToml
  BY DEF FilesTypeOK
<1>2. [settings : {FALSE, codexToml.settings}, text : {"valid", "torn_line"}, servers : {{}}]
        \subseteq CodexToml
  BY <1>1 DEF CodexToml, CodexText
<1>3. ASSUME NEW s \in {{}, {"ciclo"}}
      PROVE  [codexToml EXCEPT !.text = IF @ = "torn_line" THEN @ ELSE "torn_table",
                               !.servers = s] \in CodexToml
  BY <1>1 DEF CodexToml, CodexText, Server
<1> QED
  BY <1>2, <1>3 DEF CutCodexToml

LEMMA FileInstalled ==
    ASSUME FilesInv, NEW f \in Target, InstallFile(f)
    PROVE  FilesInv'
<1> DEFINE extra == command.extra
<1>1. FilesTypeOK /\ extra \in BOOLEAN
  BY DEF FilesInv, FilesTypeOK, CommandState
<1>2. /\ f = "mcpJson" => mcpJson' = MergedMcpJson(extra)
      /\ f # "mcpJson" => UNCHANGED mcpJson
      /\ f = "codexToml" => codexToml' = GeneratedCodexToml(extra)
      /\ f # "codexToml" => UNCHANGED codexToml
      /\ f = "skills" => skills' = "whole"
      /\ UNCHANGED <<plugins, tmp, config, server, cutOff>>
  BY Zenon DEF InstallFile, Changes, Whole, Target
<1>3. /\ command.pc = "install"
      /\ command' = IF command.files = {f} THEN [command EXCEPT !.pc = "finished", !.file = f]
                    ELSE [command EXCEPT !.files = command.files \ {f}]
  BY DEF InstallFile
<1>4. /\ command' \in CommandState
      /\ command'.pc \in {"install", "finished"}
      /\ command'.pc = "finished" => command'.file = f
      /\ command'.pc = "install" => command'.files = command.files \ {f}
  BY <1>1, <1>3 DEF FilesTypeOK, CommandState, Target
<1>5. FilesTypeOK'
  <2>1. mcpJson' \in [kind : {"whole", "cut", "empty"}, servers : SUBSET Server]
    BY <1>1, <1>2, MergeKeeps DEF FilesTypeOK
  <2>2. codexToml' \in CodexToml
    BY <1>1, <1>2, GeneratedHasCiclo DEF FilesTypeOK
  <2> QED
    BY <1>1, <1>2, <1>4, <2>1, <2>2 DEF FilesTypeOK
<1>6. PluginsInv'
  BY <1>2, <1>4 DEF FilesInv, PluginsInv, ManifestsPass
<1>7. StartInv'
  BY <1>2 DEF FilesInv, StartInv, StartNeverFails
<1>8. ASSUME command'.pc = "install", "mcpJson" \in command'.files
      PROVE  mcpJson'.kind # "cut"
  BY <1>2, <1>3, <1>4, <1>8 DEF FilesInv, InstallInv
<1>9. "users" \in mcpJson'.servers \/ "mcpJson" \in cutOff'
  BY <1>1, <1>2, MergeKeeps DEF FilesInv, InstallInv
<1>10. CodexInv'
  BY <1>1, <1>2, GeneratedHasCiclo DEF FilesInv, InstallInv, CodexInv
<1>11. RerunRepairs'
  <2> SUFFICES ASSUME command'.pc = "finished"
               PROVE  CASE f = "mcpJson"   ->
                              /\ mcpJson'.kind = "whole" /\ "ciclo" \in mcpJson'.servers
                              /\ "users" \in mcpJson'.servers \/ "mcpJson" \in cutOff'
                        [] f = "codexToml" ->
                              /\ "ciclo" \in codexToml'.servers
                              /\ codexToml'.text = "valid" \/ "codexLine" \in cutOff'
                              /\ codexToml'.settings \/ "codexToml" \in cutOff'
                        [] f = "skills"    -> skills' = "whole"
    BY <1>4, Zenon DEF RerunRepairs
  <2>1. CASE f = "mcpJson"
    <3>1. mcpJson'.kind = "whole" /\ "ciclo" \in mcpJson'.servers
      BY <1>1, <1>2, <2>1, MergeKeeps
    <3> QED
      BY <1>9, <2>1, <3>1
  <2>2. CASE f = "codexToml"
    <3>1. "ciclo" \in codexToml'.servers
      BY <1>1, <1>2, <2>2, GeneratedHasCiclo
    <3>2. codexToml'.text = "valid" \/ codexToml'.text = "torn_line"
      BY <1>1, <1>2, <2>2, GeneratedHasCiclo
    <3> QED
      BY <1>10, <2>2, <3>1, <3>2 DEF CodexInv
  <2>3. CASE f = "skills"
    BY <1>2, <2>3
  <2> QED
    BY <2>1, <2>2, <2>3 DEF Target
<1>12. InstallInv'
  BY <1>8, <1>9, <1>10, <1>11 DEF InstallInv
<1> QED
  BY <1>5, <1>6, <1>7, <1>12 DEF FilesInv

(* A command that ends leaves the files as they are. *)
LEMMA CommandEnds ==
    ASSUME FilesInv, command' = Idle,
           UNCHANGED <<plugins, tmp, mcpJson, codexToml, config, server, cutOff>>
    PROVE  FilesInv'
<1>1. command' \in CommandState /\ command'.pc = "idle"
  BY IdleIsTyped DEF Idle
<1>2. FilesTypeOK'
  BY <1>1 DEF FilesInv, FilesTypeOK
<1>3. PluginsInv'
  BY <1>1 DEF FilesInv, PluginsInv, ManifestsPass
<1>4. StartInv'
  BY DEF FilesInv, StartInv, StartNeverFails
<1>5. RerunRepairs'
  BY <1>1 DEF RerunRepairs
<1>6. InstallInv'
  BY <1>1, <1>5 DEF FilesInv, InstallInv, CodexInv
<1> QED
  BY <1>2, <1>3, <1>4, <1>6 DEF FilesInv

LEMMA KilledInAFile ==
    ASSUME FilesInv, NEW f \in Target, NEW empty \in BOOLEAN, KilledWriting(f, empty)
    PROVE  FilesInv'
<1>1. /\ command' \in CommandState /\ command'.pc = "idle"
      /\ cutOff \cup {f} \subseteq cutOff' /\ UNCHANGED <<plugins, tmp, server>>
      /\ codexToml'.text = "torn_line" => "codexLine" \in cutOff'
  BY IdleIsTyped DEF KilledWriting, Idle
<1>2. UNCHANGED config
  BY DEF KilledWriting, Cut, Target
<1>3. FilesTypeOK'
  <2>1. codexToml' \in CodexToml
    BY CutIsTyped DEF FilesInv, FilesTypeOK, KilledWriting, Cut
  <2> QED
    BY <1>1, <2>1 DEF FilesInv, FilesTypeOK, KilledWriting, Cut
<1>4. PluginsInv'
  BY <1>1 DEF FilesInv, PluginsInv, ManifestsPass
<1>5. StartInv'
  BY <1>1, <1>2 DEF FilesInv, StartInv, StartNeverFails
<1>6. "users" \in mcpJson'.servers \/ "mcpJson" \in cutOff'
  BY <1>1 DEF FilesInv, InstallInv, KilledWriting, Cut
<1>7. CodexInv'
  <2>1. codexToml'.settings \/ "codexToml" \in cutOff'
    <3>1. CASE f = "codexToml"
      BY <1>1, <3>1
    <3>2. CASE f # "codexToml"
      BY <1>1, <3>2 DEF FilesInv, InstallInv, CodexInv, KilledWriting, Cut
    <3> QED
      BY <3>1, <3>2
  <2> QED
    BY <1>1, <2>1 DEF CodexInv
<1>8. RerunRepairs'
  BY <1>1 DEF RerunRepairs
<1>9. InstallInv'
  BY <1>1, <1>6, <1>7, <1>8 DEF InstallInv
<1> QED
  BY <1>3, <1>4, <1>5, <1>9 DEF FilesInv

LEMMA SampleWritten ==
    ASSUME FilesInv, NEW killed \in BOOLEAN, WriteSampleCicloConfig(killed)
    PROVE  FilesInv'
<1>1. /\ command.pc = "idle"
      /\ UNCHANGED <<plugins, tmp, mcpJson, codexToml, skills, command, server>>
  BY Zenon DEF WriteSampleCicloConfig, Cut, Whole
<1>2. cutOff \subseteq cutOff' /\ (config' = "cut" => "config" \in cutOff')
  BY DEF WriteSampleCicloConfig, Cut, Whole
<1>3. FilesTypeOK' /\ PluginsInv'
  BY <1>1 DEF FilesInv, FilesTypeOK, PluginsInv, ManifestsPass
<1>4. StartInv'
  BY <1>1, <1>2 DEF FilesInv, StartInv, StartNeverFails
<1>5. RerunRepairs'
  BY <1>1 DEF RerunRepairs
<1>6. InstallInv'
  BY <1>1, <1>2, <1>5 DEF FilesInv, InstallInv, CodexInv
<1> QED
  BY <1>3, <1>4, <1>6 DEF FilesInv
-----------------------------------------------------------------------------
LEMMA FilesStep == FilesInv /\ [FilesNext]_filesVars => FilesInv'
<1> SUFFICES ASSUME FilesInv, [FilesNext]_filesVars PROVE FilesInv'
  OBVIOUS
<1>1. ASSUME NEW p \in Package, NEW m \in Manifests, NEW enable \in BOOLEAN,
             NEW trust \in BOOLEAN, InstallPlugin(p, m, enable, trust)
      PROVE  FilesInv'
  BY <1>1, PluginInstalled
<1>2. ASSUME NEW p \in Package, NEW enabled \in BOOLEAN, SetPluginEnabled(p, enabled)
      PROVE  FilesInv'
  BY <1>2, PluginSwitched
<1>3. CASE WritePluginConfig
  BY <1>3, PluginsWritten
<1>4. ASSUME NEW loads \in SUBSET Package, McpStarts(loads) PROVE FilesInv'
  BY <1>4, ServerStarts
<1>5. ASSUME NEW files \in {{"mcpJson"}, {"codexToml"}, {"mcpJson", "codexToml"}},
             NEW extra \in BOOLEAN, BeginInstall(files, extra)
      PROVE  FilesInv'
  BY <1>5, InstallBegins
<1>6. CASE BeginSkillInstall
  BY <1>6, SkillInstallBegins
<1>7. ASSUME NEW f \in Target, InstallFile(f) PROVE FilesInv'
  BY <1>7, FileInstalled
<1>8. ASSUME NEW f \in Target, NEW empty \in BOOLEAN, KilledWriting(f, empty) PROVE FilesInv'
  BY <1>8, KilledInAFile
<1>9. CASE Returns \/ Killed
  BY <1>9, CommandEnds DEF Returns, Killed
<1>10. ASSUME NEW killed \in BOOLEAN, WriteSampleCicloConfig(killed) PROVE FilesInv'
  BY <1>10, SampleWritten
<1>11. CASE UNCHANGED filesVars
  <2>1. FilesTypeOK' /\ PluginsInv'
    BY <1>11 DEF FilesInv, FilesTypeOK, PluginsInv, ManifestsPass, filesVars
  <2>2. StartInv' /\ InstallInv'
    BY <1>11, Zenon DEF FilesInv, StartInv, StartNeverFails, InstallInv, CodexInv, RerunRepairs, filesVars
  <2> QED
    BY <2>1, <2>2 DEF FilesInv
<1> QED
  BY <1>1, <1>2, <1>3, <1>4, <1>5, <1>6, <1>7, <1>8, <1>9, <1>10, <1>11, Zenon
     DEF FilesNext, Target

LEMMA FilesInvariant == FilesSpec => []FilesInv
  BY FilesInitially, FilesStep, PTL DEF FilesSpec

(* plugin-manager.ts:225-232 (writePluginConfig), 201-223 (readPluginConfig):   *)
(* whatever packages there are, whenever a plugin command is killed            *)
(* and whenever an MCP process starts, it finds a list it can read.            *)
THEOREM PluginListStaysReadable == FilesSpec => []StartNeverFails
<1>1. FilesInv => StartNeverFails
  BY DEF FilesInv, StartInv
<1> QED
  BY <1>1, FilesInvariant, PTL

(* mcp-install.ts:237-245, skill-install.ts:769-777: an installation that      *)
(* returns has repaired what killed ones left in its file.                     *)
THEOREM ReinstallRepairs == FilesSpec => []RerunRepairs
<1>1. FilesInv => RerunRepairs
  BY DEF FilesInv, InstallInv
<1> QED
  BY <1>1, FilesInvariant, PTL
-----------------------------------------------------------------------------
(* The thresholds in effect: the given ones, and the default where none is.    *)
LEMMA ThresholdsInEffect ==
    ASSUME NEW given \in Thresholds
    PROVE  LET thresholds == ThresholdsWithDefaults(given)
           IN  /\ thresholds.warn = IF "warn" \in DOMAIN given THEN given["warn"] ELSE 65
               /\ thresholds.compactAfterTask =
                    IF "compactAfterTask" \in DOMAIN given THEN given["compactAfterTask"] ELSE 80
               /\ thresholds.forceCompact =
                    IF "forceCompact" \in DOMAIN given THEN given["forceCompact"] ELSE 92
  BY DEF ThresholdsWithDefaults, DefaultContextThresholds

(* The status of a measured size, in the terms of the property. *)
LEMMA StatusSaysHowMuch ==
    ASSUME NEW used \in Nat, NEW given \in Thresholds
    PROVE  /\ BudgetStatus(used, given) = "ok" => RoomLeft(used, given)
           /\ BudgetStatus(used, given) = "force_compact" =>
                AtOrAbove(used, IF "forceCompact" \in DOMAIN given THEN given["forceCompact"] ELSE 92)
           /\ BudgetStatus(used, given) \in {"ok", "warn", "compact_after_task", "force_compact"}
<1> DEFINE thresholds == ThresholdsWithDefaults(given)
<1>1. BudgetStatus(used, given) =
        IF AtOrAbove(used, thresholds.forceCompact) THEN "force_compact"
        ELSE IF AtOrAbove(used, thresholds.compactAfterTask) THEN "compact_after_task"
        ELSE IF AtOrAbove(used, thresholds.warn) THEN "warn" ELSE "ok"
  BY Zenon DEF BudgetStatus
<1>2. ASSUME BudgetStatus(used, given) = "ok" PROVE RoomLeft(used, given)
  <2>1. /\ ~AtOrAbove(used, thresholds.forceCompact)
        /\ ~AtOrAbove(used, thresholds.compactAfterTask)
        /\ ~AtOrAbove(used, thresholds.warn)
    BY <1>1, <1>2
  <2>2. ASSUME NEW t \in DOMAIN given PROVE ~AtOrAbove(used, given[t])
    <3>1. t \in {"warn", "compactAfterTask", "forceCompact"}
      BY PlanningAssumption
    <3>2. given[t] \in {thresholds.warn, thresholds.compactAfterTask, thresholds.forceCompact}
      BY <2>2, <3>1, ThresholdsInEffect
    <3> QED
      BY <2>1, <3>2
  <2>3. ASSUME DOMAIN given = {} PROVE (MaxTokens - used - Reserved) * 3 > MaxTokens
    <3>1. thresholds.warn = 65
      BY <2>3, ThresholdsInEffect
    <3>2. ~((used + Reserved) * 100 >= 65 * MaxTokens)
      BY <2>1, <3>1 DEF AtOrAbove
    <3>3. MaxTokens \in Nat \ {0} /\ Reserved \in Nat
      BY PlanningAssumption
    <3> QED
      BY <3>2, <3>3
  <2> QED
    BY <2>2, <2>3 DEF RoomLeft
<1>3. BudgetStatus(used, given) = "force_compact" => AtOrAbove(used, thresholds.forceCompact)
  BY <1>1
<1> QED
  BY <1>1, <1>2, <1>3, ThresholdsInEffect

(* A plan that spends context was one before the budget was asked, and was    *)
(* left as it is.                                                            *)
LEMMA HeavyResponse ==
    ASSUME NEW in \in PlannerInputs, Response(in) \in ContextHeavy
    PROVE  /\ in.remoteAllows
           /\ \E used \in UsedTokens :
                 /\ in.used = {used}
                 /\ \/ BudgetStatus(used, in.given) = "ok"
                    \/ in.override /\ BudgetStatus(used, in.given) = "force_compact"
<1> DEFINE base   == BaseResponse(in)
           status == {BudgetStatus(used, in.given) : used \in in.used}
<1>1. Response(in) =
        IF base \in {"stop_loop", "wait", "ask_user"} THEN base
        ELSE IF in.used = {} /\ base \in ContextHeavy THEN "measure_context"
        ELSE IF status = {"force_compact"} THEN IF in.override THEN base ELSE "smart_compact"
        ELSE IF status = {"compact_after_task"} THEN "smart_compact"
        ELSE IF status = {"warn"} THEN "build_context_pack"
        ELSE base
  BY Zenon DEF Response
<1> HIDE DEF base
<1>2. base \in ContextHeavy /\ in.used # {}
  BY <1>1 DEF ContextHeavy
<1>3. PICK used \in UsedTokens : in.used = {used}
  BY <1>2 DEF PlannerInputs
<1>4. status = {BudgetStatus(used, in.given)} /\ used \in Nat /\ in.given \in Thresholds
  BY <1>3, PlanningAssumption DEF PlannerInputs
<1>5. BudgetStatus(used, in.given) = "ok" \/ (in.override /\ BudgetStatus(used, in.given) = "force_compact")
  <2>1. BudgetStatus(used, in.given) \in {"ok", "warn", "compact_after_task", "force_compact"}
    BY <1>4, StatusSaysHowMuch
  <2> HIDE DEF status
  <2>2. BudgetStatus(used, in.given) = "warn" => status = {"warn"}
    BY <1>4
  <2> QED
    BY <1>1, <1>2, <1>4, <2>1 DEF ContextHeavy
<1>6. in.remoteAllows
  BY <1>2 DEF base, BaseResponse, ContextHeavy
<1> QED
  BY <1>3, <1>5, <1>6

(* response-planner.ts:251-275 and context-budget.ts:82-124: for every window,  *)
(* every reserve, every measured size and whatever thresholds a caller gives,   *)
(* a plan that spends context leaves the room they ask for, or the operator     *)
(* overruled a forced compaction; and none goes out while the Beads remote      *)
(* forbids dispatch.                                                          *)
THEOREM HeavyPlansKeepRoom == PlanningSpec => []HeavyPlansFit
<1>1. PlanningInit => HeavyPlansFit
  BY DEF PlanningInit, HeavyPlansFit
<1>2. HeavyPlansFit /\ [PlanningNext]_call => HeavyPlansFit'
  <2> SUFFICES ASSUME HeavyPlansFit, [PlanningNext]_call, call'.op = "plan",
                      call'.response \in ContextHeavy
               PROVE  /\ call'.in.remoteAllows
                      /\ \E used \in call'.in.used :
                            RoomLeft(used, call'.in.given) \/ Overruled(call'.in, used)
    BY DEF HeavyPlansFit
  <2>1. ASSUME NEW in \in PlannerInputs, Plan(in)
        PROVE  /\ call'.in.remoteAllows
               /\ \E used \in call'.in.used :
                     RoomLeft(used, call'.in.given) \/ Overruled(call'.in, used)
    <3>1. call'.in = in /\ call'.response = Response(in)
      BY <2>1 DEF Plan
    <3>2. PICK used \in UsedTokens :
             /\ in.used = {used}
             /\ \/ BudgetStatus(used, in.given) = "ok"
                \/ in.override /\ BudgetStatus(used, in.given) = "force_compact"
      BY <3>1, HeavyResponse
    <3>3. in.remoteAllows
      BY <3>1, HeavyResponse
    <3>4. used \in Nat /\ in.given \in Thresholds
      BY PlanningAssumption DEF PlannerInputs
    <3>5. RoomLeft(used, in.given) \/ Overruled(in, used)
      BY <3>2, <3>4, StatusSaysHowMuch DEF Overruled
    <3> QED
      BY <3>1, <3>2, <3>3, <3>5
  <2>2. CASE UNCHANGED call
    BY <2>2 DEF HeavyPlansFit
  <2>3. ASSUME NEW items \in SUBSET Items, NEW size \in PackSizes,
               NEW includeSensitive \in BOOLEAN, BuildContextPack(items, size, includeSensitive)
        PROVE  FALSE
    BY <2>3 DEF BuildContextPack
  <2> QED
    BY <2>1, <2>2, <2>3, Zenon DEF PlanningNext
<1> QED
  BY <1>1, <1>2, PTL DEF PlanningSpec
-----------------------------------------------------------------------------
(* The remote runner: the container.  What its script has got past, and what   *)
(* it has then.                                                              *)
PassedBy(l, step, what) == \E i \in DOMAIN ContainerSteps(l) : i < step /\ ContainerSteps(l)[i] = what

PodFields(p) == p = [step |-> p.step, tunnel |-> p.tunnel, checkout |-> p.checkout, env |-> p.env]

PodInv ==
    /\ PodFields(pod) /\ pod.step \in Nat /\ pod.checkout \in {"none", "partial", "full"}
    /\ PassedBy(request, pod.step, "checkout") => pod.checkout # "none"
    /\ pod.checkout = "partial" => cut
    /\ PassedBy(request, pod.step, "secrets") => pod.env = SecretNames
    /\ PassedBy(request, pod.step, "tunnel") => pod.tunnel # NoKey

(* A sequence is the concatenation of two when it reads like it. *)
LEMMA Concatenation ==
    ASSUME NEW S, NEW s \in Seq(S), NEW t \in Seq(S), NEW u \in Seq(S),
           Len(u) = Len(s) + Len(t),
           \A i \in 1..Len(s) : u[i] = s[i],
           \A i \in 1..Len(t) : u[Len(s) + i] = t[i]
    PROVE  s \o t = u
<1>1. \A i \in 1..Len(u) : u[i] = (s \o t)[i]
  <2> SUFFICES ASSUME NEW i \in 1..Len(u), i > Len(s) PROVE u[i] = (s \o t)[i]
    OBVIOUS
  <2>1. (i - Len(s)) \in 1..Len(t) /\ Len(s) + (i - Len(s)) = i
    OBVIOUS
  <2>2. u[i] = t[i - Len(s)]
    BY <2>1
  <2> QED
    BY <2>2
<1> QED
  BY <1>1

LEMMA CheckoutFirst ==
    /\ <<"checkout">> \o <<"exit">> = <<"checkout", "exit">>
    /\ <<"checkout">> \o <<"tunnel", "secrets", "session">>
         = <<"checkout", "tunnel", "secrets", "session">>
<1> DEFINE Words == {"checkout", "tunnel", "secrets", "session", "exit"}
           s == <<"checkout">>
           t1 == <<"exit">>
           u1 == <<"checkout", "exit">>
           t2 == <<"tunnel", "secrets", "session">>
           u2 == <<"checkout", "tunnel", "secrets", "session">>
<1>1. /\ s \in Seq(Words) /\ t1 \in Seq(Words) /\ t2 \in Seq(Words)
      /\ u1 \in Seq(Words) /\ u2 \in Seq(Words)
  OBVIOUS
<1>2. Len(u1) = Len(s) + Len(t1) /\ Len(u2) = Len(s) + Len(t2)
  OBVIOUS
<1>3. /\ \A i \in 1..Len(s) : u1[i] = s[i] /\ u2[i] = s[i]
      /\ \A i \in 1..Len(t1) : u1[Len(s) + i] = t1[i]
      /\ \A i \in 1..Len(t2) : u2[Len(s) + i] = t2[i]
  OBVIOUS
<1> HIDE DEF Words, s, t1, u1, t2, u2
<1>4. s \o t1 = u1 /\ s \o t2 = u2
  BY <1>1, <1>2, <1>3, Concatenation
<1> QED
  BY <1>4 DEF s, t1, u1, t2, u2

(* The scripts there are, whatever is asked for. *)
LEMMA ContainerScripts ==
    ASSUME NEW l \in Launch
    PROVE  /\ ContainerSteps(l) \in {<<"tunnel", "secrets", "session">>, <<"exit">>,
                                     <<"checkout", "tunnel", "secrets", "session">>,
                                     <<"checkout", "exit">>}
           /\ ~l.preflightOnly => ContainerSteps(l) \in
                  {<<"tunnel", "secrets", "session">>, <<"checkout", "tunnel", "secrets", "session">>}
<1>1. l.clones \in BOOLEAN /\ l.preflightOnly \in BOOLEAN
  BY RunnerAssumption DEF LaunchFields
<1>2. /\ <<>> \o <<"exit">> = <<"exit">>
      /\ <<>> \o <<"tunnel", "secrets", "session">> = <<"tunnel", "secrets", "session">>
  OBVIOUS
<1> QED
  BY <1>1, <1>2, CheckoutFirst, Zenon DEF ContainerSteps, When

(* A step on gets past what was running and nothing else. *)
LEMMA StepPasses ==
    ASSUME NEW l \in Launch, NEW step \in DOMAIN ContainerSteps(l), NEW what
    PROVE  PassedBy(l, step + 1, what) =>
               PassedBy(l, step, what) \/ ContainerSteps(l)[step] = what
<1>1. DOMAIN ContainerSteps(l) \subseteq Nat
  BY ContainerScripts
<1> QED
  BY <1>1 DEF PassedBy

LEMMA NothingPassed ==
    ASSUME NEW l \in Launch, NEW what
    PROVE  ~PassedBy(l, 0, what) /\ ~PassedBy(l, 1, what)
<1>1. DOMAIN ContainerSteps(l) \subseteq Nat \ {0}
  BY ContainerScripts
<1> QED
  BY <1>1 DEF PassedBy

LEMMA SessionPassedAll ==
    ASSUME NEW l \in Launch, ~l.preflightOnly, NEW step \in Nat, step > Len(ContainerSteps(l))
    PROVE  /\ PassedBy(l, step, "tunnel") /\ PassedBy(l, step, "secrets")
           /\ "checkout" \in Range(ContainerSteps(l)) => PassedBy(l, step, "checkout")
<1>1. CASE ContainerSteps(l) = <<"tunnel", "secrets", "session">>
  <2>1. "checkout" \notin Range(ContainerSteps(l))
    BY <1>1 DEF Range
  <2> QED
    BY <1>1, <2>1 DEF PassedBy
<1>2. CASE ContainerSteps(l) = <<"checkout", "tunnel", "secrets", "session">>
  BY <1>2 DEF PassedBy
<1> QED
  BY <1>1, <1>2, ContainerScripts

(* What a container leaves to the next one. *)
LEMMA NextContainer ==
    ASSUME request \in Launch, NEW p, NEW next \in After(p), p.checkout \in {"none", "partial", "full"}
    PROVE  /\ PodFields(next) /\ next.step = 0
           /\ next.tunnel \in {NoKey, p.tunnel}
           /\ next.checkout \in {"none", p.checkout}
           /\ next.checkout = "partial" => request.storage
<1>1. next \in {InSamePod(p), InNewPod(p)}
  BY DEF After
<1>2. request.storage \in BOOLEAN
  BY RunnerAssumption DEF LaunchFields
<1> QED
  BY <1>1, <1>2 DEF InSamePod, InNewPod, NoPod, PodFields

(* Where the container is in its script says what it has: a checkout, the    *)
(* secrets, a tunnel.  It is what SessionIsWhole lacks to be inductive.      *)
LaunchInv == request \in Launch /\ PodInv

LEMMA ContainerBegins == RunnerInit => LaunchInv
<1> SUFFICES ASSUME RunnerInit PROVE LaunchInv
  OBVIOUS
<1>1. request \in Launch /\ pod = NoPod
  BY DEF RunnerInit
<1>2. \A what : ~PassedBy(request, 0, what)
  BY <1>1, NothingPassed
<1> QED
  BY <1>1, <1>2 DEF LaunchInv, PodInv, PodFields, NoPod

(* A step of the script that leaves what the earlier ones reached. *)
LEMMA ScriptGoesOn ==
    ASSUME LaunchInv, pod.step \in DOMAIN ContainerSteps(request),
           request' = request, cut' = cut,
           pod' = [step |-> pod.step + 1, tunnel |-> pod'.tunnel, checkout |-> pod'.checkout,
                   env |-> pod'.env],
           pod'.tunnel = NoKey => pod.tunnel = NoKey,
           pod'.checkout = pod.checkout \/ pod'.checkout = "full",
           pod'.env = pod.env,
           Running("checkout") => pod'.checkout # "none",
           Running("tunnel") => pod'.tunnel # NoKey,
           Running("secrets") => pod.env = SecretNames
    PROVE  LaunchInv'
<1>1. request \in Launch /\ PodInv
  BY DEF LaunchInv
<1>2. pod'.step = pod.step + 1 /\ PodFields(pod')
  <2> HIDE DEF PodFields
  <2>1. pod'.step = pod.step + 1
    OBVIOUS
  <2> QED
    BY <2>1 DEF PodFields
<1>3. ASSUME NEW what, PassedBy(request, pod'.step, what)
      PROVE  PassedBy(request, pod.step, what) \/ Running(what)
  BY <1>1, <1>2, <1>3, StepPasses DEF Running
<1>4. pod'.checkout \in {"none", "partial", "full"} /\ pod'.step \in Nat
  BY <1>1, <1>2 DEF PodInv
<1>5. PassedBy(request, pod'.step, "checkout") => pod'.checkout # "none"
  BY <1>1, <1>3 DEF PodInv
<1>6. PassedBy(request, pod'.step, "secrets") => pod'.env = SecretNames
  BY <1>1, <1>3 DEF PodInv
<1>7. PassedBy(request, pod'.step, "tunnel") => pod'.tunnel # NoKey
  BY <1>1, <1>3 DEF PodInv
<1>8. pod'.checkout = "partial" => cut
  BY <1>1 DEF PodInv
<1>9. PassedBy(request', pod'.step, "checkout") = PassedBy(request, pod'.step, "checkout")
      /\ PassedBy(request', pod'.step, "secrets") = PassedBy(request, pod'.step, "secrets")
      /\ PassedBy(request', pod'.step, "tunnel") = PassedBy(request, pod'.step, "tunnel")
  BY Zenon
<1> QED
  BY <1>1, <1>2, <1>4, <1>5, <1>6, <1>7, <1>8, <1>9 DEF LaunchInv, PodInv

(* A container that starts over has got past nothing. *)
LEMMA ContainerReplaced ==
    ASSUME LaunchInv, request' = request, NEW p, pod' \in After(p),
           p.checkout \in {"none", "partial", "full"},
           p.checkout = "partial" /\ request.storage => cut'
    PROVE  LaunchInv'
<1>1. /\ PodFields(pod') /\ pod'.step = 0
      /\ pod'.checkout \in {"none", "partial", "full"}
      /\ pod'.checkout = "partial" => cut'
  BY NextContainer DEF LaunchInv
<1>2. ASSUME NEW what PROVE ~PassedBy(request', pod'.step, what)
  BY <1>1, NothingPassed DEF LaunchInv
<1> QED
  BY <1>1, <1>2 DEF LaunchInv, PodInv

LEMMA ContainerStepKeeps ==
    ASSUME LaunchInv, [RunnerNext]_runnerVars
    PROVE  LaunchInv'
<1> USE DEF LaunchInv
<1>1. CASE StartContainer
  <2>1. pod' = [pod EXCEPT !.step = 1] /\ request' = request /\ cut' = cut
    BY <1>1 DEF StartContainer
  <2>2. /\ PodFields(pod') /\ pod'.step = 1 /\ pod'.tunnel = pod.tunnel
        /\ pod'.checkout = pod.checkout /\ pod'.env = pod.env
    BY <2>1 DEF PodInv, PodFields
  <2>3. ASSUME NEW what PROVE ~PassedBy(request', pod'.step, what)
    BY <2>1, <2>2, NothingPassed
  <2> QED
    BY <2>1, <2>2, <2>3 DEF PodInv
<1>2. CASE Checkout
  <2> DEFINE p == [pod EXCEPT !.checkout = IF @ = "none" THEN "full" ELSE @]
  <2>1. Running("checkout") /\ pod' = [p EXCEPT !.step = pod.step + 1] /\ request' = request /\ cut' = cut
    BY <1>2 DEF Checkout, StepOn
  <2>2. /\ pod' = [step |-> pod.step + 1, tunnel |-> pod.tunnel, env |-> pod.env,
                   checkout |-> IF pod.checkout = "none" THEN "full" ELSE pod.checkout]
    BY <2>1 DEF PodInv, PodFields
  <2>3. ~Running("tunnel") /\ ~Running("secrets") /\ pod.step \in DOMAIN ContainerSteps(request)
    BY <2>1 DEF Running
  <2> QED
    BY <2>1, <2>2, <2>3, ScriptGoesOn
<1>3. CASE Tunnel
  <2> DEFINE p == [pod EXCEPT !.tunnel = conf]
  <2>1. Running("tunnel") /\ pod' = [p EXCEPT !.step = pod.step + 1]
        /\ request' = request /\ cut' = cut /\ conf # NoKey
    BY <1>3 DEF Tunnel, StepOn
  <2>2. pod' = [step |-> pod.step + 1, tunnel |-> conf, env |-> pod.env, checkout |-> pod.checkout]
    BY <2>1 DEF PodInv, PodFields
  <2>3. ~Running("checkout") /\ ~Running("secrets") /\ pod.step \in DOMAIN ContainerSteps(request)
    BY <2>1 DEF Running
  <2> QED
    BY <2>1, <2>2, <2>3, ScriptGoesOn
<1>4. CASE ResolveSecret
  <2>1. Running("secrets") /\ request' = request /\ cut' = cut
    BY <1>4 DEF ResolveSecret
  <2>2. CASE pod.env = SecretNames /\ StepOn(pod)
    <3>1. pod' = [step |-> pod.step + 1, tunnel |-> pod.tunnel, env |-> pod.env,
                  checkout |-> pod.checkout]
      BY <2>2 DEF StepOn, PodInv, PodFields
    <3>2. ~Running("checkout") /\ ~Running("tunnel") /\ pod.step \in DOMAIN ContainerSteps(request)
      BY <2>1 DEF Running
    <3> QED
      BY <2>1, <2>2, <3>1, <3>2, ScriptGoesOn
  <2>3. CASE pod.env # SecretNames /\ pod' = [pod EXCEPT !.env = @ \cup {NextBinding.name}]
    <3>1. pod' = [step |-> pod.step, tunnel |-> pod.tunnel, checkout |-> pod.checkout,
                  env |-> pod.env \cup {NextBinding.name}]
      BY <2>3 DEF PodInv, PodFields
    <3>2. ~PassedBy(request, pod.step, "secrets")
      BY <2>3 DEF PodInv
    <3> QED
      BY <2>1, <3>1, <3>2 DEF PodInv, PodFields
  <2> QED
    BY <1>4, <2>2, <2>3 DEF ResolveSecret
<1>5. CASE StartSession
  <2>1. (Running("session") \/ Running("exit")) /\ StepOn(pod) /\ request' = request /\ cut' = cut
    BY <1>5 DEF StartSession
  <2>2. pod' = [step |-> pod.step + 1, tunnel |-> pod.tunnel, env |-> pod.env,
                checkout |-> pod.checkout]
    BY <2>1 DEF StepOn, PodInv, PodFields
  <2>3. /\ ~Running("checkout") /\ ~Running("tunnel") /\ ~Running("secrets")
        /\ pod.step \in DOMAIN ContainerSteps(request)
    BY <2>1 DEF Running
  <2> QED
    BY <2>1, <2>2, <2>3, ScriptGoesOn
<1>6. CASE ContainerFails
  <2>1. pod' \in After(pod) /\ request' = request /\ cut' = cut
    BY <1>6 DEF ContainerFails
  <2> QED
    BY <2>1, ContainerReplaced DEF PodInv
<1>7. CASE KillContainer
  <2> DEFINE cloning == Running("checkout") /\ pod.checkout = "none"
             p == IF cloning THEN [pod EXCEPT !.checkout = "partial"] ELSE pod
  <2>1. pod' \in After(p) /\ request' = request /\ cut' = (cut \/ (cloning /\ request.storage))
    BY <1>7 DEF KillContainer
  <2>2. /\ p.checkout \in {"none", "partial", "full"}
        /\ p.checkout = "partial" /\ request.storage => cut'
    <3>1. CASE cloning
      <4>1. p.checkout = "partial"
        BY <3>1 DEF PodInv, PodFields
      <4> QED
        BY <2>1, <3>1, <4>1
    <3>2. CASE ~cloning
      BY <2>1, <3>2 DEF PodInv
    <3> QED
      BY <3>1, <3>2
  <2> HIDE DEF p
  <2> QED
    BY <2>1, <2>2, ContainerReplaced
<1>8. ASSUME UNCHANGED <<request, pod, cut>> PROVE LaunchInv'
  BY <1>8 DEF PodInv, PodFields, PassedBy
<1> QED
  BY <1>1, <1>2, <1>3, <1>4, <1>5, <1>6, <1>7, <1>8, Zenon
     DEF RunnerNext, runnerVars, LaunchRunner, RunKubectl, InstallHostConf, HostUp, CreateSecret,
         StepFails, ObstacleChanges

(* A session starts with all of its secrets and in a complete checkout, but   *)
(* for a clone that was cut short on a volume that survives: however secrets  *)
(* come and go while they are resolved, and wherever a container is killed    *)
(* and started again.                                                         *)
THEOREM SessionsStartWhole == RunnerSpec => []SessionIsWhole
<1>1. LaunchInv => SessionIsWhole
  <2> SUFFICES ASSUME LaunchInv, InSession PROVE
         /\ pod.env = SecretNames
         /\ "checkout" \in Range(ContainerSteps(request)) /\ ~cut => pod.checkout = "full"
    BY DEF SessionIsWhole
  <2>1. request \in Launch /\ ~request.preflightOnly /\ pod.step \in Nat
        /\ pod.step > Len(ContainerSteps(request))
    BY DEF InSession, LaunchInv, PodInv
  <2> QED
    BY <2>1, SessionPassedAll DEF LaunchInv, PodInv
<1> QED
  BY <1>1, ContainerBegins, ContainerStepKeeps, PTL DEF RunnerSpec
-----------------------------------------------------------------------------
(* The remote runner: the plan's commands.  Each occurs once; which there are *)
(* depends on the request, and the workload comes last.                      *)
Command == {HostSetup, BootstrapScript} \cup {<<k>> : k \in Kubectl}

OccursOnce(s) == \A i, j \in DOMAIN s : s[i] = s[j] => i = j
Has(s, x) == \E i \in DOMAIN s : s[i] = x

LEMMA StepsOfCommands ==
    ASSUME NEW cmd \in Command, NEW k \in DOMAIN cmd
    PROVE  /\ k \in Nat \ {0} /\ Len(cmd) \in Nat \ {0} /\ k <= Len(cmd)
           /\ \A j \in 1..Len(cmd) : j \in DOMAIN cmd
           /\ cmd[k] = "host_conf" => cmd = HostSetup /\ k = 1
           /\ cmd[k] = "host_up" => cmd \in {HostSetup, BootstrapScript} /\ k = 2
           /\ cmd[k] = "new_keys" => cmd = BootstrapScript /\ k = 1
           /\ cmd[k] = "generated_secret" => cmd = BootstrapScript /\ k = 4
           /\ cmd[k] \in {"secret", "workload"} => cmd = <<(cmd[k])>>
           /\ cmd = HostSetup => Len(cmd) = 2 /\ cmd[k] \notin Kubectl
           /\ cmd = BootstrapScript => Len(cmd) = 4
           /\ cmd \notin {HostSetup, BootstrapScript} => Len(cmd) = 1
<1>1. CASE cmd = HostSetup
  BY <1>1 DEF HostSetup, BootstrapScript, Kubectl
<1>2. CASE cmd = BootstrapScript
  BY <1>2 DEF HostSetup, BootstrapScript
<1>3. CASE cmd \notin {HostSetup, BootstrapScript}
  <2>1. PICK what \in Kubectl : cmd = <<what>>
    BY <1>3 DEF Command
  <2>2. k = 1 /\ Len(cmd) = 1 /\ cmd[k] = what /\ DOMAIN cmd = {1}
    BY <2>1
  <2> HIDE DEF HostSetup, BootstrapScript
  <2> QED
    BY <2>1, <2>2, <1>3 DEF Kubectl
<1> QED
  BY <1>1, <1>2, <1>3

LEMMA CommandsDiffer ==
    /\ \A a, b \in Kubectl : a # b => <<a>> # <<b>>
    /\ \A a \in Kubectl : <<a>> # HostSetup /\ <<a>> # BootstrapScript
    /\ HostSetup # BootstrapScript
<1>1. Len(HostSetup) = 2 /\ Len(BootstrapScript) = 4
  BY DEF HostSetup, BootstrapScript
<1>2. \A a : Len(<<a>>) = 1 /\ <<a>>[1] = a
  OBVIOUS
<1> QED
  BY <1>1, <1>2

(* A command that may be added to the end of the plan. *)
LEMMA CommandAdded ==
    ASSUME NEW s \in Seq(Command), OccursOnce(s), NEW x \in Command, ~Has(s, x), NEW c \in BOOLEAN
    PROVE  /\ s \o When(c, x) \in Seq(Command) /\ OccursOnce(s \o When(c, x))
           /\ \A y : Has(s \o When(c, x), y) <=> Has(s, y) \/ (c /\ y = x)
           /\ c => /\ Len(s \o When(c, x)) = Len(s) + 1
                   /\ (s \o When(c, x))[Len(s) + 1] = x
<1>1. CASE c
  <2> DEFINE t == s \o <<x>>
  <2>1. s \o When(c, x) = t
    BY <1>1 DEF When
  <2>2. /\ t \in Seq(Command) /\ Len(t) = Len(s) + 1 /\ t[Len(s) + 1] = x
        /\ \A i \in 1..Len(s) : t[i] = s[i]
        /\ DOMAIN t = 1..(Len(s) + 1) /\ DOMAIN s = 1..Len(s) /\ Len(s) \in Nat
    OBVIOUS
  <2> HIDE DEF t
  <2>3. \A i \in DOMAIN t : i \in DOMAIN s \/ i = Len(s) + 1
    BY <2>2
  <2>4. OccursOnce(t)
    BY <2>2, <2>3 DEF OccursOnce, Has
  <2>5. ASSUME NEW y PROVE Has(t, y) <=> Has(s, y) \/ y = x
    BY <2>2, <2>3 DEF Has
  <2> QED
    BY <1>1, <2>1, <2>2, <2>4, <2>5
<1>2. CASE ~c
  <2>1. s \o When(c, x) = s
    BY <1>2 DEF When
  <2> QED
    BY <1>2, <2>1
<1> QED
  BY <1>1, <1>2

LEMMA KubernetesPlan ==
    ASSUME NEW l \in Launch
    PROVE  LET K == KubernetesCommands(l) IN
           /\ K \in Seq(Command) /\ OccursOnce(K) /\ ~Has(K, HostSetup)
           /\ Has(K, BootstrapScript) <=> Bootstraps(l)
           /\ Has(K, <<"secret">>) => GeneratesSecret(l)
           /\ Len(K) \in Nat \ {0} /\ K[Len(K)] = <<"workload">>
<1> DEFINE always == TRUE
           k1 == <<(<<"namespace">>)>>
           k2 == k1 \o When(l.preflight, <<"configmap">>)
           k3 == k2 \o When(GeneratesSecret(l), <<"secret">>)
           k4 == k3 \o When(Bootstraps(l), BootstrapScript)
           k5 == k4 \o When(l.egress, <<"policy">>)
           k6 == k5 \o When(Mode(l) # "job", <<"service">>)
           k7 == k6 \o When(always, <<"workload">>)
<1>1. KubernetesCommands(l) = k7
  BY DEF KubernetesCommands, When
<1>2. /\ always /\ always \in BOOLEAN
      /\ l.preflight \in BOOLEAN /\ l.egress \in BOOLEAN /\ GeneratesSecret(l) \in BOOLEAN
      /\ Bootstraps(l) \in BOOLEAN /\ (Mode(l) # "job") \in BOOLEAN
  BY RunnerAssumption DEF LaunchFields, GeneratesSecret, Bootstraps
<1>3. /\ \A a \in Kubectl : <<a>> \in Command
      /\ BootstrapScript \in Command /\ HostSetup \in Command
      /\ {"namespace", "configmap", "secret", "policy", "service", "workload"} \subseteq Kubectl
  BY DEF Command, Kubectl
<1>4. /\ k1 \in Seq(Command) /\ OccursOnce(k1)
      /\ \A y : Has(k1, y) <=> y = <<"namespace">>
  <2>1. <<"namespace">> \in Command
    BY <1>3
  <2> QED
    BY <2>1 DEF OccursOnce, Has
<1> HIDE DEF k1, always
<1>5. /\ k2 \in Seq(Command) /\ OccursOnce(k2)
      /\ \A y : Has(k2, y) <=> y = <<"namespace">> \/ (l.preflight /\ y = <<"configmap">>)
  <2>1. ~Has(k1, <<"configmap">>) /\ <<"configmap">> \in Command
    BY <1>3, <1>4, CommandsDiffer
  <2> QED
    BY <1>2, <1>4, <2>1, CommandAdded
<1> HIDE DEF k2
<1>6. /\ k3 \in Seq(Command) /\ OccursOnce(k3)
      /\ \A y : Has(k3, y) <=> \/ y = <<"namespace">> \/ (l.preflight /\ y = <<"configmap">>)
                               \/ GeneratesSecret(l) /\ y = <<"secret">>
  <2>1. ~Has(k2, <<"secret">>) /\ <<"secret">> \in Command
    BY <1>3, <1>5, CommandsDiffer
  <2> QED
    BY <1>2, <1>5, <2>1, CommandAdded
<1> HIDE DEF k3
<1>7. /\ k4 \in Seq(Command) /\ OccursOnce(k4)
      /\ \A y : Has(k4, y) <=> \/ y = <<"namespace">> \/ (l.preflight /\ y = <<"configmap">>)
                               \/ GeneratesSecret(l) /\ y = <<"secret">>
                               \/ Bootstraps(l) /\ y = BootstrapScript
  <2>1. ~Has(k3, BootstrapScript)
    BY <1>3, <1>6, CommandsDiffer
  <2> QED
    BY <1>2, <1>3, <1>6, <2>1, CommandAdded
<1> HIDE DEF k4
<1>8. /\ k5 \in Seq(Command) /\ OccursOnce(k5)
      /\ \A y : Has(k5, y) <=> \/ y = <<"namespace">> \/ (l.preflight /\ y = <<"configmap">>)
                               \/ GeneratesSecret(l) /\ y = <<"secret">>
                               \/ Bootstraps(l) /\ y = BootstrapScript
                               \/ l.egress /\ y = <<"policy">>
  <2>1. ~Has(k4, <<"policy">>) /\ <<"policy">> \in Command
    BY <1>3, <1>7, CommandsDiffer
  <2> QED
    BY <1>2, <1>7, <2>1, CommandAdded
<1> HIDE DEF k5
<1>9. /\ k6 \in Seq(Command) /\ OccursOnce(k6)
      /\ \A y : Has(k6, y) <=> \/ y = <<"namespace">> \/ (l.preflight /\ y = <<"configmap">>)
                               \/ GeneratesSecret(l) /\ y = <<"secret">>
                               \/ Bootstraps(l) /\ y = BootstrapScript
                               \/ l.egress /\ y = <<"policy">>
                               \/ Mode(l) # "job" /\ y = <<"service">>
  <2>1. ~Has(k5, <<"service">>) /\ <<"service">> \in Command
    BY <1>3, <1>8, CommandsDiffer
  <2> QED
    BY <1>2, <1>8, <2>1, CommandAdded
<1> HIDE DEF k6
<1>10. ~Has(k6, <<"workload">>) /\ <<"workload">> \in Command
  BY <1>3, <1>9, CommandsDiffer
<1>11. /\ k7 \in Seq(Command) /\ OccursOnce(k7)
       /\ \A y : Has(k7, y) <=> Has(k6, y) \/ y = <<"workload">>
       /\ Len(k7) = Len(k6) + 1 /\ k7[Len(k6) + 1] = <<"workload">>
  BY <1>2, <1>9, <1>10, CommandAdded
<1> HIDE DEF k7
<1>12. ~Has(k7, HostSetup)
  BY <1>3, <1>9, <1>11, CommandsDiffer
<1>13. Has(k7, BootstrapScript) <=> Bootstraps(l)
  BY <1>3, <1>9, <1>11, CommandsDiffer
<1>14. Has(k7, <<"secret">>) => GeneratesSecret(l)
  BY <1>3, <1>9, <1>11, CommandsDiffer
<1>15. Len(k6) \in Nat
  BY <1>9
<1> QED
  BY <1>1, <1>11, <1>12, <1>13, <1>14, <1>15

LEMMA OtherPlans ==
    ASSUME NEW K \in {LambdaCommands, CloudflareCommands}
    PROVE  /\ K \in Seq(Command) /\ OccursOnce(K) /\ ~Has(K, HostSetup)
           /\ ~Has(K, BootstrapScript) /\ ~Has(K, <<"secret">>)
           /\ Len(K) = 2
           /\ Has(K, <<"workload">>) => K[Len(K)] = <<"workload">>
<1>1. PICK a, b \in Kubectl : K = <<(<<a>>), (<<b>>)>> /\ a # b /\ a # "secret" /\ b # "secret"
                              /\ a # "workload"
  BY DEF LambdaCommands, CloudflareCommands, Kubectl
<1>2. <<a>> \in Command /\ <<b>> \in Command /\ <<a>> # <<b>>
      /\ \A y : y \in {HostSetup, BootstrapScript, <<"secret">>} => y # <<a>> /\ y # <<b>>
      /\ <<"workload">> # <<a>>
  BY <1>1, CommandsDiffer DEF Command, Kubectl
<1>3. Len(K) = 2 /\ K[1] = <<a>> /\ K[2] = <<b>> /\ DOMAIN K = 1..2 /\ K \in Seq(Command)
  BY <1>1, <1>2
<1> QED
  BY <1>2, <1>3 DEF OccursOnce, Has

(* Putting the host's set-up in front. *)
LEMMA CommandPrefixed ==
    ASSUME NEW x, NEW K \in Seq(Command), OccursOnce(K), x \in Command, ~Has(K, x)
    PROVE  LET C == <<x>> \o K IN
           /\ C \in Seq(Command) /\ OccursOnce(C) /\ C[1] = x
           /\ \A y : Has(C, y) <=> Has(K, y) \/ y = x
           /\ Len(C) = Len(K) + 1
           /\ Len(K) > 0 => C[Len(C)] = K[Len(K)]
<1> DEFINE C == <<x>> \o K
<1>1. /\ C \in Seq(Command) /\ Len(C) = Len(K) + 1 /\ C[1] = x
      /\ \A i \in 2..Len(C) : C[i] = K[i - 1]
      /\ DOMAIN C = 1..Len(C) /\ DOMAIN K = 1..Len(K) /\ Len(K) \in Nat
  OBVIOUS
<1> HIDE DEF C
<1>2. \A i \in DOMAIN C : i = 1 \/ (i \in 2..Len(C) /\ i - 1 \in DOMAIN K)
  BY <1>1
<1>3. OccursOnce(C)
  <2> SUFFICES ASSUME NEW i \in DOMAIN C, NEW j \in DOMAIN C, C[i] = C[j] PROVE i = j
    BY DEF OccursOnce
  <2>1. CASE i = 1 \/ j = 1
    BY <1>1, <1>2, <2>1 DEF Has
  <2>2. CASE i # 1 /\ j # 1
    <3>1. i - 1 \in DOMAIN K /\ j - 1 \in DOMAIN K /\ K[i - 1] = K[j - 1]
      BY <1>1, <1>2, <2>2
    <3>2. i - 1 = j - 1
      BY <3>1 DEF OccursOnce
    <3> QED
      BY <1>1, <3>2
  <2> QED
    BY <2>1, <2>2
<1>4. ASSUME NEW y PROVE Has(C, y) <=> Has(K, y) \/ y = x
  <2>1. ASSUME Has(K, y) PROVE Has(C, y)
    <3>1. PICK i \in DOMAIN K : K[i] = y
      BY <2>1 DEF Has
    <3>2. i + 1 \in DOMAIN C /\ i + 1 \in 2..Len(C) /\ (i + 1) - 1 = i
      BY <1>1
    <3> QED
      BY <1>1, <3>1, <3>2 DEF Has
  <2>2. Has(C, y) => Has(K, y) \/ y = x
    BY <1>1, <1>2 DEF Has
  <2>3. 1 \in DOMAIN C
    BY <1>1
  <2> QED
    BY <1>1, <2>1, <2>2, <2>3 DEF Has
<1>5. Len(K) > 0 => C[Len(C)] = K[Len(K)]
  BY <1>1
<1> QED
  BY <1>1, <1>3, <1>4, <1>5 DEF C

LEMMA PlanCommands ==
    ASSUME NEW l \in Launch
    PROVE  LET C == Commands(l) IN
           /\ C \in Seq(Command) /\ OccursOnce(C) /\ Len(C) \in Nat \ {0}
           /\ Has(C, HostSetup) => l.hostKeys
           /\ l.hostKeys => C[1] = HostSetup
           /\ Has(C, BootstrapScript) <=> Bootstraps(l) /\ l.kind = "kubernetes"
           /\ Has(C, <<"secret">>) => GeneratesSecret(l)
           /\ Has(C, <<"workload">>) => C[Len(C)] = <<"workload">>
<1> DEFINE K == CASE l.kind = "kubernetes" -> KubernetesCommands(l)
                  [] l.kind = "aws-lambda" -> LambdaCommands
                  [] OTHER -> CloudflareCommands
<1>1. Commands(l) = When(l.hostKeys, HostSetup) \o K
  BY DEF Commands
<1>2. l.kind \in {"kubernetes", "aws-lambda", "cloudflare"} /\ l.hostKeys \in BOOLEAN
  BY RunnerAssumption DEF LaunchFields
<1>3. /\ l.kind = "kubernetes" => K = KubernetesCommands(l)
      /\ l.kind # "kubernetes" => K \in {LambdaCommands, CloudflareCommands}
  BY <1>2
<1> HIDE DEF K
<1>4. /\ K \in Seq(Command) /\ OccursOnce(K) /\ ~Has(K, HostSetup)
      /\ Has(K, BootstrapScript) <=> Bootstraps(l) /\ l.kind = "kubernetes"
      /\ Has(K, <<"secret">>) => GeneratesSecret(l)
      /\ Len(K) \in Nat \ {0}
      /\ Has(K, <<"workload">>) => K[Len(K)] = <<"workload">>
  <2>1. CASE l.kind = "kubernetes"
    BY <1>3, <2>1, KubernetesPlan
  <2>2. CASE l.kind # "kubernetes"
    BY <1>3, <2>2, OtherPlans
  <2> QED
    BY <2>1, <2>2
<1>5. CASE l.hostKeys
  <2>1. Commands(l) = <<HostSetup>> \o K
    BY <1>1, <1>5 DEF When
  <2>2. HostSetup \in Command /\ HostSetup # BootstrapScript
        /\ HostSetup # <<"secret">> /\ HostSetup # <<"workload">>
    BY CommandsDiffer DEF Command, Kubectl
  <2> HIDE DEF HostSetup
  <2> QED
    BY <1>4, <1>5, <2>1, <2>2, CommandPrefixed
<1>6. CASE ~l.hostKeys
  <2>1. Commands(l) = K
    BY <1>1, <1>4, <1>6 DEF When
  <2> QED
    BY <1>4, <1>6, <2>1
<1> QED
  BY <1>2, <1>5, <1>6
-----------------------------------------------------------------------------
(* The remote runner: one pair of keys.  How far the operator is in the plan   *)
(* says whose keys the host's interface is up with, and nothing changes the   *)
(* runner's configuration once the workload is created.                      *)
RunnerPlan == Commands(request)
Past(x) == \E i \in DOMAIN RunnerPlan : i < at.command /\ RunnerPlan[i] = x
AtCommand(x) == at.command \in DOMAIN RunnerPlan /\ RunnerPlan[at.command] = x

PlaceInv ==
    /\ at \in [command : Nat \ {0}, step : Nat \ {0}]
    /\ at.command \in DOMAIN RunnerPlan => at.step \in DOMAIN RunnerPlan[at.command]
    /\ host \in [conf : Nat, up : Nat] /\ generated \in Nat /\ conf \in Nat

\* Given keys: the host has none but those before its set-up is over, and those after.
GivenKeysInv ==
    ~Bootstraps(request) =>
        /\ conf \in {NoKey, Given} /\ host.up \in {NoKey, Given}
        /\ ~request.hostKeys => host.up = Given
        /\ AtCommand(HostSetup) /\ at.step > 1 => host.conf = Given
        /\ Past(HostSetup) => host.up = Given

\* Generated keys: one run of the bootstrap script up to its end.
BootstrapInv ==
    Bootstraps(request) =>
        /\ request.kind # "kubernetes" => conf = NoKey
        /\ AtCommand(BootstrapScript) =>
             /\ at.step > 1 => host.conf = Given + generated
             /\ at.step > 2 => host.up = Given + generated
        /\ Past(BootstrapScript) => conf = host.up

WorkloadInv ==
    /\ "workload" \in cluster => at.command > Len(RunnerPlan)
    /\ pod.step > 0 \/ pod.tunnel # NoKey => "workload" \in cluster
    /\ pod.tunnel # NoKey => pod.tunnel = conf

KeysInv == LaunchInv /\ PlaceInv /\ GivenKeysInv /\ BootstrapInv /\ WorkloadInv

(* At the end of the plan the runner's keys are the interface's. *)
LEMMA PlanEndsWithKeys ==
    ASSUME KeysInv, at.command > Len(RunnerPlan), conf # NoKey
    PROVE  conf = host.up
<1> USE DEF KeysInv, LaunchInv
<1>1. /\ DOMAIN RunnerPlan = 1..Len(RunnerPlan) /\ Len(RunnerPlan) \in Nat \ {0} /\ at.command \in Nat
      /\ request.hostKeys => RunnerPlan[1] = HostSetup
      /\ Bootstraps(request) /\ request.kind = "kubernetes" => Has(RunnerPlan, BootstrapScript)
  <2>1. RunnerPlan \in Seq(Command)
    BY PlanCommands DEF RunnerPlan
  <2> QED
    BY <2>1, PlanCommands DEF RunnerPlan, PlaceInv
<1>2. \A x : Has(RunnerPlan, x) => Past(x)
  BY <1>1 DEF Has, Past
<1>3. CASE ~Bootstraps(request)
  <2>1. request.hostKeys => Past(HostSetup)
    BY <1>1, <1>2 DEF Has
  <2> QED
    BY <1>3, <2>1 DEF GivenKeysInv
<1>4. CASE Bootstraps(request)
  BY <1>1, <1>2, <1>4 DEF BootstrapInv
<1> QED
  BY <1>3, <1>4

LEMMA KeysBegin == RunnerInit => KeysInv
<1> SUFFICES ASSUME RunnerInit PROVE KeysInv
  OBVIOUS
<1> USE DEF RunnerInit
<1>1. LaunchInv /\ request \in Launch
  BY ContainerBegins DEF LaunchInv
<1>2. RunnerPlan \in Seq(Command) /\ Len(RunnerPlan) \in Nat \ {0}
  BY <1>1, PlanCommands DEF RunnerPlan
<1>3. at.command = 1 /\ at.step = 1 /\ ~(\E x : Past(x))
  <2>1. at.command = 1 /\ at.step = 1
    OBVIOUS
  <2> QED
    BY <1>2, <2>1 DEF Past
<1>4. PlaceInv
  <2>1. 1 \in DOMAIN RunnerPlan[1]
    <3>1. RunnerPlan[1] \in Command
      BY <1>2
    <3> QED
      BY <3>1 DEF Command, HostSetup, BootstrapScript
  <2> QED
    BY <1>3, <2>1 DEF PlaceInv, NoKey, Given
<1>5. /\ ~Bootstraps(request) /\ ~request.hostKeys => host.up = Given
      /\ host.up \in {NoKey, Given} /\ conf \in {NoKey, Given}
  OBVIOUS
<1>6. GivenKeysInv
  BY <1>3, <1>5 DEF GivenKeysInv
<1>7. Bootstraps(request) => conf = NoKey
  BY DEF Bootstraps
<1>8. BootstrapInv
  BY <1>3, <1>7 DEF BootstrapInv
<1>9. "workload" \notin cluster /\ pod.step = 0 /\ pod.tunnel = NoKey
  BY DEF NoPod
<1> QED
  BY <1>1, <1>4, <1>6, <1>8, <1>9 DEF KeysInv, WorkloadInv

(* Where the operator is while commands are left. *)
LEMMA OperatorPlace ==
    ASSUME KeysInv, CommandsLeft
    PROVE  /\ at.command \in DOMAIN RunnerPlan /\ at.step \in DOMAIN RunnerPlan[at.command]
           /\ RunnerPlan[at.command] \in Command /\ NextStep = RunnerPlan[at.command][at.step]
           /\ RunnerPlan \in Seq(Command) /\ OccursOnce(RunnerPlan)
           /\ \A x : AtCommand(x) <=> RunnerPlan[at.command] = x
           /\ \A x : AtCommand(x) => ~Past(x)
           /\ AtCommand(HostSetup) => request.hostKeys /\ \A x : ~Past(x)
           /\ AtCommand(BootstrapScript) => Bootstraps(request) /\ request.kind = "kubernetes"
           /\ AtCommand(<<"secret">>) => GeneratesSecret(request)
           /\ AtCommand(<<"workload">>) => at.command = Len(RunnerPlan)
           /\ request.hostKeys => AtCommand(HostSetup) \/ Past(HostSetup)
           /\ "workload" \notin cluster /\ pod.step = 0 /\ pod.tunnel = NoKey
<1> USE DEF KeysInv, LaunchInv
<1>1. /\ RunnerPlan \in Seq(Command) /\ OccursOnce(RunnerPlan) /\ Len(RunnerPlan) \in Nat \ {0}
      /\ Has(RunnerPlan, HostSetup) => request.hostKeys
      /\ request.hostKeys => RunnerPlan[1] = HostSetup
      /\ Has(RunnerPlan, BootstrapScript) => Bootstraps(request) /\ request.kind = "kubernetes"
      /\ Has(RunnerPlan, <<"secret">>) => GeneratesSecret(request)
      /\ Has(RunnerPlan, <<"workload">>) => RunnerPlan[Len(RunnerPlan)] = <<"workload">>
  BY PlanCommands DEF RunnerPlan
<1>2. DOMAIN RunnerPlan = 1..Len(RunnerPlan) /\ at.command \in Nat \ {0}
  BY <1>1 DEF PlaceInv
<1>3. /\ at.command \in DOMAIN RunnerPlan /\ at.step \in DOMAIN RunnerPlan[at.command]
      /\ RunnerPlan[at.command] \in Command /\ NextStep = RunnerPlan[at.command][at.step]
  BY <1>1, <1>2 DEF CommandsLeft, NextStep, PlaceInv, RunnerPlan
<1>4. \A x : /\ AtCommand(x) <=> RunnerPlan[at.command] = x
             /\ AtCommand(x) => Has(RunnerPlan, x)
  BY <1>3 DEF AtCommand, Has
<1>5. AtCommand(<<"workload">>) => at.command = Len(RunnerPlan)
  BY <1>1, <1>2, <1>3, <1>4 DEF OccursOnce
<1>6. request.hostKeys => AtCommand(HostSetup) \/ Past(HostSetup)
  BY <1>1, <1>2, <1>3, <1>4 DEF Past
<1>7. "workload" \notin cluster /\ pod.step = 0 /\ pod.tunnel = NoKey
  BY <1>2, <1>3 DEF WorkloadInv, PodInv
<1>8. \A x : AtCommand(x) => ~Past(x)
  BY <1>1, <1>2, <1>3, <1>4 DEF OccursOnce, Past
<1>9. AtCommand(HostSetup) => \A x : ~Past(x)
  <2> SUFFICES ASSUME AtCommand(HostSetup) PROVE at.command = 1
    BY <1>2 DEF Past
  <2> QED
    BY <1>1, <1>2, <1>3, <1>4 DEF OccursOnce
<1> QED
  BY <1>1, <1>3, <1>4, <1>5, <1>6, <1>7, <1>8, <1>9

(* What going on by one step changes of the place. *)
LEMMA PlaceAfter ==
    ASSUME KeysInv, CommandsLeft, StepDone, request' = request
    PROVE  /\ at' \in [command : Nat \ {0}, step : Nat \ {0}]
           /\ at'.command \in DOMAIN RunnerPlan => at'.step \in DOMAIN RunnerPlan[at'.command]
           /\ \A x : AtCommand(x)' => at'.step = 1 \/ (AtCommand(x) /\ at'.step = at.step + 1)
           /\ \A x : Past(x)' => Past(x) \/ (AtCommand(x) /\ at.step = Len(x))
           /\ at.step = Len(RunnerPlan[at.command]) => at'.command = at.command + 1
<1> DEFINE c == at.command
           k == at.step
           cmd == RunnerPlan[c]
<1>1. /\ c \in DOMAIN RunnerPlan /\ k \in DOMAIN cmd /\ cmd \in Command
      /\ RunnerPlan \in Seq(Command) /\ at \in [command : Nat \ {0}, step : Nat \ {0}]
      /\ RunnerPlan' = RunnerPlan
  BY OperatorPlace DEF KeysInv, PlaceInv, RunnerPlan
<1>2. Len(cmd) \in Nat \ {0} /\ k <= Len(cmd) /\ \A j \in 1..Len(cmd) : j \in DOMAIN cmd
  BY <1>1, StepsOfCommands
<1>3. DOMAIN RunnerPlan = 1..Len(RunnerPlan)
  BY <1>1
<1>4. CASE k < Len(cmd)
  <2>1. at' = [at EXCEPT !.step = @ + 1]
    BY <1>4 DEF StepDone, RunnerPlan
  <2>2. at'.command = c /\ at'.step = k + 1 /\ at' \in [command : Nat \ {0}, step : Nat \ {0}]
    BY <1>1, <2>1
  <2> QED
    BY <1>1, <1>2, <1>4, <2>2 DEF AtCommand, Past
<1>5. CASE k = Len(cmd)
  <2>1. at' = [command |-> c + 1, step |-> 1]
    BY <1>2, <1>5 DEF StepDone, RunnerPlan
  <2>2. at'.command = c + 1 /\ at'.step = 1 /\ at' \in [command : Nat \ {0}, step : Nat \ {0}]
    BY <1>1, <2>1
  <2>3. ASSUME c + 1 \in DOMAIN RunnerPlan PROVE 1 \in DOMAIN RunnerPlan[c + 1]
    <3>1. RunnerPlan[c + 1] \in Command
      BY <1>1, <2>3
    <3> QED
      BY <3>1 DEF Command, HostSetup, BootstrapScript
  <2>4. ASSUME NEW x, Past(x)' PROVE Past(x) \/ (AtCommand(x) /\ k = Len(x))
    BY <1>1, <1>3, <1>5, <2>2, <2>4 DEF AtCommand, Past
  <2> QED
    BY <1>5, <2>2, <2>3, <2>4
<1> QED
  BY <1>1, <1>2, <1>4, <1>5

LEMMA ScriptsDiffer ==
    Len(HostSetup) = 2 /\ Len(BootstrapScript) = 4 /\ HostSetup # BootstrapScript
BY CommandsDiffer DEF HostSetup, BootstrapScript

LEMMA HostConfKeepsKeys ==
    ASSUME KeysInv, InstallHostConf
    PROVE  PlaceInv' /\ GivenKeysInv' /\ BootstrapInv' /\ WorkloadInv'
<1> USE DEF KeysInv, InstallHostConf
<1>1. /\ CommandsLeft /\ StepDone /\ request' = request /\ conf' = conf /\ cluster' = cluster
      /\ pod' = pod /\ RunnerPlan' = RunnerPlan
      /\ host'.up = host.up /\ host' \in [conf : Nat, up : Nat] /\ generated' \in Nat
  BY DEF PlaceInv, RunnerPlan, Given
<1>2. /\ NextStep = "host_conf" => AtCommand(HostSetup) /\ host'.conf = Given
      /\ NextStep = "new_keys" => AtCommand(BootstrapScript) /\ host'.conf = Given + generated'
      /\ AtCommand(HostSetup) \/ AtCommand(BootstrapScript)
      /\ NextStep \in {"host_conf", "new_keys"}
      /\ at.step = 1
  BY <1>1, OperatorPlace, StepsOfCommands DEF PlaceInv
<1>3. /\ AtCommand(HostSetup) => NextStep = "host_conf"
      /\ AtCommand(BootstrapScript) => NextStep = "new_keys"
  BY <1>1, <1>2, OperatorPlace, ScriptsDiffer
<1>4. /\ AtCommand(HostSetup)' /\ at'.step > 1 => host'.conf = Given
      /\ AtCommand(BootstrapScript)' => at'.step \in {1, 2}
      /\ AtCommand(BootstrapScript)' /\ at'.step > 1 => host'.conf = Given + generated'
      /\ Past(HostSetup)' => Past(HostSetup)
      /\ Past(BootstrapScript)' => Past(BootstrapScript)
  BY <1>1, <1>2, <1>3, PlaceAfter, ScriptsDiffer
<1>5. PlaceInv'
  BY <1>1, PlaceAfter DEF PlaceInv
<1>6. GivenKeysInv'
  BY <1>1, <1>4 DEF GivenKeysInv, Bootstraps
<1>7. BootstrapInv'
  BY <1>1, <1>4 DEF BootstrapInv, Bootstraps
<1>8. WorkloadInv'
  BY <1>1, OperatorPlace DEF WorkloadInv
<1> QED
  BY <1>5, <1>6, <1>7, <1>8

LEMMA HostUpKeepsKeys ==
    ASSUME KeysInv, HostUp
    PROVE  PlaceInv' /\ GivenKeysInv' /\ BootstrapInv' /\ WorkloadInv'
<1> USE DEF KeysInv, HostUp
<1>1. /\ CommandsLeft /\ StepDone /\ request' = request /\ conf' = conf /\ cluster' = cluster
      /\ pod' = pod /\ RunnerPlan' = RunnerPlan /\ generated' = generated
      /\ host'.up = host.conf /\ host'.conf = host.conf /\ host' \in [conf : Nat, up : Nat]
  BY DEF PlaceInv, RunnerPlan
<1>2. at.step = 2 /\ (AtCommand(HostSetup) \/ AtCommand(BootstrapScript))
  BY <1>1, OperatorPlace, StepsOfCommands
<1>3. /\ AtCommand(HostSetup) => ~AtCommand(BootstrapScript) /\ request.hostKeys
      /\ AtCommand(BootstrapScript) => Bootstraps(request)
  BY <1>1, OperatorPlace, ScriptsDiffer
<1>4. ASSUME ~Bootstraps(request)
      PROVE  host'.up = Given /\ request.hostKeys /\ AtCommand(HostSetup) /\ host.conf = Given
  BY <1>1, <1>2, <1>3, <1>4 DEF GivenKeysInv
<1>5. ASSUME AtCommand(BootstrapScript) PROVE host'.up = Given + generated'
  BY <1>1, <1>2, <1>3, <1>5 DEF BootstrapInv
<1>6. ~Past(BootstrapScript)'
  <2>1. ~Past(BootstrapScript)
    BY <1>1, <1>2, OperatorPlace
  <2> QED
    BY <1>1, <1>2, <2>1, PlaceAfter, ScriptsDiffer
<1>7. /\ AtCommand(HostSetup)' => at'.step = 1 \/ AtCommand(HostSetup)
      /\ AtCommand(BootstrapScript)' => at'.step = 1 \/ (AtCommand(BootstrapScript) /\ at'.step = 3)
      /\ Past(HostSetup)' => Past(HostSetup) \/ AtCommand(HostSetup)
  BY <1>1, <1>2, PlaceAfter
<1>8. PlaceInv'
  BY <1>1, PlaceAfter DEF PlaceInv
<1>9. GivenKeysInv'
  <2> SUFFICES ASSUME ~Bootstraps(request) PROVE GivenKeysInv'
    BY <1>1 DEF GivenKeysInv, Bootstraps
  <2> QED
    BY <1>1, <1>4, <1>7 DEF GivenKeysInv
<1>10. BootstrapInv'
  <2> SUFFICES ASSUME Bootstraps(request) PROVE BootstrapInv'
    BY <1>1 DEF BootstrapInv, Bootstraps
  <2>1. request.kind # "kubernetes" => conf' = NoKey
    BY <1>1 DEF BootstrapInv
  <2>2. ASSUME AtCommand(BootstrapScript)', at'.step > 1
        PROVE  host'.conf = Given + generated' /\ host'.up = Given + generated'
    BY <1>1, <1>2, <1>5, <1>7, <2>2 DEF BootstrapInv
  <2>3. at'.step \in Nat
    BY <1>8 DEF PlaceInv
  <2> QED
    BY <1>1, <1>6, <2>1, <2>2, <2>3 DEF BootstrapInv, Bootstraps
<1>11. WorkloadInv'
  BY <1>1, OperatorPlace DEF WorkloadInv
<1> QED
  BY <1>8, <1>9, <1>10, <1>11

LEMMA SecretKeepsKeys ==
    ASSUME KeysInv, CreateSecret
    PROVE  PlaceInv' /\ GivenKeysInv' /\ BootstrapInv' /\ WorkloadInv'
<1> USE DEF KeysInv, CreateSecret
<1>1. /\ CommandsLeft /\ StepDone /\ request' = request /\ host' = host /\ pod' = pod
      /\ generated' = generated /\ conf' = Given + generated /\ RunnerPlan' = RunnerPlan
      /\ cluster' = cluster \cup {"secret"}
  BY DEF RunnerPlan
<1>2. at.step = 4 /\ AtCommand(BootstrapScript) /\ Bootstraps(request)
      /\ request.kind = "kubernetes"
  BY <1>1, OperatorPlace, StepsOfCommands
<1>3. host.up = Given + generated /\ conf' \in Nat
  BY <1>1, <1>2 DEF BootstrapInv, PlaceInv, Given
<1>4. AtCommand(BootstrapScript)' => at'.step = 1
  <2>1. at'.command = at.command + 1
    BY <1>1, <1>2, PlaceAfter, ScriptsDiffer, OperatorPlace
  <2>2. \A x : AtCommand(x)' => at'.step = 1 \/ (AtCommand(x) /\ at'.step = at.step + 1)
    BY <1>1, PlaceAfter
  <2> QED
    BY <1>1, <1>2, <2>1, <2>2, OperatorPlace DEF OccursOnce, AtCommand, PlaceInv
<1>5. PlaceInv'
  BY <1>1, <1>3, PlaceAfter DEF PlaceInv
<1>6. GivenKeysInv'
  BY <1>1, <1>2 DEF GivenKeysInv, Bootstraps
<1>7. BootstrapInv'
  BY <1>1, <1>2, <1>3, <1>4 DEF BootstrapInv, Bootstraps
<1>8. WorkloadInv'
  BY <1>1, OperatorPlace DEF WorkloadInv
<1> QED
  BY <1>5, <1>6, <1>7, <1>8

\* Only the namespace is made by kubectl in the bootstrap script.
LEMMA NamespaceIsThird == \A i \in DOMAIN BootstrapScript : BootstrapScript[i] \in Kubectl => i = 3
<1>1. DOMAIN BootstrapScript = 1..4
  BY DEF BootstrapScript
<1>2. \A i \in 1..4 : BootstrapScript[i] \in Kubectl => i = 3
  BY DEF BootstrapScript, Kubectl
<1>3. QED
  BY <1>1, <1>2

LEMMA KubectlKeepsKeys ==
    ASSUME KeysInv, RunKubectl
    PROVE  PlaceInv' /\ GivenKeysInv' /\ BootstrapInv' /\ WorkloadInv'
<1> USE DEF KeysInv, RunKubectl
<1>1. /\ CommandsLeft /\ StepDone /\ request' = request /\ host' = host /\ pod' = pod
      /\ generated' = generated /\ RunnerPlan' = RunnerPlan /\ NextStep \in Kubectl
      /\ cluster' = cluster \cup {NextStep}
      /\ conf' = IF NextStep = "secret" THEN Given ELSE conf
  BY DEF RunnerPlan
<1>2. /\ ~AtCommand(HostSetup)
      /\ AtCommand(BootstrapScript) => at.step = 3
      /\ NextStep = "secret" => GeneratesSecret(request)
      /\ NextStep = "workload" => AtCommand(<<"workload">>) /\ at.step = 1
  <2>1. /\ NextStep \in {"secret", "workload"} => AtCommand(<<NextStep>>)
        /\ ~AtCommand(HostSetup)
    BY <1>1, OperatorPlace, StepsOfCommands
  <2>2. AtCommand(BootstrapScript) => at.step = 3
    <3>1. AtCommand(BootstrapScript) =>
            at.step \in DOMAIN BootstrapScript /\ NextStep = BootstrapScript[at.step]
      BY <1>1, OperatorPlace
    <3>2. QED
      BY <1>1, <3>1, NamespaceIsThird
  <2>3. NextStep = "workload" => at.step = 1
    BY <1>1, <2>1, OperatorPlace
  <2> QED
    BY <1>1, <2>1, <2>2, <2>3, OperatorPlace
<1>3. /\ ~AtCommand(HostSetup)' \/ at'.step = 1
      /\ AtCommand(BootstrapScript)' => at'.step = 1 \/ (AtCommand(BootstrapScript) /\ at'.step = 4)
      /\ Past(HostSetup)' => Past(HostSetup)
      /\ Past(BootstrapScript)' => Past(BootstrapScript)
  <2>1. /\ \A x : AtCommand(x)' => at'.step = 1 \/ (AtCommand(x) /\ at'.step = at.step + 1)
        /\ \A x : Past(x)' => Past(x) \/ (AtCommand(x) /\ at.step = Len(x))
    BY <1>1, PlaceAfter
  <2>2. ~AtCommand(HostSetup)' \/ at'.step = 1
    BY <1>2, <2>1
  <2>3. AtCommand(BootstrapScript)' =>
          at'.step = 1 \/ (AtCommand(BootstrapScript) /\ at'.step = 4)
    BY <1>2, <2>1
  <2>4. Past(HostSetup)' => Past(HostSetup)
    BY <1>2, <2>1
  <2>5. Past(BootstrapScript)' => Past(BootstrapScript)
    <3>1. AtCommand(BootstrapScript) => at.step # Len(BootstrapScript)
      BY <1>2 DEF BootstrapScript
    <3> QED
      BY <2>1, <3>1
  <2> QED
    BY <2>2, <2>3, <2>4, <2>5
<1>4. Bootstraps(request) => conf' = conf
  BY <1>1, <1>2 DEF Bootstraps, GeneratesSecret
<1>5. conf' \in Nat /\ (~Bootstraps(request) => conf' \in {NoKey, Given})
  BY <1>1 DEF PlaceInv, Given, GivenKeysInv
<1>6. PlaceInv'
  BY <1>1, <1>5, PlaceAfter DEF PlaceInv
<1>7. GivenKeysInv'
  BY <1>1, <1>3, <1>5 DEF GivenKeysInv, Bootstraps
<1>8. BootstrapInv'
  <2> SUFFICES ASSUME Bootstraps(request) PROVE BootstrapInv'
    BY <1>1 DEF BootstrapInv, Bootstraps
  <2> QED
    BY <1>1, <1>2, <1>3, <1>4 DEF BootstrapInv, Bootstraps
<1>9. WorkloadInv'
  <2>1. NextStep = "workload" => at'.command > Len(RunnerPlan)
    <3> SUFFICES ASSUME NextStep = "workload" PROVE at'.command > Len(RunnerPlan)
      OBVIOUS
    <3>1. RunnerPlan[at.command] = <<"workload">> /\ at.command = Len(RunnerPlan) /\ at.step = 1
      BY <1>1, <1>2, OperatorPlace
    <3>2. at'.command = at.command + 1
      BY <1>1, <3>1, PlaceAfter
    <3> QED
      BY <3>1, <3>2 DEF PlaceInv
  <2> QED
    BY <1>1, <2>1, OperatorPlace DEF WorkloadInv
<1> QED
  BY <1>6, <1>7, <1>8, <1>9

(* A container is what a workload starts, and its tunnel is up with the keys   *)
(* the runner's configuration has.                                          *)
LEMMA ContainerKeepsKeys ==
    ASSUME KeysInv, [RunnerNext]_runnerVars,
           UNCHANGED <<request, at, host, cluster, conf, generated>>
    PROVE  PlaceInv' /\ GivenKeysInv' /\ BootstrapInv' /\ WorkloadInv'
<1> USE DEF KeysInv, LaunchInv
<1>1. RunnerPlan' = RunnerPlan /\ PodFields(pod) /\ pod.step \in Nat
  BY DEF RunnerPlan, PodInv
<1>2. PlaceInv'
  BY <1>1 DEF PlaceInv
<1>3. GivenKeysInv'
  BY <1>1 DEF GivenKeysInv, AtCommand, Past, Bootstraps
<1>4. BootstrapInv'
  BY <1>1 DEF BootstrapInv, AtCommand, Past, Bootstraps
<1>5. \A what : Running(what) => "workload" \in cluster
  <2>1. DOMAIN ContainerSteps(request) \subseteq Nat \ {0}
    BY ContainerScripts
  <2> QED
    BY <2>1 DEF Running, WorkloadInv
<1>6. SUFFICES /\ pod'.step > 0 \/ pod'.tunnel # NoKey => "workload" \in cluster
               /\ pod'.tunnel # NoKey => pod'.tunnel = conf
  BY <1>1, <1>2, <1>3, <1>4 DEF WorkloadInv
<1>7. CASE StartContainer
  BY <1>1, <1>7 DEF StartContainer, Starts, PodFields, WorkloadInv
<1>8. CASE Checkout
  BY <1>1, <1>5, <1>8 DEF Checkout, StepOn, PodFields, WorkloadInv
<1>9. CASE Tunnel
  BY <1>1, <1>5, <1>9 DEF Tunnel, StepOn, PodFields
<1>10. CASE ResolveSecret
  BY <1>1, <1>5, <1>10 DEF ResolveSecret, StepOn, PodFields, WorkloadInv
<1>11. CASE StartSession
  BY <1>1, <1>5, <1>11 DEF StartSession, StepOn, PodFields, WorkloadInv
<1>12. CASE ContainerFails
  <2>1. pod' \in After(pod) /\ pod.checkout \in {"none", "partial", "full"}
    BY <1>12 DEF ContainerFails, PodInv
  <2>2. pod'.step = 0 /\ pod'.tunnel \in {NoKey, pod.tunnel}
    BY <2>1, NextContainer
  <2> QED
    BY <2>2 DEF WorkloadInv
<1>13. CASE KillContainer
  <2> DEFINE p == IF Running("checkout") /\ pod.checkout = "none"
                  THEN [pod EXCEPT !.checkout = "partial"] ELSE pod
  <2>1. pod' \in After(p)
    BY <1>13 DEF KillContainer
  <2>2. p.tunnel = pod.tunnel /\ p.checkout \in {"none", "partial", "full"}
    BY <1>1 DEF PodInv, PodFields
  <2> HIDE DEF p
  <2>3. pod'.step = 0 /\ pod'.tunnel \in {NoKey, p.tunnel}
    BY <2>1, <2>2, NextContainer
  <2> QED
    BY <2>2, <2>3 DEF WorkloadInv
<1>14. ASSUME pod' = pod
       PROVE  /\ pod'.step > 0 \/ pod'.tunnel # NoKey => "workload" \in cluster
              /\ pod'.tunnel # NoKey => pod'.tunnel = conf
  BY <1>14 DEF WorkloadInv
<1> QED
  BY <1>7, <1>8, <1>9, <1>10, <1>11, <1>12, <1>13, <1>14, Zenon
     DEF RunnerNext, runnerVars, LaunchRunner, RunKubectl, InstallHostConf, HostUp, CreateSecret,
         StepFails, ObstacleChanges

LEMMA FailureKeepsKeys ==
    ASSUME KeysInv, StepFails
    PROVE  PlaceInv' /\ GivenKeysInv' /\ BootstrapInv' /\ WorkloadInv'
<1> USE DEF KeysInv, StepFails
<1>1. /\ CommandsLeft /\ UNCHANGED <<request, host, cluster, conf, generated, pod, RunnerPlan>>
      /\ at' = [at EXCEPT !.step = 1] /\ at \in [command : Nat \ {0}, step : Nat \ {0}]
  BY DEF RunnerPlan, PlaceInv
<1>2. at'.command = at.command /\ at'.step = 1 /\ at' \in [command : Nat \ {0}, step : Nat \ {0}]
  BY <1>1
<1>3. at.command \in DOMAIN RunnerPlan => 1 \in DOMAIN RunnerPlan[at.command]
  <2>1. RunnerPlan[at.command] \in Command
    BY <1>1, OperatorPlace
  <2> QED
    BY <2>1 DEF Command, HostSetup, BootstrapScript
<1>4. PlaceInv'
  BY <1>1, <1>2, <1>3 DEF PlaceInv
<1>5. \A x : Past(x)' <=> Past(x)
  BY <1>1, <1>2 DEF Past
<1>6. GivenKeysInv'
  BY <1>1, <1>2, <1>5 DEF GivenKeysInv, Bootstraps
<1>7. BootstrapInv'
  BY <1>1, <1>2, <1>5 DEF BootstrapInv, Bootstraps
<1>8. WorkloadInv'
  BY <1>1, <1>2 DEF WorkloadInv
<1> QED
  BY <1>4, <1>6, <1>7, <1>8

LEMMA KeysKept ==
    ASSUME KeysInv, [RunnerNext]_runnerVars
    PROVE  KeysInv'
<1>1. LaunchInv'
  BY ContainerStepKeeps DEF KeysInv
<1>2. ASSUME UNCHANGED <<request, at, host, cluster, conf, generated>>
      PROVE  PlaceInv' /\ GivenKeysInv' /\ BootstrapInv' /\ WorkloadInv'
  BY <1>2, ContainerKeepsKeys
<1>3. PlaceInv' /\ GivenKeysInv' /\ BootstrapInv' /\ WorkloadInv'
  <2>1. CASE RunKubectl
    BY <2>1, KubectlKeepsKeys
  <2>2. CASE InstallHostConf
    BY <2>2, HostConfKeepsKeys
  <2>3. CASE HostUp
    BY <2>3, HostUpKeepsKeys
  <2>4. CASE CreateSecret
    BY <2>4, SecretKeepsKeys
  <2>5. CASE StepFails
    BY <2>5, FailureKeepsKeys
  <2> QED
    BY <1>2, <2>1, <2>2, <2>3, <2>4, <2>5, Zenon
       DEF RunnerNext, runnerVars, LaunchRunner, StartContainer, Checkout, Tunnel, ResolveSecret,
           StartSession, ContainerFails, KillContainer, ObstacleChanges
<1> QED
  BY <1>1, <1>3 DEF KeysInv

(* A session that runs can be reached: the keys of its tunnel are the keys of  *)
(* the interface that is up on the host, however often a script of the plan    *)
(* fails half-way and is run again, and however often the container is         *)
(* replaced.                                                                  *)
THEOREM SessionsAreReachable == RunnerSpec => []TunnelMatches
<1>1. KeysInv => TunnelMatches
  <2> SUFFICES ASSUME KeysInv, InSession PROVE pod.tunnel = host.up
    BY DEF TunnelMatches
  <2>1. PassedBy(request, pod.step, "tunnel")
    BY SessionPassedAll DEF InSession, KeysInv, LaunchInv, PodInv
  <2>2. pod.tunnel # NoKey /\ pod.tunnel = conf /\ at.command > Len(RunnerPlan)
    BY <2>1 DEF KeysInv, LaunchInv, PodInv, WorkloadInv
  <2> QED
    BY <2>2, PlanEndsWithKeys
<1> QED
  BY <1>1, KeysBegin, KeysKept, PTL DEF RunnerSpec
-----------------------------------------------------------------------------
(* Context packs: folds and sums over finite sets first, then the pack.       *)

(* Among some subsets of a finite set there is one with none of them below it: *)
(* the form in which induction over finite sets is used here.                 *)
LEMMA MinimalSubset ==
    ASSUME NEW S, IsFiniteSet(S), NEW Bad \in SUBSET (SUBSET S), Bad # {}
    PROVE  \E T \in Bad : \A U \in Bad : U \subseteq T => U = T
<1>1. IsWellFoundedOn(StrictSubsetOrdering(S), SUBSET S)
  BY FS_StrictSubsetOrderingWellFounded, FS_FiniteSubsetsOfFinite
<1>2. PICK T \in Bad : \A U \in Bad : <<U, T>> \notin StrictSubsetOrdering(S)
  BY <1>1, WFMin
<1>3. ASSUME NEW U \in Bad, U \subseteq T, U # T PROVE FALSE
  <2>1. <<U, T>> \in (SUBSET S) \X (SUBSET S)
    OBVIOUS
  <2>2. QED
    BY <1>2, <1>3, <2>1 DEF StrictSubsetOrdering
<1>4. QED
  BY <1>3

(* A fold over a finite set: the element c[s] of s is taken last, the value of  *)
(* the rest and the step st give the value of s.                              *)
FoldsTo(g, T, b, c, st) ==
    \A s \in SUBSET T : g[s] = IF s = {} THEN b ELSE st[<<c[s], g[s \ {c[s]}]>>]

LEMMA FoldsAgree ==
    ASSUME NEW S, IsFiniteSet(S), NEW c, \A s \in SUBSET S : s # {} => c[s] \in s,
           NEW b, NEW st, NEW T \in SUBSET S, NEW U \in SUBSET T, NEW g, NEW h,
           FoldsTo(g, U, b, c, st), FoldsTo(h, T, b, c, st)
    PROVE  \A s \in SUBSET U : g[s] = h[s]
<1> DEFINE Bad == {s \in SUBSET U : g[s] # h[s]}
<1>1. SUFFICES ASSUME Bad # {} PROVE FALSE
  OBVIOUS
<1>2. Bad \in SUBSET (SUBSET S)
  OBVIOUS
<1>3. PICK s \in Bad : \A r \in Bad : r \subseteq s => r = s
  <2> HIDE DEF Bad
  <2> QED BY <1>1, <1>2, MinimalSubset
<1>4. s \in SUBSET U /\ s \in SUBSET T /\ s \in SUBSET S
  OBVIOUS
<1>5. CASE s = {}
  <2>1. g[s] = b /\ h[s] = b
    BY <1>4, <1>5 DEF FoldsTo
  <2>2. QED
    BY <1>3, <2>1
<1>6. CASE s # {}
  <2> DEFINE r == s \ {c[s]}
  <2>1. c[s] \in s
    BY <1>4, <1>6
  <2>2. r \in SUBSET U /\ r \subseteq s /\ r # s
    BY <1>4, <2>1
  <2>3. g[r] = h[r]
    BY <1>3, <2>2
  <2>4. g[s] = st[<<c[s], g[r]>>] /\ h[s] = st[<<c[s], h[r]>>]
    BY <1>4, <1>6 DEF FoldsTo
  <2>5. QED
    BY <1>3, <2>3, <2>4
<1>7. QED
  BY <1>5, <1>6

LEMMA FoldExists ==
    ASSUME NEW S, IsFiniteSet(S), NEW c, \A s \in SUBSET S : s # {} => c[s] \in s,
           NEW V, NEW b \in V, NEW st \in [S \X V -> V]
    PROVE  \E g \in [SUBSET S -> V] : FoldsTo(g, S, b, c, st)
<1> DEFINE Good(T) == \E g \in [SUBSET T -> V] : FoldsTo(g, T, b, c, st)
           Bad == {T \in SUBSET S : ~Good(T)}
<1>1. SUFFICES ASSUME Bad # {} PROVE FALSE
  OBVIOUS
<1>2. PICK T \in Bad : \A U \in Bad : U \subseteq T => U = T
  <2>1. Bad \in SUBSET (SUBSET S)
    OBVIOUS
  <2> HIDE DEF Bad
  <2> QED BY <1>1, <2>1, MinimalSubset
<1>3. T \in SUBSET S /\ ~Good(T)
  BY <1>2
<1> DEFINE G(U) == CHOOSE g \in [SUBSET U -> V] : FoldsTo(g, U, b, c, st)
<1>4. \A U \in SUBSET T : U # T => G(U) \in [SUBSET U -> V] /\ FoldsTo(G(U), U, b, c, st)
  <2> SUFFICES ASSUME NEW U \in SUBSET T, U # T
               PROVE  G(U) \in [SUBSET U -> V] /\ FoldsTo(G(U), U, b, c, st)
    OBVIOUS
  <2>1. U \in SUBSET S /\ U \notin Bad
    <3> HIDE DEF Bad
    <3> QED BY <1>2, <1>3
  <2>2. Good(U)
    BY <2>1
  <2>3. QED
    BY <2>2
<1> HIDE DEF G
<1> DEFINE Rest(s) == s \ {c[s]}
           h == [s \in SUBSET T |-> IF s = {} THEN b ELSE st[<<c[s], G(Rest(s))[Rest(s)]>>]]
<1>5. \A s \in SUBSET T : s # {} => c[s] \in s /\ c[s] \in S /\ Rest(s) \in SUBSET T /\ Rest(s) # T
  BY <1>3
<1>6. \A r \in SUBSET T : r # T => h[r] = G(r)[r] /\ h[r] \in V
  <2> SUFFICES ASSUME NEW r \in SUBSET T, r # T PROVE h[r] = G(r)[r] /\ h[r] \in V
    OBVIOUS
  <2>1. G(r) \in [SUBSET r -> V] /\ FoldsTo(G(r), r, b, c, st)
    BY <1>4
  <2>2. r \in SUBSET r /\ G(r)[r] \in V
    BY <2>1
  <2>3. CASE r = {}
    <3>1. G(r)[r] = b
      BY <2>1, <2>2, <2>3 DEF FoldsTo
    <3>2. h[r] = b
      BY <2>3
    <3>3. QED
      BY <3>1, <3>2
  <2>4. CASE r # {}
    <3>1. Rest(r) \in SUBSET r /\ Rest(r) \in SUBSET T /\ Rest(r) # T
      BY <1>5, <2>4
    <3>2. FoldsTo(G(Rest(r)), Rest(r), b, c, st)
      BY <1>4, <3>1
    <3>3. Rest(r) \in SUBSET Rest(r) /\ r \in SUBSET S
      BY <1>3
    <3>4. G(Rest(r))[Rest(r)] = G(r)[Rest(r)]
      <4> HIDE DEF Rest
      <4> QED BY <2>1, <3>1, <3>2, <3>3, FoldsAgree
    <3>5. G(r)[r] = st[<<c[r], G(r)[Rest(r)]>>]
      BY <2>1, <2>2, <2>4 DEF FoldsTo
    <3>6. h[r] = st[<<c[r], G(Rest(r))[Rest(r)]>>]
      BY <2>4
    <3>7. QED
      <4> HIDE DEF h, Rest
      <4> QED BY <2>2, <3>4, <3>5, <3>6
  <2>5. QED
    BY <2>3, <2>4
<1>7. FoldsTo(h, T, b, c, st) /\ h \in [SUBSET T -> V]
  <2>1. ASSUME NEW s \in SUBSET T, s # {} PROVE h[s] = st[<<c[s], h[Rest(s)]>>] /\ h[s] \in V
    <3>1. Rest(s) \in SUBSET T /\ Rest(s) # T /\ c[s] \in S
      BY <1>5, <2>1
    <3>2. h[s] = st[<<c[s], G(Rest(s))[Rest(s)]>>]
      BY <2>1
    <3> HIDE DEF h, Rest
    <3>3. h[Rest(s)] = G(Rest(s))[Rest(s)] /\ h[Rest(s)] \in V
      BY <1>6, <3>1
    <3>4. st[<<c[s], h[Rest(s)]>>] \in V
      BY <3>1, <3>3
    <3>5. QED
      BY <3>2, <3>3, <3>4
  <2>2. h[{}] = b
    OBVIOUS
  <2>3. h = [s \in SUBSET T |-> h[s]]
    OBVIOUS
  <2>4. \A s \in SUBSET T : h[s] \in V
    <3> HIDE DEF h
    <3> QED BY <2>1, <2>2
  <2>5. FoldsTo(h, T, b, c, st)
    <3> HIDE DEF h
    <3> QED BY <2>1, <2>2 DEF FoldsTo, Rest
  <2>6. h \in [SUBSET T -> V]
    <3> HIDE DEF h
    <3> QED BY <2>3, <2>4
  <2>7. QED
    BY <2>5, <2>6
<1>8. QED
  <2> HIDE DEF h
  <2> QED BY <1>3, <1>7
-----------------------------------------------------------------------------
(* The sum of a function over a finite set: the fold of the library, whatever  *)
(* subset it is taken over.                                                  *)
Chosen(S) == [s \in SUBSET S |-> CHOOSE x \in s : TRUE]
Adds(f, S) == [p \in S \X Int |-> f[p[1]] + p[2]]

SumEquation(iter, f, T) ==
    iter = [s \in SUBSET T |-> IF s = {} THEN 0
                               ELSE f[CHOOSE x \in s : TRUE] + iter[s \ {CHOOSE x \in s : TRUE}]]

\* What the folds and the sums over the subsets of S are.
Sums(g, f, S) ==
    /\ g \in [SUBSET S -> Int] /\ FoldsTo(g, S, 0, Chosen(S), Adds(f, S))
    /\ \A T \in SUBSET S : SumFunctionOnSet(f, T) = g[T]

LEMMA EquationFolds ==
    ASSUME NEW S, IsFiniteSet(S), NEW f, \A x \in S : f[x] \in Int,
           NEW T \in SUBSET S, NEW iter, SumEquation(iter, f, T)
    PROVE  FoldsTo(iter, T, 0, Chosen(S), Adds(f, S))
<1>1. iter[{}] = 0
  BY DEF SumEquation
<1>2. ASSUME NEW s \in SUBSET T, s # {}
      PROVE  /\ Chosen(S)[s] \in s
             /\ iter[s] = f[Chosen(S)[s]] + iter[s \ {Chosen(S)[s]}]
  BY <1>2 DEF SumEquation, Chosen
<1> DEFINE Bad == {r \in SUBSET T : iter[r] \notin Int}
<1>3. Bad = {}
  <2>1. SUFFICES ASSUME Bad # {} PROVE FALSE
    OBVIOUS
  <2>2. PICK r \in Bad : \A q \in Bad : q \subseteq r => q = r
    <3>1. Bad \in SUBSET (SUBSET S)
      OBVIOUS
    <3> HIDE DEF Bad
    <3> QED BY <2>1, <3>1, MinimalSubset
  <2>3. r \in SUBSET T /\ iter[r] \notin Int
    BY <2>2
  <2>4. r # {}
    BY <1>1, <2>3
  <2> DEFINE x == Chosen(S)[r]
  <2>5. x \in r /\ iter[r] = f[x] + iter[r \ {x}]
    BY <1>2, <2>3, <2>4
  <2> HIDE DEF x
  <2>6. iter[r \ {x}] \in Int
    BY <2>2, <2>3, <2>5
  <2>7. QED
    BY <2>3, <2>5, <2>6
<1>4. ASSUME NEW s \in SUBSET T, s # {}
      PROVE  iter[s] = Adds(f, S)[<<Chosen(S)[s], iter[s \ {Chosen(S)[s]}]>>]
  <2>1. iter[s \ {Chosen(S)[s]}] \in Int /\ Chosen(S)[s] \in S
    BY <1>2, <1>3, <1>4
  <2>2. QED
    BY <1>2, <1>4, <2>1 DEF Adds
<1>5. QED
  BY <1>1, <1>4 DEF FoldsTo

LEMMA SumUnfolds ==
    ASSUME NEW S, IsFiniteSet(S), NEW f, \A x \in S : f[x] \in Int
    PROVE  \E g : Sums(g, f, S)
<1> DEFINE c == Chosen(S)
           st == Adds(f, S)
<1>1. \A s \in SUBSET S : s # {} => c[s] \in s
  BY DEF Chosen
<1>2. st \in [S \X Int -> Int] /\ 0 \in Int
  BY DEF Adds
<1>3. PICK g \in [SUBSET S -> Int] : FoldsTo(g, S, 0, c, st)
  <2> HIDE DEF c, st
  <2> QED BY <1>1, <1>2, FoldExists
<1>4. ASSUME NEW T \in SUBSET S PROVE SumFunctionOnSet(f, T) = g[T]
  <2> DEFINE h == [s \in SUBSET T |-> g[s]]
             iter == CHOOSE i : SumEquation(i, f, T)
  <2>1. SumFunctionOnSet(f, T) = iter[T]
    BY DEF SumFunctionOnSet, FoldFunctionOnSet, MapThenFoldSet, SumEquation
  <2>2. ASSUME NEW s \in SUBSET T, s # {}
        PROVE  h[s] = f[CHOOSE x \in s : TRUE] + h[s \ {CHOOSE x \in s : TRUE}]
    <3> DEFINE x == CHOOSE x \in s : TRUE
    <3>1. c[s] = x /\ x \in s /\ s \in SUBSET S
      BY <1>1, <2>2 DEF Chosen
    <3>2. s \ {x} \in SUBSET T /\ s \ {x} \in SUBSET S /\ x \in S
      BY <3>1
    <3> HIDE DEF x
    <3>3. g[s] = st[<<c[s], g[s \ {c[s]}]>>]
      BY <1>3, <2>2, <3>1 DEF FoldsTo
    <3>4. g[s \ {x}] \in Int
      BY <1>3, <3>2
    <3>5. g[s] = f[x] + g[s \ {x}]
      BY <3>1, <3>2, <3>3, <3>4 DEF Adds
    <3>6. QED
      BY <3>2, <3>5 DEF x
  <2>3. h[{}] = 0
    BY <1>3 DEF FoldsTo
  <2>4. SumEquation(h, f, T)
    <3>1. ASSUME NEW s \in SUBSET T
          PROVE  h[s] = IF s = {} THEN 0
                        ELSE f[CHOOSE x \in s : TRUE] + h[s \ {CHOOSE x \in s : TRUE}]
      <4> HIDE DEF h
      <4> QED BY <2>2, <2>3
    <3>2. QED
      BY <3>1 DEF SumEquation
  <2>5. SumEquation(iter, f, T)
    BY <2>4
  <2>6. FoldsTo(h, T, 0, c, st) /\ FoldsTo(iter, T, 0, c, st)
    <3> HIDE DEF h, iter
    <3> QED BY <2>4, <2>5, EquationFolds
  <2>7. \A s \in SUBSET T : iter[s] = h[s]
    <3>1. T \in SUBSET T
      OBVIOUS
    <3> HIDE DEF h, iter, c, st
    <3> QED BY <1>1, <2>6, <3>1, FoldsAgree
  <2>8. QED
    <3> HIDE DEF iter
    <3> QED BY <2>1, <2>7
<1>5. QED
  BY <1>3, <1>4 DEF Sums

(* The sum over no element is zero, and any element can be taken out of it. *)
LEMMA SumWithout ==
    ASSUME NEW S, IsFiniteSet(S), NEW f, \A x \in S : f[x] \in Int
    PROVE  /\ SumFunctionOnSet(f, S) \in Int
           /\ SumFunctionOnSet(f, {}) = 0
           /\ \A x \in S : SumFunctionOnSet(f, S) = f[x] + SumFunctionOnSet(f, S \ {x})
<1> DEFINE c == Chosen(S)
<1>1. PICK g : Sums(g, f, S)
  BY SumUnfolds
<1>2. \A s \in SUBSET S : s # {} => c[s] \in s /\ g[s] = f[c[s]] + g[s \ {c[s]}]
  <2> SUFFICES ASSUME NEW s \in SUBSET S, s # {}
               PROVE  c[s] \in s /\ g[s] = f[c[s]] + g[s \ {c[s]}]
    OBVIOUS
  <2>1. c[s] \in s /\ c[s] \in S
    BY DEF Chosen
  <2> HIDE DEF c
  <2>2. g[s] = Adds(f, S)[<<c[s], g[s \ {c[s]}]>>] /\ g[s \ {c[s]}] \in Int
    BY <1>1 DEF FoldsTo, Sums, c
  <2>3. QED
    BY <2>1, <2>2 DEF Adds
<1> HIDE DEF c
<1> DEFINE Bad == {s \in SUBSET S : \E x \in s : g[s] # f[x] + g[s \ {x}]}
<1>3. Bad = {}
  <2>1. SUFFICES ASSUME Bad # {} PROVE FALSE
    OBVIOUS
  <2>2. PICK s \in Bad : \A r \in Bad : r \subseteq s => r = s
    <3>1. Bad \in SUBSET (SUBSET S)
      OBVIOUS
    <3> HIDE DEF Bad
    <3> QED BY <2>1, <3>1, MinimalSubset
  <2>3. PICK x \in s : g[s] # f[x] + g[s \ {x}]
    BY <2>2
  <2> DEFINE y == c[s]
  <2>4. y \in s /\ g[s] = f[y] + g[s \ {y}] /\ x # y /\ s \in SUBSET S
    BY <1>2, <2>2, <2>3
  <2> HIDE DEF y
  <2>5. /\ s \ {x} \in SUBSET S /\ s \ {x} \notin Bad
        /\ s \ {y} \in SUBSET S /\ s \ {y} \notin Bad
    <3> HIDE DEF Bad
    <3> QED BY <2>2, <2>3, <2>4
  <2>6. (s \ {x}) \ {y} = (s \ {y}) \ {x}
    OBVIOUS
  <2>7. g[s \ {x}] = f[y] + g[(s \ {x}) \ {y}] /\ g[s \ {y}] = f[x] + g[(s \ {y}) \ {x}]
    BY <2>3, <2>4, <2>5
  <2>8. f[x] \in Int /\ f[y] \in Int /\ g[(s \ {x}) \ {y}] \in Int
    BY <1>1, <2>3, <2>4, <2>5 DEF Sums
  <2>9. g[s] = f[x] + g[s \ {x}]
    <3>1. \A a, b, rest \in Int : b + (a + rest) = a + (b + rest)
      OBVIOUS
    <3>2. g[s] = f[y] + (f[x] + g[(s \ {x}) \ {y}])
      BY <2>4, <2>6, <2>7, Zenon
    <3>3. g[s \ {x}] = f[y] + g[(s \ {x}) \ {y}]
      BY <2>7
    <3>4. f[y] + (f[x] + g[(s \ {x}) \ {y}]) = f[x] + (f[y] + g[(s \ {x}) \ {y}])
      BY <2>8, <3>1
    <3> QED BY <3>2, <3>3, <3>4, Zenon
  <2>10. QED
    BY <2>3, <2>9
<1>4. S \in SUBSET S /\ {} \in SUBSET S /\ \A x \in S : S \ {x} \in SUBSET S
  OBVIOUS
<1>5. \A x \in S : g[S] = f[x] + g[S \ {x}]
  BY <1>3, <1>4
<1>6. g[{}] = 0
  BY <1>1, <1>4 DEF FoldsTo, Sums
<1>7. QED
  BY <1>1, <1>4, <1>5, <1>6 DEF Sums

(* Functions that agree on a set have the same sum over it. *)
LEMMA SumOfSame ==
    ASSUME NEW S, IsFiniteSet(S), NEW f, NEW h, \A x \in S : f[x] \in Int /\ h[x] = f[x]
    PROVE  SumFunctionOnSet(h, S) = SumFunctionOnSet(f, S)
<1>1. PICK g : Sums(g, f, S)
  BY SumUnfolds
<1>2. PICK k : Sums(k, h, S)
  <2>1. \A x \in S : h[x] \in Int
    OBVIOUS
  <2>2. QED
    BY <2>1, SumUnfolds
<1>3. Adds(h, S) = Adds(f, S)
  BY DEF Adds
<1>4. \A s \in SUBSET S : s # {} => Chosen(S)[s] \in s
  BY DEF Chosen
<1>5. S \in SUBSET S
  OBVIOUS
<1>6. \A s \in SUBSET S : g[s] = k[s]
  BY <1>1, <1>2, <1>3, <1>4, <1>5, FoldsAgree DEF Sums
<1>7. QED
  BY <1>1, <1>2, <1>5, <1>6 DEF Sums
-----------------------------------------------------------------------------
(* Every item has a priority, and the order of the items is strict and total: *)
(* the names tell the items apart.                                           *)
LEMMA TagsAreKnown ==
    ASSUME NEW i \in Items
    PROVE  /\ Tags(i) \subseteq DOMAIN Adjustment /\ IsFiniteSet(Tags(i))
           /\ \A tag \in Tags(i) : Adjustment[tag] \in Int
<1>1. DOMAIN Adjustment = {"active", "durable", "stale", "redundant", "discardable", "sensitive"}
  BY DEF Adjustment
<1>2. i.source \in {"spec", "beads", "audit", "repo", "herdr", "mcp", "remote_session", "transcript"}
  BY PlanningAssumption
<1>3. SourceTags(i.source) \subseteq DOMAIN Adjustment
  BY <1>1, <1>2 DEF SourceTags
<1>4. Tags(i) \subseteq DOMAIN Adjustment
  <2>1. ASSUME NEW tag \in Tags(i)
        PROVE  tag \in SourceTags(i.source)
                 \/ tag \in {"stale", "discardable", "redundant", "sensitive"}
    BY DEF Tags
  <2>2. QED
    BY <1>1, <1>3, <2>1
<1>5. IsFiniteSet(DOMAIN Adjustment)
  <2>1. \A x : IsFiniteSet({x})
    BY FS_Singleton
  <2>2. IsFiniteSet({"active"} \cup {"durable"} \cup {"stale"} \cup {"redundant"}
                      \cup {"discardable"} \cup {"sensitive"})
    BY <2>1, FS_Union, Zenon
  <2>3. QED
    BY <1>1, <2>2
<1>6. IsFiniteSet(Tags(i))
  BY <1>4, <1>5, FS_Subset
<1>7. \A tag \in DOMAIN Adjustment : Adjustment[tag] \in Int
  BY DEF Adjustment
<1>8. QED
  BY <1>4, <1>6, <1>7

LEMMA PriorityIsInt == \A i \in Items : Priority(i) \in Int
<1> SUFFICES ASSUME NEW i \in Items PROVE Priority(i) \in Int
  OBVIOUS
<1> DEFINE adjusted == SourcePriority(i.source) + (IF i.source = "beads" /\ i.onBead THEN 5 ELSE 0)
                         + SumFunctionOnSet(Adjustment, Tags(i))
<1>1. SumFunctionOnSet(Adjustment, Tags(i)) \in Int
  BY TagsAreKnown, SumWithout
<1>2. i.source \in {"spec", "beads", "audit", "repo", "herdr", "mcp", "remote_session", "transcript"}
  BY PlanningAssumption
<1>3. SourcePriority(i.source) \in Int
  BY <1>2 DEF SourcePriority
<1>4. adjusted \in Int
  BY <1>1, <1>3
<1>5. \A a, b \in Int : Min({a, b}) \in {a, b} /\ Max({a, b}) \in {a, b}
  <2> SUFFICES ASSUME NEW a \in Int, NEW b \in Int
               PROVE  Min({a, b}) \in {a, b} /\ Max({a, b}) \in {a, b}
    OBVIOUS
  <2>1. \E x \in {a, b} : \A y \in {a, b} : x =< y
    BY SMT
  <2>2. \E x \in {a, b} : \A y \in {a, b} : x >= y
    BY SMT
  <2>3. QED
    BY <2>1, <2>2 DEF Min, Max
<1>6. QED
  <2>1. Priority(i) = Max({0, Min({100, adjusted})})
    BY DEF Priority
  <2> HIDE DEF adjusted
  <2> DEFINE m == Min({100, adjusted})
  <2>2. m \in {100, adjusted}
    BY <1>4, <1>5
  <2>3. m \in Int
    BY <1>4, <2>2
  <2> HIDE DEF m
  <2>4. Max({0, m}) \in {0, m}
    BY <1>5, <2>3
  <2>5. QED
    BY <2>1, <2>3, <2>4 DEF m

LEMMA BeforeIsTotal ==
    \A i, j \in Items : /\ ~(Before(i, j) /\ Before(j, i))
                        /\ i # j => Before(i, j) \/ Before(j, i)
                        /\ \A k \in Items : Before(i, j) /\ Before(j, k) => Before(i, k)
<1>1. \A i \in Items : i.name \in Nat
  BY PlanningAssumption
<1>2. \A i, j \in Items : i.name = j.name => i = j
  BY PlanningAssumption
<1>3. QED
  BY <1>1, <1>2, PriorityIsInt DEF Before

LEMMA LastIsLast ==
    ASSUME NEW items \in SUBSET Items, items # {}
    PROVE  LastOf(items) \in items /\ \A j \in items \ {LastOf(items)} : Before(j, LastOf(items))
<1> DEFINE IsLast(i, s) == i \in s /\ \A j \in s \ {i} : Before(j, i)
           Bad == {s \in SUBSET items : s # {} /\ ~\E i \in s : IsLast(i, s)}
<1>1. Bad = {}
  <2>1. SUFFICES ASSUME Bad # {} PROVE FALSE
    OBVIOUS
  <2>2. PICK s \in Bad : \A r \in Bad : r \subseteq s => r = s
    <3>1. Bad \in SUBSET (SUBSET Items) /\ IsFiniteSet(Items)
      BY PlanningAssumption
    <3> HIDE DEF Bad
    <3> QED BY <2>1, <3>1, MinimalSubset
  <2>3. PICK x : x \in s
    BY <2>2
  <2>4. s \in SUBSET Items /\ s \ {x} \in SUBSET items /\ ~\E i \in s : IsLast(i, s)
    BY <2>2
  <2>5. s \ {x} # {}
    BY <2>3, <2>4
  <2>6. s \ {x} \notin Bad
    <3> HIDE DEF Bad
    <3> QED BY <2>2, <2>3
  <2>7. PICK y \in s \ {x} : IsLast(y, s \ {x})
    BY <2>4, <2>5, <2>6
  <2>8. IsLast(x, s) \/ IsLast(y, s)
    BY <2>3, <2>4, <2>7, BeforeIsTotal
  <2>9. QED
    BY <2>3, <2>4, <2>7, <2>8
<1>2. \E i \in items : \A j \in items \ {i} : Before(j, i)
  BY <1>1
<1>3. QED
  BY <1>2 DEF LastOf
-----------------------------------------------------------------------------
(* The entry of an item in a pack, and the packs of some items. *)
EntryOf(i, includeSensitive) == [item |-> i, redacted |-> Redacted(i) /\ ~includeSensitive]
Entries == [item : Items, redacted : BOOLEAN]
Packs == [used : Int, included : SUBSET Entries]

SizeOf(included) == SumFunctionOnSet([e \in included |-> EntryTokens(e)], included)

LEMMA EntryTyped ==
    ASSUME NEW i \in Items, NEW includeSensitive \in BOOLEAN
    PROVE  /\ EntryOf(i, includeSensitive) \in Entries
           /\ EntryOf(i, includeSensitive).item = i
           /\ EntryTokens(EntryOf(i, includeSensitive)) = Tokens(i, includeSensitive)
           /\ Tokens(i, includeSensitive) \in Nat
<1>1. i.tokens \in Nat /\ Placeholder \in Nat
  BY PlanningAssumption
<1>2. (Redacted(i) /\ ~includeSensitive) \in BOOLEAN
  OBVIOUS
<1>3. EntryOf(i, includeSensitive) \in Entries
  BY <1>2, Zenon DEF EntryOf, Entries
<1>4. /\ EntryOf(i, includeSensitive).item = i
      /\ EntryOf(i, includeSensitive).redacted = (Redacted(i) /\ ~includeSensitive)
  BY Zenon DEF EntryOf
<1>5. EntryTokens(EntryOf(i, includeSensitive)) = Tokens(i, includeSensitive)
  BY <1>4, Zenon DEF EntryTokens, Tokens
<1>6. QED
  BY <1>1, <1>3, <1>4, <1>5 DEF Tokens

LEMMA EntriesFinite == IsFiniteSet(Entries)
<1> DEFINE pairs == Items \X BOOLEAN
           f == [p \in pairs |-> [item |-> p[1], redacted |-> p[2]]]
<1>1. IsFiniteSet(BOOLEAN)
  <2>1. IsFiniteSet({TRUE} \cup {FALSE})
    BY FS_Singleton, FS_Union
  <2>2. BOOLEAN = {TRUE} \cup {FALSE}
    OBVIOUS
  <2>3. QED
    BY <2>1, <2>2
<1>2. IsFiniteSet(pairs)
  BY <1>1, PlanningAssumption, FS_Product
<1>3. f \in Surjection(pairs, Entries)
  <2>1. f \in [pairs -> Entries]
    BY DEF Entries
  <2>2. ASSUME NEW e \in Entries PROVE \E p \in pairs : f[p] = e
    <3>1. <<e.item, e.redacted>> \in pairs /\ e = [item |-> e.item, redacted |-> e.redacted]
      BY DEF Entries
    <3>2. f[<<e.item, e.redacted>>] = e
      BY <3>1
    <3>3. QED
      BY <3>1, <3>2
  <2>3. QED
    BY <2>1, <2>2 DEF Surjection
<1>4. QED
  <2> HIDE DEF pairs, f
  <2> QED BY <1>2, <1>3, FS_Surjection

\* The tokens of a pack, entry by entry.
LEMMA SizeGrows ==
    /\ SizeOf({}) = 0
    /\ \A included \in SUBSET Entries, e \in Entries :
         SizeOf(included) \in Int
         /\ (e \notin included => SizeOf(included \cup {e}) = SizeOf(included) + EntryTokens(e))
<1> DEFINE t == [e \in Entries |-> EntryTokens(e)]
<1>1. \A e \in Entries : t[e] \in Int
  BY PlanningAssumption DEF Entries, EntryTokens
<1>2. \A S \in SUBSET Entries : IsFiniteSet(S)
  BY EntriesFinite, FS_Subset
<1>3. ASSUME NEW S \in SUBSET Entries PROVE SizeOf(S) = SumFunctionOnSet(t, S)
  <2> DEFINE h == [e \in S |-> EntryTokens(e)]
  <2>1. \A e \in S : t[e] \in Int /\ h[e] = t[e]
    BY <1>1
  <2>2. IsFiniteSet(S)
    BY <1>2
  <2>3. SumFunctionOnSet(h, S) = SumFunctionOnSet(t, S)
    <3> HIDE DEF h, t
    <3> QED BY <2>1, <2>2, SumOfSame
  <2>4. QED
    BY <2>3 DEF SizeOf
<1> HIDE DEF t
<1>4. ASSUME NEW included \in SUBSET Entries
      PROVE  /\ SumFunctionOnSet(t, included) \in Int
             /\ SumFunctionOnSet(t, {}) = 0
             /\ \A e \in included : SumFunctionOnSet(t, included)
                                      = t[e] + SumFunctionOnSet(t, included \ {e})
  <2>1. IsFiniteSet(included) /\ \A e \in included : t[e] \in Int
    BY <1>1, <1>2
  <2>2. QED
    BY <2>1, SumWithout
<1>5. ASSUME NEW included \in SUBSET Entries, NEW e \in Entries, e \notin included
      PROVE  SizeOf(included \cup {e}) = SizeOf(included) + EntryTokens(e)
  <2> DEFINE more == included \cup {e}
  <2>1. more \in SUBSET Entries /\ e \in more /\ more \ {e} = included
    BY <1>5
  <2> HIDE DEF more
  <2>2. SumFunctionOnSet(t, more) = t[e] + SumFunctionOnSet(t, included)
    BY <1>4, <2>1
  <2>3. SumFunctionOnSet(t, included) \in Int /\ t[e] \in Int /\ t[e] = EntryTokens(e)
    BY <1>1, <1>4 DEF t
  <2>4. SizeOf(more) = SizeOf(included) + EntryTokens(e)
    BY <1>3, <2>1, <2>2, <2>3
  <2>5. QED
    BY <2>4 DEF more
<1>6. {} \in SUBSET Entries
  OBVIOUS
<1>7. QED
  BY <1>3, <1>4, <1>5, <1>6

(* The packs of the subsets of the items asked for: each is the pack of the    *)
(* more important ones and one item more.                                     *)
PacksOf(g, items, size, includeSensitive) ==
    /\ g \in [SUBSET items -> Packs] /\ PackOf(items, size, includeSensitive) = g[items]
    /\ \A s \in SUBSET items :
         g[s] = IF s = {} THEN EmptyPack
                ELSE Packed(g[s \ {LastOf(s)}], LastOf(s), size, includeSensitive)

LEMMA PackUnfolds ==
    ASSUME NEW items \in SUBSET Items, NEW size \in Nat, NEW includeSensitive \in BOOLEAN
    PROVE  \E g : PacksOf(g, items, size, includeSensitive)
<1> DEFINE P(pack, i) == Packed(pack, i, size, includeSensitive)
           c == [s \in SUBSET items |-> LastOf(s)]
           st == [p \in items \X Packs |-> P(p[2], p[1])]
<1>1. IsFiniteSet(items)
  BY PlanningAssumption, FS_Subset
<1>2. \A s \in SUBSET items : s # {} => c[s] \in s
  <2>1. ASSUME NEW s \in SUBSET items, s # {} PROVE LastOf(s) \in s
    BY <2>1, LastIsLast
  <2>2. QED
    BY <2>1
<1>3. EmptyPack \in Packs
  BY DEF EmptyPack, Packs
<1>4. \A pack \in Packs, i \in items : P(pack, i) \in Packs
  <2> SUFFICES ASSUME NEW pack \in Packs, NEW i \in items PROVE P(pack, i) \in Packs
    OBVIOUS
  <2>1. /\ EntryOf(i, includeSensitive) \in Entries /\ Tokens(i, includeSensitive) \in Nat
    BY EntryTyped
  <2>2. P(pack, i) \in {pack, [used |-> pack.used + Tokens(i, includeSensitive),
                               included |-> pack.included \cup {EntryOf(i, includeSensitive)}]}
    BY Zenon DEF Packed, EntryOf
  <2> HIDE DEF P
  <2>3. QED
    BY <2>1, <2>2 DEF Packs
<1>5. st \in [items \X Packs -> Packs]
  BY <1>4
<1>6. PICK g \in [SUBSET items -> Packs] : FoldsTo(g, items, EmptyPack, c, st)
  <2> HIDE DEF c, st
  <2> QED BY <1>1, <1>2, <1>3, <1>5, FoldExists
<1>7. ASSUME NEW s \in SUBSET items
      PROVE  g[s] = IF s = {} THEN EmptyPack ELSE P(g[s \ {LastOf(s)}], LastOf(s))
  <2>1. CASE s = {}
    BY <1>6, <2>1 DEF FoldsTo
  <2>2. CASE s # {}
    <3>1. c[s] = LastOf(s) /\ c[s] \in items /\ s \ {c[s]} \in SUBSET items
      BY <1>2, <2>2
    <3>2. g[s] = st[<<c[s], g[s \ {c[s]}]>>] /\ g[s \ {c[s]}] \in Packs
      BY <1>6, <2>2, <3>1 DEF FoldsTo
    <3> HIDE DEF P, c
    <3>3. QED
      BY <2>2, <3>1, <3>2
  <2>3. QED
    BY <2>1, <2>2
<1> DEFINE Eq(h) == h = [s \in SUBSET items |->
                           IF s = {} THEN EmptyPack ELSE P(h[s \ {LastOf(s)}], LastOf(s))]
           iter == CHOOSE h : Eq(h)
<1>8. PackOf(items, size, includeSensitive) = iter[items]
  BY DEF PackOf, MapThenFoldSet
<1>9. Eq(g)
  <2> HIDE DEF P
  <2> QED BY <1>7
<1>10. Eq(iter)
  <2> HIDE DEF Eq
  <2> QED BY <1>9
<1>11. ASSUME NEW s \in SUBSET items PROVE iter[s] = g[s]
  <2> DEFINE Bad == {r \in SUBSET items : iter[r] # g[r]}
  <2>1. SUFFICES ASSUME Bad # {} PROVE FALSE
    OBVIOUS
  <2>2. PICK r \in Bad : \A q \in Bad : q \subseteq r => q = r
    <3>1. Bad \in SUBSET (SUBSET items)
      OBVIOUS
    <3> HIDE DEF Bad
    <3> QED BY <1>1, <2>1, <3>1, MinimalSubset
  <2>3. r \in SUBSET items /\ iter[r] # g[r]
    BY <2>2
  <2>4. iter[r] = IF r = {} THEN EmptyPack ELSE P(iter[r \ {LastOf(r)}], LastOf(r))
    <3> HIDE DEF iter, P
    <3> QED BY <1>10, <2>3
  <2>5. r # {} => r \ {LastOf(r)} \in SUBSET items /\ r \ {LastOf(r)} # r
    BY <1>2, <2>3
  <2>6. r # {} => iter[r \ {LastOf(r)}] = g[r \ {LastOf(r)}]
    <3> HIDE DEF iter
    <3> QED BY <2>2, <2>5
  <2>7. QED
    <3> HIDE DEF iter, P
    <3> QED BY <1>7, <2>3, <2>4, <2>6
<1>12. QED
  <2>1. items \in SUBSET items
    OBVIOUS
  <2> HIDE DEF iter
  <2> QED BY <1>7, <1>8, <1>11, <2>1 DEF PacksOf
(* What is true of the pack of some of the items: it holds entries of them, it *)
(* counts what it holds and keeps to its size, and an item that was not given  *)
(* up as worthless is missing only when it did not fit beside those before it. *)
Missing(i, pack, size, includeSensitive) ==
    SizeOf({e \in pack.included : Before(e.item, i)}) + Tokens(i, includeSensitive) > size

PackInv(s, pack, size, includeSensitive) ==
    /\ pack.included \subseteq {EntryOf(i, includeSensitive) : i \in s}
    /\ pack.used = SizeOf(pack.included) /\ pack.used =< size
    /\ \A i \in s : EntryOf(i, includeSensitive) \in pack.included \/ Skipped(i)
                      \/ Missing(i, pack, size, includeSensitive)

LEMMA ItemPacked ==
    ASSUME NEW s \in SUBSET Items, s # {}, NEW size \in Nat, NEW includeSensitive \in BOOLEAN,
           NEW pack \in Packs, PackInv(s \ {LastOf(s)}, pack, size, includeSensitive)
    PROVE  PackInv(s, Packed(pack, LastOf(s), size, includeSensitive), size, includeSensitive)
<1> DEFINE i == LastOf(s)
           entry == EntryOf(i, includeSensitive)
           tokens == Tokens(i, includeSensitive)
           E(j) == EntryOf(j, includeSensitive)
           after == Packed(pack, i, size, includeSensitive)
<1>1. i \in s /\ i \in Items /\ \A j \in s \ {i} : Before(j, i)
  BY LastIsLast
<1> HIDE DEF i
<1>2. /\ entry \in Entries /\ entry.item = i /\ EntryTokens(entry) = tokens /\ tokens \in Nat
      /\ \A j \in Items : E(j).item = j
  BY <1>1, EntryTyped
<1>3. pack.included \in SUBSET Entries /\ pack.used \in Int
  BY DEF Packs
<1> HIDE DEF E
<1>4. /\ pack.included \subseteq {E(j) : j \in s \ {i}}
      /\ pack.used = SizeOf(pack.included) /\ pack.used =< size
      /\ \A j \in s \ {i} : E(j) \in pack.included \/ Skipped(j)
                              \/ Missing(j, pack, size, includeSensitive)
  BY DEF PackInv, i, E
<1>5. \A e \in pack.included : Before(e.item, i) /\ e # entry
  <2>1. \A e \in pack.included : e.item \in s \ {i}
    BY <1>2, <1>4
  <2> HIDE DEF entry
  <2>2. QED
    BY <1>1, <1>2, <2>1
<1>6. CASE Skipped(i) \/ pack.used + tokens > size
  <2>1. after = pack
    BY <1>6 DEF Packed
  <2>2. {e \in pack.included : Before(e.item, i)} = pack.included
    BY <1>5
  <2>3. Skipped(i) \/ Missing(i, pack, size, includeSensitive)
    BY <1>4, <1>6, <2>2 DEF Missing
  <2>4. pack.included \subseteq {E(j) : j \in s}
    BY <1>4
  <2> HIDE DEF after
  <2>5. PackInv(s, pack, size, includeSensitive)
    BY <1>4, <2>3, <2>4 DEF PackInv, E
  <2>6. QED
    BY <2>1, <2>5 DEF after, i
<1>7. CASE ~(Skipped(i) \/ pack.used + tokens > size)
  <2>1. after = [used |-> pack.used + tokens, included |-> pack.included \cup {entry}]
    BY <1>7, Zenon DEF Packed, EntryOf
  <2>2. after.used = pack.used + tokens /\ after.included = pack.included \cup {entry}
    BY <2>1
  <2> HIDE DEF after, entry, tokens
  <2>3. after.used = SizeOf(after.included)
    <3>1. entry \notin pack.included
      BY <1>5
    <3>2. SizeOf(pack.included \cup {entry}) = SizeOf(pack.included) + EntryTokens(entry)
      BY <1>2, <1>3, <3>1, SizeGrows
    <3>3. QED
      BY <1>2, <1>4, <2>2, <3>2
  <2>4. after.used =< size
    BY <1>2, <1>3, <1>7, <2>2
  <2>5. after.included \subseteq {E(j) : j \in s}
    <3>1. entry \in {E(j) : j \in s}
      BY <1>1 DEF E, entry
    <3>2. QED
      BY <1>4, <2>2, <3>1
  <2>6. ASSUME NEW j \in s
        PROVE  E(j) \in after.included \/ Skipped(j) \/ Missing(j, after, size, includeSensitive)
    <3>1. CASE j = i
      BY <2>2, <3>1 DEF E, entry
    <3>2. CASE j # i
      <4>1. ~Before(i, j)
        BY <1>1, <3>2, BeforeIsTotal
      <4>2. {e \in after.included : Before(e.item, j)} = {e \in pack.included : Before(e.item, j)}
        BY <1>2, <2>2, <4>1
      <4>3. E(j) \in pack.included \/ Skipped(j) \/ Missing(j, pack, size, includeSensitive)
        BY <1>4, <3>2
      <4>4. QED
        BY <2>2, <4>2, <4>3 DEF Missing
    <3>3. QED
      BY <3>1, <3>2
  <2>7. PackInv(s, after, size, includeSensitive)
    BY <2>3, <2>4, <2>5, <2>6 DEF PackInv, E
  <2>8. QED
    BY <2>7 DEF after, i
<1>8. QED
  BY <1>6, <1>7

LEMMA PacksAreRight ==
    ASSUME NEW items \in SUBSET Items, NEW size \in Nat, NEW includeSensitive \in BOOLEAN
    PROVE  /\ PackOf(items, size, includeSensitive) \in Packs
           /\ PackInv(items, PackOf(items, size, includeSensitive), size, includeSensitive)
<1>1. PICK g : PacksOf(g, items, size, includeSensitive)
  BY PackUnfolds
<1> DEFINE Bad == {s \in SUBSET items : ~PackInv(s, g[s], size, includeSensitive)}
<1>2. Bad = {}
  <2>1. SUFFICES ASSUME Bad # {} PROVE FALSE
    OBVIOUS
  <2>2. PICK s \in Bad : \A r \in Bad : r \subseteq s => r = s
    <3>1. Bad \in SUBSET (SUBSET items) /\ IsFiniteSet(items)
      BY PlanningAssumption, FS_Subset
    <3> HIDE DEF Bad
    <3> QED BY <2>1, <3>1, MinimalSubset
  <2>3. s \in SUBSET items /\ s \in SUBSET Items /\ ~PackInv(s, g[s], size, includeSensitive)
    BY <2>2
  <2>4. CASE s = {}
    <3>1. g[s] = EmptyPack
      BY <1>1, <2>3, <2>4 DEF PacksOf
    <3>2. PackInv({}, EmptyPack, size, includeSensitive)
      BY SizeGrows DEF PackInv, EmptyPack
    <3>3. QED
      BY <2>3, <2>4, <3>1, <3>2
  <2>5. CASE s # {}
    <3> DEFINE r == s \ {LastOf(s)}
    <3>1. r \in SUBSET items /\ r # s /\ r \subseteq s
      BY <2>3, <2>5, LastIsLast
    <3> HIDE DEF r
    <3>2. r \notin Bad
      <4> HIDE DEF Bad
      <4> QED BY <2>2, <3>1
    <3>3. PackInv(r, g[r], size, includeSensitive) /\ g[r] \in Packs
      BY <1>1, <3>1, <3>2 DEF PacksOf
    <3>4. PackInv(s, Packed(g[r], LastOf(s), size, includeSensitive), size, includeSensitive)
      BY <2>3, <2>5, <3>3, ItemPacked DEF r
    <3>5. g[s] = Packed(g[r], LastOf(s), size, includeSensitive)
      BY <1>1, <2>3, <2>5 DEF r, PacksOf
    <3>6. QED
      BY <2>3, <3>4, <3>5
  <2>6. QED
    BY <2>4, <2>5
<1>3. items \in SUBSET items
  OBVIOUS
<1>4. QED
  BY <1>1, <1>2, <1>3 DEF PacksOf

\* Current work is never given up as worthless.
LEMMA BeadsItemsKept ==
    ASSUME NEW i \in Items, i.source = "beads", i.age < 24
    PROVE  ~Skipped(i)
<1>1. i.age \in Nat
  BY PlanningAssumption
<1>2. "active" \in SourceTags(i.source) /\ "discardable" \notin SourceTags(i.source)
  BY DEF SourceTags
<1>3. "active" \in Tags(i)
  BY <1>2 DEF Tags
<1>4. "discardable" \notin Tags(i)
  BY <1>1, <1>2 DEF Tags
<1>5. QED
  BY <1>3, <1>4 DEF Skipped

LEMMA PackBounded ==
    ASSUME NEW items \in SUBSET Items, NEW size \in Nat, NEW includeSensitive \in BOOLEAN,
           BuildContextPack(items, size, includeSensitive)
    PROVE  PackIsBounded'
<1> DEFINE pack == PackOf(items, size, includeSensitive)
<1>1. pack \in Packs /\ PackInv(items, pack, size, includeSensitive)
  BY PacksAreRight
<1>2. /\ call'.op = "pack" /\ call'.items = items /\ call'.size = size
      /\ call'.includeSensitive = includeSensitive /\ call'.pack = pack
  BY DEF BuildContextPack
<1> HIDE DEF pack
<1>3. SizeOf(pack.included) =< size
  BY <1>1 DEF PackInv
<1>4. \A e \in pack.included : \E i \in items : e = EntryOf(i, includeSensitive)
  BY <1>1 DEF PackInv
<1>5. ASSUME NEW e \in pack.included,
             e.item.sensitive \/ e.item.source \in {"remote_session", "transcript"}
      PROVE  e.redacted \/ includeSensitive
  <2>1. PICK i \in items : e = EntryOf(i, includeSensitive)
    BY <1>4
  <2>2. e.item = i /\ e.redacted = (Redacted(i) /\ ~includeSensitive)
    BY <2>1, Zenon DEF EntryOf
  <2>3. Redacted(i)
    BY <1>5, <2>2 DEF Redacted, Tags
  <2>4. QED
    BY <2>2, <2>3
<1>6. ASSUME NEW i \in items, i.source = "beads", i.age < 24, \A e \in pack.included : e.item # i
      PROVE  SizeOf({e \in pack.included : Before(e.item, i)}) + Tokens(i, includeSensitive) > size
  <2>1. ~Skipped(i)
    BY <1>6, BeadsItemsKept
  <2>2. EntryOf(i, includeSensitive) \notin pack.included
    BY <1>6, EntryTyped
  <2>3. QED
    BY <1>1, <2>1, <2>2 DEF PackInv, Missing
<1>7. QED
  BY <1>2, <1>3, <1>5, <1>6 DEF PackIsBounded, SizeOf

(* A pack keeps to the size it was asked for, holds nothing sensitive unless   *)
(* that was asked for, and leaves out current work only when it does not fit   *)
(* beside what is more important: for all items, sizes and redactions.        *)
THEOREM PacksKeepTheirSize == PlanningSpec => []PackIsBounded
<1>1. PlanningInit => PackIsBounded
  BY DEF PlanningInit, PackIsBounded
<1>2. PackIsBounded /\ [PlanningNext]_call => PackIsBounded'
  <2> SUFFICES ASSUME PackIsBounded, [PlanningNext]_call PROVE PackIsBounded'
    OBVIOUS
  <2>1. ASSUME NEW in \in PlannerInputs, Plan(in) PROVE PackIsBounded'
    <3>1. call'.op = "plan"
      BY <2>1 DEF Plan
    <3>2. QED
      BY <3>1 DEF PackIsBounded
  <2>2. ASSUME NEW items \in SUBSET Items, NEW size \in PackSizes,
               NEW includeSensitive \in BOOLEAN, BuildContextPack(items, size, includeSensitive)
        PROVE  PackIsBounded'
    <3>1. size \in Nat
      BY PlanningAssumption
    <3>2. QED
      BY <2>2, <3>1, PackBounded
  <2>3. CASE UNCHANGED call
    BY <2>3 DEF PackIsBounded
  <2>4. QED
    BY <2>1, <2>2, <2>3 DEF PlanningNext
<1>3. QED
  BY <1>1, <1>2, PTL DEF PlanningSpec
========================================
