----------------------------- MODULE ServerStart -----------------------------
(***************************************************************************)
(* From the command line to a server that answers: cli.main with the       *)
(* settings (config.py), the toolsets file (toolsets.py), the registration *)
(* of tools (tools/support/registry.py) and guides (guides.py) and the     *)
(* narrowing to the selected tools (server.create_server).                 *)
(*                                                                         *)
(* The toolsets file is read again and again: to be validated, for a       *)
(* throwaway server that shows which tools there are, and for the real     *)
(* one.  An operator may edit the files while the server starts.  Of the   *)
(* texts only their presence counts.                                       *)
(***************************************************************************)
EXTENDS FiniteSets, Naturals

CONSTANTS
    ReadTools,   \* tools that change nothing
    WriteTools,  \* tools that do
    SetNames,    \* names a toolset may have
    Selections,  \* what OITC_TOOLSETS may hold, as sets of its parts
    MaxEdits     \* bound of the model: edits of the files

All == "all"            \* the keyword
Typo == "typo"          \* a name nothing has
OwnGuide == "own"       \* a Markdown file of the operator's own
Tools == ReadTools \cup WriteTools

ASSUME ToolsAssumption == ReadTools \cap WriteTools = {} /\ Tools \cap SetNames = {}
ASSUME KeywordsAssumption == {All, Typo} \cap (Tools \cup SetNames) = {}
ASSUME SelectionsAssumption == {} \notin Selections /\ MaxEdits \in Nat

VARIABLES
    at,      \* the step main is at
    conf,    \* the settings and flags that matter after they were checked
    disk,    \* the toolsets file, the own guide and the style file, as they are;
             \* open: whether the toolsets file can be opened
    edits,   \* number of edits
    sets,    \* the toolsets main has loaded, until they are validated
    keep,    \* the tool names to keep, {"all"} for no filter
    tools,   \* the tools that are registered and, in the end, enabled
    guides   \* the guides that are registered

startVars == <<at, conf, disk, edits, sets, keep, tools, guides>>

(* The guides shipped: those of every instance, a workflow, a workflow     *)
(* that needs write tools, the prompt of a role.                           *)
Always == {"capabilities"}
NeedsWriteTools == {"write_workflow"}
Roles == {"role"}
Shipped == Always \cup {"workflow"} \cup NeedsWriteTools \cup Roles

(* What a toolsets file holds: one set here, with its tools and guides, or *)
(* that of the package, which applies without a file of the operator's.    *)
(* NoSets is a file that has none, is of another shape or is not there.    *)
Toolset == [tools : (SUBSET (Tools \cup {Typo})) \ {{}}, guides : {NeedsWriteTools, {"role", OwnGuide}}]
Packaged == [s \in SetNames |-> [tools |-> Tools, guides |-> Roles]]
Readable == {Packaged} \cup UNION {[{s} -> Toolset] : s \in SetNames}
NoSets == [s \in {} |-> {}]

(* A style file that was named may be missing; one that is there may be    *)
(* one the server is not allowed to open.                                  *)
Styles == {"unset", "there", "gone", "locked"}

StartTypeOK ==
    /\ at \in {"settings", "file", "probe", "validate", "resolve", "register", "guides", "narrow", "count",
               "serving", "exit_0", "exit_2", "traceback"}
    /\ conf \in [gate : BOOLEAN, selection : Selections, list : BOOLEAN]
    /\ disk.sets \in Readable \cup {NoSets}
    /\ disk.open \in BOOLEAN /\ disk.own \in BOOLEAN /\ disk.style \in Styles
    /\ edits \in 0..MaxEdits
    /\ sets \in Readable \cup {NoSets}
    /\ keep \subseteq Tools \cup {All, Typo} \cup SetNames
    /\ tools \subseteq Tools
    /\ guides \subseteq Shipped \cup {OwnGuide}

StartInit ==
    /\ at = "settings"
    /\ conf \in [gate : BOOLEAN, selection : Selections, list : BOOLEAN]
    /\ disk \in [sets : Readable \cup {NoSets}, open : BOOLEAN, own : BOOLEAN, style : Styles]
    /\ edits = 0
    /\ sets = NoSets /\ keep = {All}
    /\ tools = {} /\ guides = {}

-----------------------------------------------------------------------------
GoOn(s) == at' = s
Exit(s) == at' = s /\ UNCHANGED <<conf, disk, edits, sets, keep, tools, guides>>

(* The operator edits the toolsets file, removes what it needs, or takes   *)
(* the right to read it away.                                              *)
Edit ==
    /\ at \notin {"settings", "count", "serving", "exit_0", "exit_2", "traceback"}
    /\ edits < MaxEdits
    /\ edits' = edits + 1
    /\ \/ \E s \in SetNames, body \in Toolset :
            /\ disk.sets # Packaged
            /\ \E old \in DOMAIN disk.sets : s = old \/ body = disk.sets[old]
            /\ disk' = [disk EXCEPT !.sets = [n \in {s} |-> body]]
       \/ disk' = [disk EXCEPT !.sets = NoSets]
       \/ disk.own /\ disk' = [disk EXCEPT !.own = FALSE]
       \/ disk.open /\ disk' = [disk EXCEPT !.open = FALSE]
       \/ disk.style = "there" /\ \E s \in {"gone", "locked"} : disk' = [disk EXCEPT !.style = s]
    /\ UNCHANGED <<at, conf, sets, keep, tools, guides>>

-----------------------------------------------------------------------------
(* What a start may find: a key and a token for clients, which may be the  *)
(* same, a mode, a transport, and whether everything else is usable.       *)
Credentials ==
    [mode : {"static", "delegated"}, key : BOOLEAN, token : {"none", "own", "key"},
     transport : {"http", "stdio"}, rest : BOOLEAN]
Accepted(c) ==
    /\ c.rest
    /\ c.mode = "static" => c.key
    /\ c.transport = "http" => c.token # "none"
    /\ c.mode = "delegated" => ~c.key /\ c.transport = "http"
    /\ c.key => c.token # "key"

(* load_settings, or for --list-toolsets load_describing_settings, which   *)
(* brings placeholders for the credentials.                                *)
LoadSettings(c) ==
    /\ at = "settings"
    /\ IF Accepted(c) \/ (conf.list /\ c.rest) THEN Exit("file") ELSE Exit("exit_2")

(* load(resolve_path()): a ValueError if the file is not there or not of   *)
(* the shape, but whatever the system says (an OSError) if it cannot be    *)
(* opened; main catches a ValueError and nothing else.                     *)
Loads == disk.open /\ disk.sets # NoSets
Misshapen == disk.open /\ disk.sets = NoSets

LoadFile ==
    /\ at = "file"
    /\ \/ Loads /\ GoOn("probe") /\ sets' = disk.sets /\ UNCHANGED <<conf, disk, edits, keep, tools, guides>>
       \/ Misshapen /\ Exit("exit_2")
       \/ ~disk.open /\ Exit("traceback")

(* Mutant of Probe: the throwaway server registers no guides.              *)
ProbeTools ==
    /\ at = "probe"
    /\ \/ Loads /\ Exit("validate")
       \/ Misshapen /\ Exit("exit_2")
       \/ ~disk.open /\ Exit("traceback")

(* tool_catalogue: a throwaway server of all tools reads the toolsets file *)
(* and then the style file too, no guide of a set, and is closed.          *)
Probe ==
    /\ at = "probe"
    /\ \/ Loads /\ disk.style \in {"unset", "there"} /\ Exit("validate")
       \/ (Misshapen \/ (Loads /\ disk.style = "gone")) /\ Exit("exit_2")
       \/ (~disk.open \/ (Loads /\ disk.style = "locked")) /\ Exit("traceback")

(* validate and validate_selection; --list-toolsets prints and is done.    *)
Validate ==
    /\ at = "validate"
    /\ LET known == /\ \A s \in DOMAIN sets : sets[s].tools \subseteq Tools
                    /\ conf.selection \subseteq {All} \cup DOMAIN sets \cup Tools
       IN  at' = IF ~known THEN "exit_2" ELSE IF conf.list THEN "exit_0" ELSE "resolve"
    /\ sets' = NoSets
    /\ UNCHANGED <<conf, disk, edits, keep, tools, guides>>

-----------------------------------------------------------------------------
(* select: a part that names no set is taken to be a tool.                 *)
Selected(file) ==
    IF All \in conf.selection THEN {All}
    ELSE UNION {IF p \in DOMAIN file THEN file[p].tools ELSE {p} : p \in conf.selection}

(* create_server, resolve_toolsets: outside main's try, so that a file     *)
(* that is not usable any more ends the start with a traceback.            *)
Resolve ==
    /\ at = "resolve"
    /\ IF Loads
       THEN GoOn("register") /\ keep' = Selected(disk.sets)
            /\ UNCHANGED <<conf, disk, edits, sets, tools, guides>>
       ELSE Exit("traceback")

(* Mutant of Registered: the gate is not looked at.                        *)
RegisteredAll == Tools

(* register_all: write tools only if they are enabled.                     *)
Registered == IF conf.gate THEN Tools ELSE ReadTools

Register ==
    /\ at = "register"
    /\ GoOn("guides")
    /\ tools' = Registered
    /\ UNCHANGED <<conf, disk, edits, sets, keep, guides>>

(* active: the sets named, of which a bare tool or "all" is none.          *)
Active(file) == conf.selection \cap DOMAIN file

(* What register_guides serves of a file: everything but the roles if no   *)
(* set is named, else what is always served and what the sets name.        *)
Wanted(file) ==
    IF Active(file) = {} THEN Shipped \ Roles
    ELSE Always \cup UNION {file[s].guides : s \in Active(file)}

(* register_guides, with the file read once more: a style file, or a guide *)
(* of the operator's own, that is not there or cannot be read ends it.     *)
RegisterGuides ==
    /\ at = "guides"
    /\ IF /\ Loads /\ disk.style \in {"unset", "there"}
          /\ OwnGuide \in Wanted(disk.sets) => disk.own
       THEN /\ GoOn("narrow")
            /\ guides' = Wanted(disk.sets) \ (IF conf.gate THEN {} ELSE NeedsWriteTools)
            /\ UNCHANGED <<conf, disk, edits, sets, keep, tools>>
       ELSE Exit("traceback")

(* All tools are disabled and the selected ones enabled again; guides stay.*)
Narrow ==
    /\ at = "narrow"
    /\ GoOn("count")
    /\ tools' = IF keep = {All} THEN tools ELSE tools \cap keep
    /\ UNCHANGED <<conf, disk, edits, sets, keep, guides>>

(* A server without tools is not started.                                  *)
Count ==
    /\ at = "count"
    /\ IF tools = {} THEN Exit("exit_2") ELSE Exit("serving")

(* The transport ends; the connection to openITCOCKPIT is closed.          *)
Stop == at = "serving" /\ Exit("exit_0")

Ended == at \in {"exit_0", "exit_2", "traceback"} /\ UNCHANGED startVars

StartNext ==
    \/ \E c \in Credentials : LoadSettings(c)
    \/ LoadFile \/ Probe \/ Validate
    \/ Resolve \/ Register \/ RegisterGuides \/ Narrow \/ Count \/ Stop
    \/ Edit
    \/ Ended

StartSpec == StartInit /\ [][StartNext]_startVars

-----------------------------------------------------------------------------
(* However the file changes during the start, a server has a tool, no      *)
(* write tool and no write workflow unless they are enabled, and the       *)
(* capabilities guide.  If it does not change, the tools are those of the  *)
(* selection the gate lets through, no part of it a name of nothing.       *)
ServesSelection ==
    at = "serving" =>
        /\ tools # {} /\ Always \subseteq guides
        /\ (tools \cap WriteTools # {} \/ guides \cap NeedsWriteTools # {}) => conf.gate
        /\ edits = 0 =>
            /\ conf.selection \subseteq {All} \cup DOMAIN disk.sets \cup Tools
            /\ \A t \in Tools : t \in tools <=>
                 /\ t \in ReadTools \/ conf.gate
                 /\ \/ {All, t} \cap conf.selection # {}
                    \/ \E s \in DOMAIN disk.sets \cap conf.selection : t \in disk.sets[s].tools

(* "A misconfiguration is a user error, not a stack trace": a start nobody *)
(* disturbs ends in a stack trace only if a file is there that cannot be   *)
(* opened, or if a selected set names a guide of the operator's own, which *)
(* nothing looks at before, and that cannot be read.  A file that is not   *)
(* there, is of another shape or names what does not exist is reported.    *)
TracebackOnlyForFiles ==
    (at = "traceback" /\ edits = 0) =>
        \/ ~disk.open
        \/ disk.style = "locked"
        \/ ~disk.own /\ OwnGuide \in Wanted(disk.sets)
=============================================================================
