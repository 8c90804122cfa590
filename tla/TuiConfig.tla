------------------------------ MODULE TuiConfig -------------------------------
(***************************************************************************)
(* The settings an OpenCode terminal of Multi-Code starts with               *)
(* (backends/opencodePlugin.ts: opencodeCliConfig): what the builder's own    *)
(* environment says, with Multi-Code's plugin and two keys added.  OpenCode   *)
(* lays them over the builder's cli.json, where a list replaces a list, so    *)
(* what is there is copied in.                                                *)
(*                                                                         *)
(* A settings object is [plugins, keys]: the plugin list, and the keys of     *)
(* one command.  Absent is no such field, Bad one of a wrong shape.           *)
(***************************************************************************)
EXTENDS Sequences, SequencesExt

CONSTANTS Entries,      \* what the builder may list: [package, relative, good]
          Ours,         \* Multi-Code's own entry
          Strokes,      \* what the builder may have bound: sequences of keys
          Stroke,       \* Multi-Code's own
          Absent, Bad,
          Default       \* the keys the command has by itself

VARIABLES inherited,    \* OPENCODE_CLI_CONFIG_CONTENT, Absent, or Bad: not JSON
          cliJson,      \* cli.json, likewise
          offered,      \* there is a plugin to load
          content       \* what the terminal starts with; Absent before
vars == <<inherited, cliJson, offered, content>>

Lists == {Absent, Bad} \cup SeqOf(Entries, 2)
Bindings == {Absent, Bad} \cup Strokes
Settings == {Absent, Bad} \cup [plugins : Lists, keys : Bindings]
Nothing == [plugins |-> Absent, keys |-> Absent]

Init ==
  /\ inherited \in Settings /\ cliJson \in Settings /\ offered \in BOOLEAN
  /\ content = Absent

-----------------------------------------------------------------------------

\* One more stroke, when the binding is one OpenCode accepts.
withStroke(keys) == IF keys = Bad THEN Bad ELSE Append(keys, Stroke)

\* The builder's own: the environment's, else the file's, else the default.
viewKeybinds(config, file) ==
  LET builders == IF config.keys # Absent THEN config.keys
                  ELSE IF file.keys # Absent THEN file.keys ELSE Default
  IN IF withStroke(builders) = Bad THEN withStroke(Default) ELSE withStroke(builders)

\* Against the CLI config's own directory, wherever the list is.
resolveEntry(entry) == [entry EXCEPT !.relative = FALSE]
Resolved(list) == [i \in DOMAIN list |-> resolveEntry(list[i])]

(* Slip: the file's list is left for OpenCode to merge. *)
OnlyTheEnvironments(config, file) == IF config.plugins # Absent THEN config.plugins ELSE <<>>

\* The list to extend: the environment's own replaces the file's.  Bad when it cannot be
\* extended without changing what the builder has.
Theirs(config, file) ==
  IF config.plugins # Absent THEN config.plugins
  ELSE IF file = Absent THEN <<>>
  ELSE IF file = Bad THEN Bad
  ELSE IF file.plugins = Absent THEN <<>> ELSE file.plugins

Merged(config, file) ==
  [config EXCEPT !.keys = viewKeybinds(config, IF file \in {Absent, Bad} THEN Nothing ELSE file)]

Extends(list) == list # Bad /\ \A i \in DOMAIN list : list[i].good

opencodeCliConfig ==
  /\ content = Absent
  /\ content' =
       IF inherited = Bad THEN [value |-> Bad, plugin |-> FALSE]
       ELSE LET config == IF inherited = Absent THEN Nothing ELSE inherited
                merged == Merged(config, cliJson)
                theirs == Theirs(config, cliJson)
            IN IF ~offered \/ ~Extends(theirs) THEN [value |-> merged, plugin |-> FALSE]
               ELSE [value |-> [merged EXCEPT !.plugins =
                                  Append(SelectSeq(Resolved(theirs), LAMBDA e : e # Ours), Ours)],
                     plugin |-> TRUE]
  /\ UNCHANGED <<inherited, cliJson, offered>>

Next == opencodeCliConfig

Spec == Init /\ [][Next]_vars
-----------------------------------------------------------------------------
(* What OpenCode makes of settings and cli.json, with and without Multi-Code's *)

Laid(value, file, field) ==
  IF value \notin {Absent, Bad} /\ value[field] # Absent THEN value[field]
  ELSE IF file \in {Absent, Bad} THEN Absent ELSE file[field]

\* The plugins it loads, in order; Bad when it takes none of what is said.
Loads(value, file) ==
  LET list == Laid(value, file, "plugins")
  IN IF list = Absent THEN <<>> ELSE IF Extends(list) THEN Resolved(list) ELSE Bad

Binds(value, file) ==
  LET keys == Laid(value, file, "keys") IN IF keys \in {Absent, Bad} THEN Default ELSE keys

\* What it loads is known: cli.json can be read, or its list does not count.
Readable == cliJson = Bad => inherited \notin {Absent, Bad} /\ inherited.plugins # Absent

\* The builder's plugins load as they would without Multi-Code, in their order, and its own
\* after them when that can be said safely; their keys keep working, and its stroke is added
\* (opencodeCliConfig, viewKeybinds).
BuildersSettingsKept ==
  content # Absent =>
    LET before == Loads(inherited, cliJson)
        after == Loads(content.value, cliJson)
        others(list) == IF list = Bad THEN Bad ELSE SelectSeq(list, LAMBDA e : e # Ours)
    IN /\ others(after) = others(before)
       /\ content.plugin <=> offered /\ inherited # Bad /\ before # Bad /\ Readable
       /\ content.plugin => Last(after) = Ours
       /\ inherited # Bad => Binds(content.value, cliJson) = Append(Binds(inherited, cliJson), Stroke)
=============================================================================
