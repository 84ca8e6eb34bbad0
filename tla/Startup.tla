------------------------------- MODULE Startup -------------------------------
(***************************************************************************)
(* What a standalone core makes of its inputs: the limits of its           *)
(* environment (environment/environment.go, runtime.go), and the plugin    *)
(* envelope beside its configs, from the file to the command lines         *)
(* (ReadEnvelope of native/pluginpool/pool.go; Parse, validate and expand  *)
(* of options.go; prepare of host.go).                                     *)
(*                                                                         *)
(* Texts are sequences of what the code tells apart: the token that opens  *)
(* a file reference, the one that closes it, separators, dots and other    *)
(* characters.                                                             *)
(***************************************************************************)
EXTENDS RuntimeLimits, Sequences, SequencesExt, FiniteSets

CONSTANTS
    Character,    \* what a text is made of
    Environment,  \* the three variables; None when one is not set
    Off,          \* a variable that is "off" (the empty GOMEMLIMIT is, too)
    Directories,  \* for each config, in order, what plugin.json beside it is
    Absent, Blank, Unusable   \* unusable: it cannot be read or decoded

Prefix == "${file:"
Suffix == "}"

Text == Seq(Character)

Envelope ==
    [workingDir: Text, protectPath: Text, plugins: Seq([files: Seq(Text), command: Seq(Text)])]

ASSUME StartupAssumption ==
    /\ "/" \in Character
    /\ \A e \in Environment : e.digits \notin {None, Off} => e.unit \in Unit
    /\ Directories \subseteq Seq({Absent, Blank, Unusable} \union Envelope)

VARIABLES
    env,      \* the environment of the process
    limits,   \* what the Go runtime was told
    input,    \* what the configs' directories hold
    at,       \* the step, or how it ended
    options,  \* the decoded envelope
    names,    \* validate: the file names seen so far
    index,    \* validate, startMissing: the plugin
    value,    \* expand: what is left of the argument
    built,    \* expand: what was made of the rest
    cmd       \* prepare: the arguments expanded so far

startupVars == <<env, limits, input, at, options, names, index, value, built, cmd>>

StartupInit ==
    /\ env \in Environment
    /\ limits = [gc |-> None, memory |-> None, procs |-> None]
    /\ input \in Directories
    /\ at = "boot"
    /\ options = None
    /\ names = {}
    /\ index = 1
    /\ value = <<>>
    /\ built = <<>>
    /\ cmd = <<>>

Goto(place) ==
    at' = place /\ UNCHANGED <<env, limits, input, options, names, index, value, built, cmd>>

PluginAt(i) == options.plugins[i]
FilesOf(spec) == ToSet(spec.files)

-----------------------------------------------------------------------------
(* The init function of package environment.                               *)

\* A variable that is not set leaves what the runtime has, as does a
\* GOMAXPROCS that is not a positive number.
Limits ==
    LET percent == ParseInt(env.gc, MaxInt32)
        procs == ParseInt(env.procs, MaxInt32)
    IN  [gc |-> IF env.gc = None THEN None
                ELSE IF env.gc = Off THEN -1
                ELSE IF percent = None THEN 100 ELSE percent,
         memory |-> IF env.digits = None THEN None
                    ELSE IF env.digits = Off THEN MaxInt
                    ELSE ParseMemoryLimit(env.digits, env.unit),
         procs |-> IF procs # None /\ procs > 0 THEN procs ELSE None]

\* It runs before anything else of the core; a malformed memory limit panics.
Boot ==
    /\ at = "boot"
    /\ limits' = Limits
    /\ at' = IF env.digits # None /\ Limits.memory = None THEN "panicked" ELSE "read"
    /\ UNCHANGED <<env, input, options, names, index, value, built, cmd>>

-----------------------------------------------------------------------------
(* Reading and validating the envelope.                                    *)

\* The first config that has an envelope decides, whatever is wrong with it.
Beside == SelectInSeq(input, LAMBDA content : content # Absent)

Read ==
    /\ at = "read"
    /\ IF Beside = 0 THEN Goto("none")
       ELSE LET content == input[Beside]
            IN  \/ content = Blank /\ Goto("none")
                \/ content = Unusable /\ Goto("rejected")
                \/ /\ content \notin {Blank, Unusable}
                   /\ IF content.plugins = <<>> THEN Goto("none")
                      ELSE /\ options' = content
                           /\ at' = "validate"
                           /\ UNCHANGED <<env, limits, input, names, index, value, built, cmd>>

IsAbs(text) == text # <<>> /\ text[1] = "/"

ValidName(name) ==
    /\ name \notin {<<>>, <<".">>, <<".", ".">>}
    /\ ~Contains(name, "/") /\ ~Contains(name, "\\")

\* Mutant: only the names of one plugin must differ.
AcceptableAlone(spec) ==
    /\ spec.command # <<>> /\ IsAbs(spec.command[1])
    /\ \A name \in FilesOf(spec) : ValidName(name)
    /\ IsInjective(spec.files)

\* The directory is shared: no name may come twice, in one plugin or in two.
Acceptable(spec) ==
    /\ spec.command # <<>> /\ IsAbs(spec.command[1])
    /\ \A name \in FilesOf(spec) : ValidName(name) /\ name \notin names
    /\ IsInjective(spec.files)

\* One iteration of validate; the directories are looked at before the first.
Validate ==
    /\ at = "validate"
    /\ IF \/ ~IsAbs(options.workingDir)
          \/ options.protectPath # <<>> /\ ~IsAbs(options.protectPath)
          \/ ~Acceptable(PluginAt(index))
       THEN Goto("rejected")
       ELSE /\ names' = names \union FilesOf(PluginAt(index))
            /\ IF index < Len(options.plugins)
               THEN at' = at /\ index' = index + 1 /\ value' = value
               ELSE at' = "expand" /\ index' = 1 /\ value' = PluginAt(1).command[1]
            /\ UNCHANGED <<env, limits, input, options, built, cmd>>

-----------------------------------------------------------------------------
(* Expanding the command of each plugin.                                   *)

\* strings.Cut: where the token is first, or 0.
Cut(text, token) == SelectInSeq(text, LAMBDA c : c = token)
Before(text, i) == SubSeq(text, 1, i - 1)
After(text, i) == SubSeq(text, i + 1, Len(text))

PathOf(name) == options.workingDir \o <<"/">> \o name

\* Mutant: an expanded path is searched for references, too.
ReferenceAgain ==
    /\ at = "expand" /\ Cut(value, Prefix) # 0
    /\ LET start == Cut(value, Prefix)
           rest == After(value, start)
           end == Cut(rest, Suffix)
       IN  IF end = 0 \/ Before(rest, end) \notin FilesOf(PluginAt(index))
           THEN Goto("failed")
           ELSE /\ built' = built \o Before(value, start)
                /\ value' = PathOf(Before(rest, end)) \o After(rest, end)
                /\ UNCHANGED <<env, limits, input, at, options, names, index, cmd>>

\* One iteration of the loop of expand: up to and over the next reference.
Reference ==
    /\ at = "expand" /\ Cut(value, Prefix) # 0
    /\ LET start == Cut(value, Prefix)
           rest == After(value, start)
           end == Cut(rest, Suffix)
       IN  IF end = 0 \/ Before(rest, end) \notin FilesOf(PluginAt(index))
           THEN Goto("failed")
           ELSE /\ built' = built \o Before(value, start) \o PathOf(Before(rest, end))
                /\ value' = After(rest, end)
                /\ UNCHANGED <<env, limits, input, at, options, names, index, cmd>>

\* No further reference: the argument is complete.
Argument ==
    /\ at = "expand" /\ Cut(value, Prefix) = 0
    /\ cmd' = Append(cmd, built \o value)
    /\ built' = <<>>
    /\ IF Len(cmd') < Len(PluginAt(index).command)
       THEN at' = at /\ value' = PluginAt(index).command[Len(cmd') + 1]
       ELSE at' = "prepared" /\ value' = <<>>
    /\ UNCHANGED <<env, limits, input, options, names, index>>

\* The plugin is started, and the next one prepared.
NextPlugin ==
    /\ at = "prepared"
    /\ IF index < Len(options.plugins)
       THEN /\ at' = "expand" /\ index' = index + 1 /\ cmd' = <<>>
            /\ value' = PluginAt(index + 1).command[1]
            /\ UNCHANGED <<env, limits, input, options, names, built>>
       ELSE Goto("started")

StartupNext == Boot \/ Read \/ Validate \/ Reference \/ Argument \/ NextPlugin

StartupSpec == StartupInit /\ [][StartupNext]_startupVars

-----------------------------------------------------------------------------
(* Properties.                                                             *)

(***************************************************************************)
(* runtime.go:55: whatever the number and the unit, the runtime gets the   *)
(* limit that was asked for, and a limit that no word holds stops the core *)
(* rather than wrap around to a small one.                                 *)
(***************************************************************************)
LimitExact ==
    at # "boot" /\ env.digits \notin {None, Off} =>
        IF at = "panicked" THEN Meant(env.digits, env.unit) = None
        ELSE limits.memory = Meant(env.digits, env.unit) /\ limits.memory # None

(***************************************************************************)
(* options.go:76: what validate lets through never makes two plugins write *)
(* or remove the same file, nor one outside of the working directory; this *)
(* is what PluginHost assumes of an envelope.                              *)
(***************************************************************************)
FilesStayApart ==
    at \in {"expand", "prepared", "started"} =>
        LET plugins == options.plugins
            all == UNION {FilesOf(plugins[i]) : i \in 1..Len(plugins)}
        IN  /\ \A i, j \in 1..Len(plugins) :
                   i # j => FilesOf(plugins[i]) \intersect FilesOf(plugins[j]) = {}
            /\ \A name \in all : /\ ~Contains(name, "/") /\ ~Contains(name, "\\")
                                 /\ name \notin {<<>>, <<".">>, <<".", ".">>}

(***************************************************************************)
(* options.go:109: what an argument means, stated without a loop.  A       *)
(* reference starts at a prefix before which every other prefix has been   *)
(* closed, and goes on to the next suffix; it stands for its file's path,  *)
(* and every other character for itself.                                   *)
(***************************************************************************)
Starts(text) ==
    {i \in 1..Len(text) :
        /\ text[i] = Prefix
        /\ \A j \in 1..i - 1 : text[j] = Prefix => \E k \in j..i : text[k] = Suffix}

EndOf(text, i) ==
    IF Suffix \in ToSet(After(text, i)) THEN i + Cut(After(text, i), Suffix) ELSE 0

NameAt(text, i) == SubSeq(text, i + 1, EndOf(text, i) - 1)

Piece(text, i) ==
    IF i \in Starts(text) THEN PathOf(NameAt(text, i))
    ELSE IF \E s \in Starts(text) : s < i /\ i <= EndOf(text, s) THEN <<>>
    ELSE <<text[i]>>

Expansion(text, files) ==
    IF \E i \in Starts(text) : EndOf(text, i) = 0 \/ NameAt(text, i) \notin files
    THEN None
    ELSE FlattenSeq([i \in 1..Len(text) |-> Piece(text, i)])

(***************************************************************************)
(* options.go:109: every argument a plugin is started with is what its     *)
(* envelope means, and a start fails on the first that means nothing.      *)
(***************************************************************************)
ExpandsReferences ==
    options # None /\ at \in {"expand", "prepared", "started", "failed"} =>
        LET spec == PluginAt(index)
            meant(i) == Expansion(spec.command[i], FilesOf(spec))
        IN  /\ \A i \in 1..Len(cmd) : cmd[i] = meant(i)
            /\ at = "failed" => meant(Len(cmd) + 1) = None
=============================================================================
