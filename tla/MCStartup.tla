----------------------------- MODULE MCStartup -------------------------------
(* A word of eight bits with units of 1, 4 and 16.  One plugin with every    *)
(* argument of up to five characters, and two plugins with every pair of     *)
(* file lists, behind configs with and without an envelope.                  *)
EXTENDS Startup, TLC

MCUnit == {"", "B", "KiB", "MiB"}
MCBytes == "" :> 1 @@ "B" :> 1 @@ "KiB" :> 4 @@ "MiB" :> 16

MCCharacter == {Prefix, Suffix, "x", "-", "/", "w", ".", "\\"}

Env(gc, digits, unit, procs) == [gc |-> gc, digits |-> digits, unit |-> unit, procs |-> procs]
Quiet == Env(None, None, "", None)
MCEnvironment ==
    {Env(None, n, unit, None) : n \in -130..130 \union {Off, Unusable}, unit \in MCUnit}
    \union {Env(n, None, "", n) : n \in {None, Off, Unusable, -200, -1, 0, 4, 200}}

Work == <<"/", "w">>
File == <<"x">>
Odd == <<"x", Prefix>>
Names == {<<>>, <<".">>, <<".", ".">>, <<"/">>, <<"\\", "x">>, File, Odd}

Plugin(files, command) == [files |-> files, command |-> command]
Of(plugins) == [workingDir |-> Work, protectPath |-> <<>>, plugins |-> plugins]

Texts == UNION {[1..n -> {Prefix, Suffix, "x", "-"}] : n \in 0..5}
OnePlugin == {Of(<<Plugin(<<File, Odd>>, <<Work, text>>)>>) : text \in Texts}
TwoPlugins ==
    LET lists == {<<>>} \union {<<n>> : n \in Names} \union (Names \X Names)
    IN  {Of(<<Plugin(fs, <<Work>>), Plugin(gs, <<Work>>)>>) : fs, gs \in lists}
Others ==
    {Blank, Unusable, Of(<<>>), Of(<<Plugin(<<>>, <<>>)>>), Of(<<Plugin(<<>>, <<File>>)>>),
     [Of(<<Plugin(<<>>, <<Work>>)>>) EXCEPT !.workingDir = File],
     [Of(<<Plugin(<<>>, <<Work>>)>>) EXCEPT !.protectPath = File],
     [Of(<<Plugin(<<>>, <<Work>>)>>) EXCEPT !.protectPath = Work]}

MCDirectories ==
    {<<>>, <<Absent>>} \union {<<content>> : content \in OnePlugin \union TwoPlugins}
    \union {<<Absent, content>> : content \in Others}
    \union {<<content, Of(<<Plugin(<<>>, <<Work>>)>>)>> : content \in Others}

\* The environment and the envelope do not meet: one of them at a time varies.
MCInit == StartupInit /\ (env = Quiet \/ input = <<>>)
MCSpec == MCInit /\ [][StartupNext]_startupVars
=============================================================================
