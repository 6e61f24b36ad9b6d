------------------------------ MODULE ChildEnv ------------------------------
(***************************************************************************)
(* The part of Fs2a::Child (src/Child.cpp) that prepares a run(): the      *)
(* command, the environment the program sets, and the one that the first   *)
(* run() reads from /etc/profile.env.  What run() does with them is in     *)
(* module Child.  A call that throws changes nothing, but for run().       *)
(***************************************************************************)
EXTENDS Integers, SequencesExt

CONSTANTS Profiles,    \* what may stand in /etc/profile.env: sequences of lines
          Variables,   \* the variables the program sets itself
          EnvValues    \* the values it sets them to: sequences of characters

ASSUME ChildEnvAssumption ==
    /\ Profiles \subseteq Seq([export : BOOLEAN, name : STRING, text : Seq(STRING)])
    /\ Variables \subseteq STRING /\ EnvValues \subseteq Seq(STRING)

VARIABLES profile,   \* the lines of the file
          command,   \* has cmd_ been set?
          env,       \* env_
          triedEnv,  \* triedEnv_
          told,      \* (history) what addEnv() was told
          readable,  \* (history) could the file be opened when it was tried?
          passed     \* (history) is env what the last run() passed on?

childEnvVars == <<profile, command, env, triedEnv, told, readable, passed>>

NoSettings == [x \in {} |-> x]
Setting(v, x) == [w \in {v} |-> x]
Over(f, g) == [v \in DOMAIN f \cup DOMAIN g |-> IF v \in DOMAIN f THEN f[v] ELSE g[v]]

\* A line is of no interest, like a comment, or is "export ", a name, "=" and a
\* text.  With less than ten characters, eight of which are those of export and of
\* the equal sign, it is of no interest either.
Interesting(l) == l.export /\ 8 + Len(l.name) + Len(l.text) >= 10

\* The text without its first and its last character, which are taken for quotes;
\* without a text, substr() throws.
Broken(l) == Interesting(l) /\ l.text = <<>>
Value(l)  == SubSeq(l.text, 2, Len(l.text) - 1)

\* One turn of the loop.  What is set already, by the program or an earlier line,
\* stays.
ReadLine(s, l) ==
    IF s.thrown \/ ~Interesting(l) THEN s
    ELSE IF Broken(l) THEN [s EXCEPT !.thrown = TRUE]
    ELSE [s EXCEPT !.env = Over(@, Setting(l.name, Value(l)))]

readEnv == FoldLeft(ReadLine, [env |-> env, thrown |-> FALSE], profile)

-----------------------------------------------------------------------------
ChildEnvInit == /\ profile \in Profiles
                /\ command = FALSE /\ env = NoSettings /\ triedEnv = FALSE
                /\ told = NoSettings /\ readable = FALSE /\ passed = FALSE

\* command(): a regular file, or it throws.
Command == command' = TRUE /\ UNCHANGED <<profile, env, triedEnv, told, readable, passed>>

AddEnv == /\ \E v \in Variables, x \in EnvValues : env' = Over(Setting(v, x), env) /\ told' = Over(Setting(v, x), told)
          /\ passed' = FALSE
          /\ UNCHANGED <<profile, command, triedEnv, readable>>

\* The first run() with a command reads the file, if it can be opened.  If it cannot,
\* that is logged, which throws if the logger has no destination.  It forks nothing if
\* readEnv_() throws.
FirstRun == /\ command /\ ~triedEnv
            /\ triedEnv' = TRUE
            /\ \/ readable' = FALSE /\ env' = env /\ passed' \in BOOLEAN
               \/ readable' = TRUE /\ env' = readEnv.env /\ passed' = ~readEnv.thrown
            /\ UNCHANGED <<profile, command, told>>

\* No other run() does.
LaterRun == /\ command /\ triedEnv
            /\ passed' = TRUE
            /\ UNCHANGED <<profile, command, env, triedEnv, told, readable>>

ChildEnvNext == Command \/ AddEnv \/ FirstRun \/ LaterRun

-----------------------------------------------------------------------------
ChildEnvTypeOK == /\ profile \in Profiles
                  /\ {command, triedEnv, readable, passed} \subseteq BOOLEAN
                  /\ DOMAIN told \subseteq Variables /\ DOMAIN told \subseteq DOMAIN env
                  /\ readable => triedEnv

\* What the lines of s define: of two lines with one name the first one counts.
Defined(s) ==
    LET lines(n) == {i \in DOMAIN s : Interesting(s[i]) /\ s[i].name = n}
        names    == {s[i].name : i \in {j \in DOMAIN s : Interesting(s[j])}}
    IN  [n \in names |-> Value(s[CHOOSE i \in lines(n) : \A j \in lines(n) : i <= j])]

\* The lines before the first broken one.
Whole(s) == LET broken == {i \in DOMAIN s : Broken(s[i])}
            IN  SubSeq(s, 1, IF broken = {} THEN Len(s) ELSE (CHOOSE i \in broken : \A j \in broken : i <= j) - 1)

\* Every run() passes on what the program has set, and for all other variables
\* what the profile says, whether they were set before the first run() or after
\* it.  If a line of the profile is broken, the first run() throws, and the others
\* pass on what stands before that line; a file that could not be opened at the
\* first run() is not tried again.
EnvironmentComplete ==
    passed => env = Over(told, IF readable THEN Defined(Whole(profile)) ELSE NoSettings)
=============================================================================
