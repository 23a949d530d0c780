------------------------------- MODULE Config -------------------------------
(***************************************************************************)
(* The configuration file, the `config` commands that show and switch the  *)
(* context, and what a scan takes from it (internal/cli/root.go,           *)
(* config_show.go, config_view.go, config_get_contexts.go,                 *)
(* config_use_context.go, scan.go).  Every command reads the file twice,   *)
(* for the defaults before it starts and for the contexts once it runs;    *)
(* an editor, or another esops, may rewrite the file at any time.          *)
(***************************************************************************)
EXTENDS Naturals

CONSTANTS
  Contexts,  \* names of contexts
  Broken,    \* those whose secrets cannot be resolved here
  Outputs,   \* values defaults.output may have; "" stands for none
  Flags,     \* values --output may have, all of them valid; "" stands for none
  Levels,    \* values defaults.log_level may have; "" stands for none
  MaxEdits   \* bound on what others do to the file

Implemented == {"table", "json", "yaml", "sarif", "junit", "html"}
ValidLevels == {"debug", "info", "warn", "error"}

ASSUME ContextsAssumption == Broken \subseteq Contexts /\ "" \notin Contexts
ASSUME FlagsAssumption == "" \in Flags /\ Flags \subseteq Implemented \cup {""}

VARIABLES
  file,     \* the file: whether it reads, its contexts, its current one, its defaults
  cmd,      \* the command that runs or ran last, with --context and --output
  pc,       \* "idle" between commands, "before", "action", "switch", "target"
  defaults, \* what the Before hook stashed
  result,   \* what the last command said, see Answer
  said,     \* history: by --context, the context first named since the file last changed
  saidOut,  \* history: by --output, the output `config show` named since then
  calm,     \* history: no edit since the command began
  edits     \* edits by others so far

vars == <<file, cmd, pc, defaults, result, said, saidOut, calm, edits>>

Unsaid == "unsaid"    \* nothing about it
\* What a command says: the context it names, stars or connects to, and the output; and
\* `config show` also what it prints as current_context and as selected_context.
Answer(context, output, header, selected) ==
  [context |-> context, output |-> output, header |-> header, selected |-> selected]
Names(context) == Answer(context, Unsaid, Unsaid, Unsaid)
NoContext == "no context"
Refused == "refused"
Requests == Contexts \cup {"", "unknown"}

NoDefaults == [output |-> "", level |-> ""]
Unreadable == [reads |-> FALSE, contexts |-> {}, current |-> "", defaults |-> NoDefaults]
Readable == [reads : {TRUE}, contexts : SUBSET Contexts, current : Contexts \cup {""},
             defaults : [output : Outputs, level : Levels]]

Commands == [kind : {"show", "view", "get", "use", "scan"}, context : Requests, output : Flags]

\* An edit by others: the file is rewritten, broken or removed, or put right again.
Edit ==
  /\ edits < MaxEdits /\ edits' = edits + 1
  /\ file' \in Readable \cup {Unreadable} /\ file' # file
  /\ said' = [r \in Requests |-> Unsaid] /\ saidOut' = [o \in Flags |-> Unsaid]
  /\ calm' = FALSE
  /\ UNCHANGED <<cmd, pc, defaults, result>>
----------------------------------------------------------------------------
(* The lookups.                                                            *)

\* The flag, else the file, else the built-in.
ResolveSetting(flag, fromConfig, builtin) ==
  IF flag # "" THEN flag ELSE IF fromConfig # "" THEN fromConfig ELSE builtin

\* Variant: the file's default for a scan is not looked at.
ResolveOutput_FlagOnly(flag) == ResolveSetting(flag, "", "table")

\* The format of a scan.
ResolveOutput(flag) ==
  LET picked == ResolveSetting(flag, defaults.output, "table")
  IN  IF picked \in Implemented THEN picked ELSE Refused

\* The formats of the config commands, each with its own idea of what will do.
FormatAccepted(kind, flag) ==
  CASE kind = "show" -> (IF flag # "" THEN flag ELSE defaults.output)
                          \in {"", "text", "table", "yaml", "yml", "json"}
    [] kind = "view" -> flag \in {"", "yaml", "json"}
    [] kind = "get" -> ResolveSetting(flag, defaults.output, "table") \in {"table", "json", "yaml"}
    [] OTHER -> TRUE

\* The context asked for, else the current one.
Selected(request) == IF request # "" THEN request ELSE file.current

\* config.ResolveContext: the context has to be there and its secrets to resolve.
ResolveContext(request) ==
  IF Selected(request) \in file.contexts \ Broken THEN Selected(request) ELSE NoContext

\* Variant: the current context wins over the one asked for.
Marked_CurrentFirst(request) ==
  LET name == IF file.current # "" THEN file.current ELSE request
  IN  IF name \in file.contexts THEN name ELSE NoContext

\* The context a listing marks, or the only one it prints; secrets are not resolved.
Marked(request) == IF Selected(request) \in file.contexts THEN Selected(request) ELSE NoContext
----------------------------------------------------------------------------
(* The commands.                                                           *)

Start(c) ==
  /\ pc = "idle"
  /\ cmd' = c /\ pc' = "before" /\ calm' = TRUE
  /\ result' = Names(Unsaid)
  /\ UNCHANGED <<file, defaults, said, saidOut, edits>>

\* initLogger, the Before hook: a file that does not read is as good as none, a log
\* level that is none ends the command.
InitLogger ==
  /\ pc = "before"
  /\ defaults' = IF file.reads THEN file.defaults ELSE NoDefaults
  /\ pc' = IF ResolveSetting("", defaults'.level, "info") \in ValidLevels THEN "action" ELSE "idle"
  /\ UNCHANGED <<file, cmd, result, said, saidOut, calm, edits>>

\* The command ends with the answer a, its context named for the request r.
Say(r, a) ==
  /\ pc' = "idle" /\ result' = a
  /\ said' = IF said[r] = Unsaid THEN [said EXCEPT ![r] = a.context] ELSE said
  /\ saidOut' = IF a.output # Unsaid /\ calm THEN [saidOut EXCEPT ![cmd.output] = a.output]
                ELSE saidOut
  /\ UNCHANGED <<file, cmd, defaults, calm, edits>>

\* A file that does not read, or a format it cannot render, ends a config command.
ConfigRefused ==
  /\ pc = "action" /\ cmd.kind # "scan"
  /\ ~file.reads \/ ~FormatAccepted(cmd.kind, cmd.output)
  /\ pc' = "idle"
  /\ UNCHANGED <<file, cmd, defaults, result, said, saidOut, calm, edits>>

Acts(kind) == pc = "action" /\ cmd.kind = kind /\ file.reads /\ FormatAccepted(kind, cmd.output)

\* `config show` stars the context asked for and resolves it; its current_context is the
\* file's own, whatever --context says.
ConfigShow ==
  /\ Acts("show")
  /\ Say(cmd.context,
         Answer(Marked(cmd.context), ResolveSetting(cmd.output, defaults.output, "table"),
                file.current, ResolveContext(cmd.context)))

\* `config view` prints one context, and refuses one that is not there.
ConfigView == Acts("view") /\ Say(cmd.context, Names(Marked(cmd.context)))

\* `config get-contexts` stars the current one, whatever --context says.
GetContexts == Acts("get") /\ Say("", Names(Marked("")))

\* `config use-context` looks the name up; it writes nothing when there is nothing
\* to change.
UseContext ==
  /\ Acts("use")
  /\ IF cmd.context \in file.contexts /\ cmd.context # file.current
     THEN pc' = "switch" /\ UNCHANGED <<file, cmd, defaults, result, said, saidOut, calm, edits>>
     ELSE Say("", Names(IF cmd.context \in file.contexts THEN cmd.context ELSE Unsaid))

\* Variant: the switch is announced and not written.
Switched_NotWritten(f, name) == f

Switched(f, name) == [f EXCEPT !.current = name]

\* SetCurrentContext rewrites the file as it is by now, and does not look again whether
\* the context is there.
SetCurrentContext ==
  /\ pc = "switch" /\ pc' = "idle"
  /\ IF file.reads
     THEN /\ file' = Switched(file, cmd.context)
          /\ result' = Names(cmd.context) /\ said' = [said EXCEPT ![""] = cmd.context]
     ELSE UNCHANGED <<file, result, said>>
  /\ UNCHANGED <<cmd, defaults, saidOut, calm, edits>>

\* A scan: the output first, and much later the context.
Scan ==
  /\ pc = "action" /\ cmd.kind = "scan"
  /\ result' = Answer(Unsaid, ResolveOutput(cmd.output), Unsaid, Unsaid)
  /\ pc' = IF result'.output = Refused THEN "idle" ELSE "target"
  /\ UNCHANGED <<file, cmd, defaults, said, saidOut, calm, edits>>

ResolveTargetContext ==
  /\ pc = "target" /\ pc' = "idle"
  /\ result' = [result EXCEPT !.context =
       IF file.reads THEN ResolveContext(cmd.context) ELSE NoContext]
  /\ UNCHANGED <<file, cmd, defaults, said, saidOut, calm, edits>>
----------------------------------------------------------------------------
Init ==
  /\ file \in Readable \cup {Unreadable}
  /\ cmd = [kind |-> "scan", context |-> "", output |-> ""] /\ pc = "idle"
  /\ defaults = NoDefaults /\ result = Names(Unsaid)
  /\ said = [r \in Requests |-> Unsaid] /\ saidOut = [o \in Flags |-> Unsaid]
  /\ calm = TRUE /\ edits = 0

Next ==
  \/ Edit
  \/ \E c \in Commands : Start(c)
  \/ InitLogger \/ ConfigRefused \/ ConfigShow \/ ConfigView \/ GetContexts
  \/ UseContext \/ SetCurrentContext \/ Scan \/ ResolveTargetContext

Spec == Init /\ [][Next]_vars
----------------------------------------------------------------------------
(* Properties.                                                             *)

\* As long as nobody else rewrites the file, the commands agree on the context: the
\* one use-context switched to, also one that was removed from the file after the look
\* (config_use_context.go:71), is the one get-contexts and show star and view prints, and
\* the one the next scan connects to; none takes another, and one of them names none
\* only if it is not there or, for a scan, if its secrets do not resolve. That is what
\* show's selected_context tells from its star. Its current_context is the one
\* starred if --context is not given and that one is there; with --context it is the
\* file's still, of which nothing is claimed here (config_show.go:26 has it overridden).
ContextAsSaid ==
  pc = "idle" /\ result.context # Unsaid =>
    LET s == said[IF cmd.kind \in {"get", "use"} THEN "" ELSE cmd.context]
    IN  /\ \/ s \in {Unsaid, result.context}
           \/ result.context = NoContext /\ s \notin file.contexts
           \/ result.context = NoContext /\ s \in Broken /\ cmd.kind = "scan"
        /\ cmd.kind = "show" =>
             /\ IF result.context \in Broken THEN result.selected = NoContext
                ELSE result.selected = result.context
             /\ cmd.context = "" => result.context \in {result.header, NoContext}

\* `config show` answers "what is doctor about to do?" (config_show.go:43-44): a scan
\* with the same flags renders the output it named, or refuses it if no renderer has
\* that name, although each reads the file on its own.
OutputAsSaid ==
  cmd.kind = "scan" /\ result.output # Unsaid /\ saidOut[cmd.output] # Unsaid =>
    result.output = IF saidOut[cmd.output] \in Implemented THEN saidOut[cmd.output] ELSE Refused
=============================================================================
