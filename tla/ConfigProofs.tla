---------------------------- MODULE ConfigProofs ----------------------------
(***************************************************************************)
(* Proofs about Config for every set of contexts, defaults and flags and   *)
(* any number of edits by others: what the commands announce of the        *)
(* context and the output is what the next scan does.                      *)
(***************************************************************************)
EXTENDS Config, TLAPS

Files == [reads : BOOLEAN, contexts : SUBSET Contexts, current : Contexts \cup {""},
          defaults : [output : Outputs \cup {""}, level : Levels \cup {""}]]

TypeOK ==
  /\ file \in Files
  /\ cmd \in Commands
  /\ pc \in {"idle", "before", "action", "switch", "target"}
  /\ DOMAIN said = Requests /\ DOMAIN saidOut = Flags
  /\ calm \in BOOLEAN

\* What the Before hook makes of the file.
FileDefaults == IF file.reads THEN file.defaults ELSE NoDefaults

\* A command that nobody disturbed knows the file as it is.
CalmInv ==
  /\ calm /\ pc \notin {"idle", "before"} => defaults = FileDefaults
  /\ pc = "switch" => cmd.kind = "use" /\ cmd.context \in Contexts
  /\ pc = "target" => cmd.kind = "scan"
  /\ ~calm => \A o \in Flags : saidOut[o] = Unsaid

\* What has been said since the file last changed is true of it, but for a context that
\* use-context made the current one when it was no longer there.
SaidInv ==
  /\ \A r \in Requests : said[r] # Unsaid =>
       file.reads /\ (said[r] = Marked(r) \/ (r = "" /\ said[r] = file.current))
  /\ \A o \in Flags : saidOut[o] # Unsaid =>
       saidOut[o] = ResolveSetting(o, FileDefaults.output, "table")

\* A command says nothing of the context before it ends.
ResultInv == pc # "idle" => result.context = Unsaid

IInv == TypeOK /\ CalmInv /\ SaidInv /\ ResultInv /\ ContextAsSaid /\ OutputAsSaid
----------------------------------------------------------------------------
\* The context a command speaks of when it names the one for its request.
Asked == IF cmd.kind \in {"get", "use"} THEN "" ELSE cmd.context

\* Every config command that ends well says, of the context asked for, what a listing
\* marks, and `config show` of the output what the file and the flag come to.
ShowAgrees(a) ==
  /\ IF a.context \in Broken THEN a.selected = NoContext ELSE a.selected = a.context
  /\ cmd.context = "" => a.context \in {a.header, NoContext}

Speaks ==
  \E r \in Requests : \E a :
    /\ Say(r, a) /\ r = Asked /\ cmd.kind # "scan"
    /\ a.context # Unsaid => file.reads /\ a.context = Marked(r)
    /\ cmd.kind = "show" => ShowAgrees(a)
    /\ a.output # Unsaid /\ calm =>
         a.output = ResolveSetting(cmd.output, FileDefaults.output, "table")

LEMMA NamesFields == \A c : Names(c).context = c /\ Names(c).output = Unsaid
BY DEF Names, Answer

LEMMA CommandsSpeak ==
  ASSUME IInv, ConfigShow \/ ConfigView \/ GetContexts \/ (UseContext /\ pc' = "idle")
  PROVE  Speaks
<1> USE DEF IInv, Acts
<1>0. cmd.context \in Requests /\ "" \in Requests
  BY DEF TypeOK, Commands, Requests
<1>1. CASE ConfigShow
  <2> DEFINE o == ResolveSetting(cmd.output, defaults.output, "table")
             a == Answer(Marked(cmd.context), o, file.current, ResolveContext(cmd.context))
  <2>1. Say(cmd.context, a) /\ cmd.kind = "show" /\ pc = "action" /\ file.reads
    BY <1>1 DEF ConfigShow
  <2>2. calm => o = ResolveSetting(cmd.output, FileDefaults.output, "table")
    BY <2>1 DEF CalmInv
  <2>3. /\ a.context = Marked(cmd.context) /\ a.output = o
        /\ a.header = file.current /\ a.selected = ResolveContext(cmd.context)
    BY DEF Answer
  <2>4. ShowAgrees(a)
    BY <2>3 DEF ShowAgrees, Marked, ResolveContext, Selected
  <2> HIDE DEF a, o
  <2> QED
    BY <1>0, <2>1, <2>2, <2>3, <2>4 DEF Speaks, Asked
<1>2. CASE ConfigView
  <2>1. Say(cmd.context, Names(Marked(cmd.context))) /\ cmd.kind = "view" /\ file.reads
    BY <1>2 DEF ConfigView
  <2> QED
    BY <1>0, <2>1, NamesFields DEF Speaks, Asked
<1>3. CASE GetContexts
  <2>1. Say("", Names(Marked(""))) /\ cmd.kind = "get" /\ file.reads
    BY <1>3 DEF GetContexts
  <2> QED
    BY <1>0, <2>1, NamesFields DEF Speaks, Asked
<1>4. CASE UseContext /\ pc' = "idle"
  <2>1. /\ Say("", Names(IF cmd.context \in file.contexts THEN cmd.context ELSE Unsaid))
        /\ cmd.kind = "use" /\ file.reads
        /\ cmd.context \in file.contexts => cmd.context = file.current
    BY <1>4 DEF UseContext
  <2>2. cmd.context \in file.contexts => cmd.context = Marked("")
    BY <2>1 DEF Marked, Selected
  <2> QED
    BY <1>0, <2>1, <2>2, NamesFields DEF Speaks, Asked
<1> QED
  BY <1>1, <1>2, <1>3, <1>4

\* A command that is through, or breaks off, without a word.
Silent ==
  /\ UNCHANGED <<file, cmd, result, said, saidOut, calm>>
  /\ result.context = Unsaid

\* Next, by what a step does to the file and to what is said of it.
LEMMA Steps ==
  ASSUME IInv, [Next]_vars
  PROVE  \/ Edit \/ \E c \in Commands : Start(c)
         \/ InitLogger \/ Speaks \/ SetCurrentContext \/ Scan \/ ResolveTargetContext
         \/ Silent /\ UNCHANGED defaults /\ pc = "action" /\ pc' = "idle"
         \/ Silent /\ UNCHANGED defaults /\ pc = "action" /\ pc' = "switch" /\ UseContext
         \/ UNCHANGED vars
<1>1. ConfigRefused => Silent /\ UNCHANGED defaults /\ pc = "action" /\ pc' = "idle"
  BY DEF ConfigRefused, Silent, IInv, ResultInv
<1>2. UseContext =>
        pc' = "idle" \/ (Silent /\ UNCHANGED defaults /\ pc = "action" /\ pc' = "switch")
  BY DEF UseContext, Acts, Say, Silent, IInv, ResultInv
<1> QED
  BY <1>1, <1>2, CommandsSpeak DEF Next
----------------------------------------------------------------------------
\* Any file an editor can leave is a file.
LEMMA FileTypes == \A f \in Readable \cup {Unreadable} : f \in Files
<1> DEFINE D == [output : Outputs \cup {""}, level : Levels \cup {""}]
<1>1. ASSUME NEW f \in Readable PROVE f \in Files
  <2>1. f.defaults \in D
    BY DEF Readable
  <2>2. f = [reads |-> f.reads, contexts |-> f.contexts, current |-> f.current, defaults |-> f.defaults]
    BY DEF Readable
  <2>3. f.reads \in BOOLEAN
    BY DEF Readable
  <2>4. f.contexts \in SUBSET Contexts /\ f.current \in Contexts \cup {""}
    BY DEF Readable
  <2> HIDE DEF D
  <2>5. [reads |-> f.reads, contexts |-> f.contexts, current |-> f.current, defaults |-> f.defaults]
          \in [reads : BOOLEAN, contexts : SUBSET Contexts, current : Contexts \cup {""}, defaults : D]
    BY <2>1, <2>3, <2>4, Zenon
  <2> QED
    BY <2>2, <2>5 DEF Files, D
<1>2. Unreadable \in Files
  <2>1. NoDefaults \in D
    BY DEF NoDefaults
  <2> QED
    BY <2>1 DEF Unreadable, Files
<1> QED
  BY <1>1, <1>2

LEMMA InitInv == Init => IInv
<1> SUFFICES ASSUME Init PROVE IInv
  OBVIOUS
<1>1. TypeOK
  <2>1. file \in Files
    BY FileTypes DEF Init
  <2>2. cmd \in Commands
    BY FlagsAssumption DEF Init, Commands, Requests
  <2> QED
    BY <2>1, <2>2 DEF Init, TypeOK
<1> QED
  BY <1>1 DEF Init, IInv, CalmInv, SaidInv, ResultInv, ContextAsSaid, OutputAsSaid,
   Requests, Names, Answer

LEMMA NextType == IInv /\ [Next]_vars => TypeOK'
<1> SUFFICES ASSUME IInv, [Next]_vars PROVE TypeOK'
  OBVIOUS
<1> USE DEF IInv, TypeOK
<1>1. CASE Edit
  <2>1. file' \in Files
    BY <1>1, FileTypes DEF Edit
  <2> QED
    BY <1>1, <2>1 DEF Edit
<1>2. ASSUME NEW c \in Commands, Start(c) PROVE TypeOK'
  BY <1>2 DEF Start
<1>3. CASE InitLogger
  BY <1>3 DEF InitLogger
<1>4. CASE Speaks
  BY <1>4 DEF Speaks, Say
<1>5. CASE SetCurrentContext
  <2>1. file' \in Files
    BY <1>5 DEF SetCurrentContext, Switched, Files, CalmInv
  <2> QED
    BY <1>5, <2>1 DEF SetCurrentContext
<1>6. CASE Scan \/ ResolveTargetContext
  BY <1>6 DEF Scan, ResolveTargetContext
<1>7. CASE Silent /\ UNCHANGED defaults /\ pc' \in {"idle", "switch"}
  BY <1>7 DEF Silent
<1>8. CASE UNCHANGED vars
  BY <1>8 DEF vars
<1> QED
  BY <1>1, <1>2, <1>3, <1>4, <1>5, <1>6, <1>7, <1>8, Steps

LEMMA NextCalm == IInv /\ [Next]_vars => CalmInv'
<1> SUFFICES ASSUME IInv, [Next]_vars PROVE CalmInv'
  OBVIOUS
<1> USE DEF IInv, CalmInv
<1>1. CASE Edit
  BY <1>1 DEF Edit
<1>2. ASSUME NEW c \in Commands, Start(c) PROVE CalmInv'
  BY <1>2 DEF Start
<1>3. CASE InitLogger
  BY <1>3 DEF InitLogger, FileDefaults
<1>4. CASE Speaks
  BY <1>4 DEF Speaks, Say
<1>5. CASE SetCurrentContext
  BY <1>5 DEF SetCurrentContext
<1>6. CASE Scan \/ ResolveTargetContext
  BY <1>6 DEF Scan, ResolveTargetContext, FileDefaults
<1>7. CASE Silent /\ UNCHANGED defaults /\ pc' = "idle"
  BY <1>7 DEF Silent
<1>8. CASE Silent /\ UNCHANGED defaults /\ pc = "action" /\ pc' = "switch" /\ UseContext
  <2>1. cmd.kind = "use" /\ file.reads /\ cmd.context \in file.contexts
    BY <1>8 DEF UseContext, Acts, Say
  <2>2. cmd.context \in Contexts
    BY <2>1 DEF TypeOK, Files
  <2> QED
    BY <1>8, <2>1, <2>2 DEF Silent, FileDefaults
<1>9. CASE UNCHANGED vars
  BY <1>9 DEF vars, FileDefaults
<1> QED
  BY <1>1, <1>2, <1>3, <1>4, <1>5, <1>6, <1>7, <1>8, <1>9, Steps

LEMMA NextSaid == IInv /\ [Next]_vars => SaidInv'
<1> SUFFICES ASSUME IInv, [Next]_vars PROVE SaidInv'
  OBVIOUS
<1> USE DEF IInv
<1>0. UNCHANGED file => FileDefaults' = FileDefaults /\ \A r : Marked(r)' = Marked(r)
  BY DEF FileDefaults, Marked, Selected
<1>1. CASE Edit
  BY <1>1 DEF Edit, SaidInv
<1>2. CASE UNCHANGED <<file, said, saidOut>>
  BY <1>0, <1>2 DEF SaidInv
<1>3. CASE Speaks
  <2>1. PICK r \in Requests : \E a :
          /\ Say(r, a) /\ r = Asked
          /\ a.context # Unsaid => file.reads /\ a.context = Marked(r)
          /\ a.output # Unsaid /\ calm =>
               a.output = ResolveSetting(cmd.output, FileDefaults.output, "table")
    BY <1>3 DEF Speaks
  <2>2. PICK a :
          /\ Say(r, a) /\ r = Asked
          /\ a.context # Unsaid => file.reads /\ a.context = Marked(r)
          /\ a.output # Unsaid /\ calm =>
               a.output = ResolveSetting(cmd.output, FileDefaults.output, "table")
    BY <2>1
  <2>3. ASSUME NEW q \in Requests, said'[q] # Unsaid
        PROVE  file.reads /\ (said'[q] = Marked(q) \/ (q = "" /\ said'[q] = file.current))
    BY <2>2, <2>3 DEF Say, SaidInv, TypeOK
  <2>4. ASSUME NEW o \in Flags, saidOut'[o] # Unsaid
        PROVE  saidOut'[o] = ResolveSetting(o, FileDefaults.output, "table")
    BY <2>2, <2>4 DEF Say, SaidInv, TypeOK
  <2>5. UNCHANGED file
    BY <2>2 DEF Say
  <2> QED
    BY <1>0, <2>3, <2>4, <2>5 DEF SaidInv
<1>4. CASE SetCurrentContext
  <2>1. CASE file.reads
    <3>1. /\ file' = [file EXCEPT !.current = cmd.context]
          /\ said' = [said EXCEPT ![""] = cmd.context]
          /\ UNCHANGED saidOut
      BY <1>4, <2>1 DEF SetCurrentContext, Switched
    <3>2. /\ file'.reads = file.reads /\ file'.contexts = file.contexts
          /\ file'.current = cmd.context /\ file'.defaults = file.defaults
      BY <3>1 DEF TypeOK, Files
    <3>3. FileDefaults' = FileDefaults
      BY <3>2 DEF FileDefaults
    <3>4. \A r \in Requests : r # "" => Marked(r)' = Marked(r) /\ said'[r] = said[r]
      BY <3>1, <3>2 DEF Marked, Selected, TypeOK
    <3>5. said'[""] = file'.current
      BY <3>1, <3>2 DEF TypeOK, Requests
    <3>6. ASSUME NEW r \in Requests, said'[r] # Unsaid
          PROVE  said'[r] = Marked(r)' \/ (r = "" /\ said'[r] = file'.current)
      <4>1. CASE r = ""
        BY <3>5, <4>1
      <4>2. CASE r # ""
        BY <3>4, <3>6, <4>2 DEF SaidInv
      <4> QED
        BY <4>1, <4>2
    <3>7. ASSUME NEW o \in Flags, saidOut'[o] # Unsaid
          PROVE  saidOut'[o] = ResolveSetting(o, FileDefaults'.output, "table")
      BY <3>1, <3>3, <3>7 DEF SaidInv
    <3> QED
      BY <2>1, <3>2, <3>6, <3>7 DEF SaidInv
  <2> QED
    BY <1>0, <1>4, <2>1 DEF SetCurrentContext, SaidInv
<1> QED
  BY <1>1, <1>2, <1>3, <1>4, Steps DEF Start, InitLogger, Scan, ResolveTargetContext, Silent, vars

LEMMA NextResult == IInv /\ [Next]_vars => ResultInv'
<1> SUFFICES ASSUME IInv, [Next]_vars PROVE ResultInv'
  OBVIOUS
<1> USE DEF IInv, ResultInv
<1>1. CASE pc' = "idle"
  BY <1>1
<1>2. CASE UNCHANGED <<pc, result>>
  BY <1>2
<1>3. CASE Scan
  BY <1>3 DEF Scan, Answer
<1>4. ASSUME NEW c \in Commands, Start(c) PROVE ResultInv'
  BY <1>4, NamesFields DEF Start
<1>5. CASE Silent
  BY <1>5 DEF Silent
<1>6. CASE InitLogger
  BY <1>6 DEF InitLogger
<1>7. Edit \/ UNCHANGED vars => UNCHANGED <<pc, result>>
  BY DEF Edit, vars
<1>8. Speaks \/ SetCurrentContext \/ ResolveTargetContext => pc' = "idle"
  BY DEF Speaks, Say, SetCurrentContext, ResolveTargetContext
<1> QED
  BY <1>1, <1>2, <1>3, <1>4, <1>5, <1>6, <1>7, <1>8, Steps

LEMMA NextContext == IInv /\ [Next]_vars => ContextAsSaid'
<1> SUFFICES ASSUME IInv, [Next]_vars PROVE ContextAsSaid'
  OBVIOUS
<1> USE DEF IInv
<1>0. cmd.context \in Requests /\ "" \in Requests
  BY DEF TypeOK, Commands, Requests
<1>1. CASE Edit
  BY <1>0, <1>1 DEF Edit, ContextAsSaid
<1>2. CASE pc' # "idle" \/ result'.context = Unsaid
  BY <1>2 DEF ContextAsSaid
<1>3. CASE Speaks
  <2>1. PICK r \in Requests : \E a :
          /\ Say(r, a) /\ r = Asked /\ cmd.kind # "scan"
          /\ a.context # Unsaid => file.reads /\ a.context = Marked(r)
          /\ cmd.kind = "show" => ShowAgrees(a)
    BY <1>3 DEF Speaks
  <2>2. /\ result'.context = Unsaid \/ result'.context = Marked(r)
        /\ said'[r] = IF said[r] = Unsaid THEN result'.context ELSE said[r]
    BY <2>1 DEF Say, TypeOK
  <2>3. r = Asked' /\ UNCHANGED <<cmd, file>>
    BY <2>1 DEF Say, Asked
  <2>4. \/ said[r] \in {Unsaid, Marked(r)}
        \/ Marked(r) = NoContext /\ said[r] \notin file.contexts
    <3>1. CASE r = "" /\ said[r] = file.current
      BY <3>1 DEF Marked, Selected
    <3>2. CASE said[r] \in {Unsaid, Marked(r)}
      BY <3>2
    <3> QED
      BY <3>1, <3>2 DEF SaidInv
  <2>5. \/ result'.context = Unsaid \/ said'[r] \in {Unsaid, result'.context}
        \/ result'.context = NoContext /\ said'[r] \notin file'.contexts
    BY <2>2, <2>3, <2>4
  <2>6. cmd.kind = "show" =>
          /\ IF result'.context \in Broken THEN result'.selected = NoContext
             ELSE result'.selected = result'.context
          /\ cmd.context = "" => result'.context \in {result'.header, NoContext}
    BY <2>1 DEF Say, ShowAgrees
  <2> QED
    BY <2>3, <2>5, <2>6 DEF ContextAsSaid, Asked
<1>4. CASE SetCurrentContext /\ file.reads
  <2>1. cmd.kind = "use" /\ UNCHANGED cmd
    BY <1>4 DEF SetCurrentContext, CalmInv
  <2>2. said' = [said EXCEPT ![""] = cmd.context] /\ result' = Names(cmd.context)
    BY <1>4 DEF SetCurrentContext
  <2>3. said'[""] = cmd.context /\ result'.context = cmd.context
    BY <1>0, <2>2, NamesFields DEF TypeOK
  <2> QED
    BY <2>1, <2>3 DEF ContextAsSaid
<1>5. CASE SetCurrentContext /\ ~file.reads
  BY <1>2, <1>5 DEF SetCurrentContext, ResultInv
<1>6. CASE ResolveTargetContext
  <2>1. /\ cmd.kind = "scan" /\ UNCHANGED <<file, cmd, said>>
        /\ result'.context = IF file.reads THEN ResolveContext(cmd.context) ELSE NoContext
    BY <1>6 DEF ResolveTargetContext, CalmInv
  <2>2. LET s == said[cmd.context]
        IN  \/ s \in {Unsaid, result'.context}
            \/ result'.context = NoContext /\ (s \notin file.contexts \/ s \in Broken)
    BY <1>0, <2>1 DEF SaidInv, ResolveContext, Marked, Selected
  <2> QED
    BY <2>1, <2>2 DEF ContextAsSaid
<1>7. CASE UNCHANGED vars
  BY <1>7 DEF vars, ContextAsSaid
<1>8. ASSUME NEW c \in Commands, Start(c) PROVE result'.context = Unsaid
  BY <1>8, NamesFields DEF Start
<1>9. InitLogger \/ Scan \/ Silent => result'.context = Unsaid
  <2>1. InitLogger => pc = "before" /\ UNCHANGED result
    BY DEF InitLogger
  <2>2. pc = "before" => result.context = Unsaid
    BY DEF ResultInv
  <2>5. Silent => result'.context = Unsaid
    BY DEF Silent
  <2>4. Scan => result'.context = Unsaid
    BY DEF Scan, Answer
  <2> QED
    BY <2>1, <2>2, <2>4, <2>5
<1> QED
  BY <1>1, <1>2, <1>3, <1>4, <1>5, <1>6, <1>7, <1>8, <1>9, Steps

\* What a scan renders for a flag, in terms of what the file and the flag come to.
Renders(o) ==
  LET picked == ResolveSetting(o, FileDefaults.output, "table")
  IN  IF picked \in Implemented THEN picked ELSE Refused

LEMMA NextOutput == IInv /\ [Next]_vars => OutputAsSaid'
<1> SUFFICES ASSUME IInv, [Next]_vars PROVE OutputAsSaid'
  OBVIOUS
<1> USE DEF IInv
<1>0. cmd.output \in Flags
  BY DEF TypeOK, Commands
<1>1. CASE Edit
  BY <1>0, <1>1 DEF Edit, OutputAsSaid
<1>2. CASE cmd'.kind # "scan" \/ result'.output = Unsaid
  BY <1>2 DEF OutputAsSaid
<1>3. CASE Scan
  <2>1. /\ result'.output = ResolveOutput(cmd.output) /\ UNCHANGED <<cmd, saidOut>>
        /\ pc = "action"
    BY <1>3 DEF Scan, Answer
  <2>2. CASE calm
    <3>1. ResolveOutput(cmd.output) = Renders(cmd.output)
      BY <2>1, <2>2 DEF ResolveOutput, Renders, CalmInv
    <3> QED
      BY <1>0, <2>1, <3>1 DEF OutputAsSaid, Renders, SaidInv
  <2>3. CASE ~calm
    BY <1>0, <2>1, <2>3 DEF OutputAsSaid, CalmInv
  <2> QED
    BY <2>2, <2>3 DEF TypeOK
<1>4. CASE UNCHANGED <<cmd, saidOut>> /\ result'.output = result.output
  BY <1>4 DEF OutputAsSaid
<1>5. CASE ResolveTargetContext
  BY <1>4, <1>5 DEF ResolveTargetContext
<1>6. CASE SetCurrentContext
  BY <1>2, <1>6 DEF SetCurrentContext, CalmInv
<1>7. CASE Speaks
  BY <1>2, <1>7 DEF Speaks, Say
<1>8. ASSUME NEW c \in Commands, Start(c) PROVE result'.output = Unsaid
  BY <1>8, NamesFields DEF Start
<1>9. InitLogger \/ Silent \/ UNCHANGED vars => UNCHANGED <<cmd, saidOut, result>>
  BY DEF InitLogger, Silent, vars
<1> QED
  BY <1>1, <1>2, <1>3, <1>4, <1>5, <1>6, <1>7, <1>8, <1>9, Steps
----------------------------------------------------------------------------
LEMMA Inductive == Spec => []IInv
<1>1. IInv /\ [Next]_vars => IInv'
  BY NextType, NextCalm, NextSaid, NextResult, NextContext, NextOutput DEF IInv
<1> QED
  BY <1>1, InitInv, PTL DEF Spec

\* As long as nobody else rewrites the file, the commands agree on the context they name,
\* star or switch to, and the scan connects to that one or to none; the current_context
\* that show prints under --context is not among them.
THEOREM ContextAgreement == Spec => []ContextAsSaid
BY Inductive, PTL DEF IInv

\* A scan renders the output `config show` named for the same flag.
THEOREM OutputAgreement == Spec => []OutputAsSaid
BY Inductive, PTL DEF IInv
=============================================================================
