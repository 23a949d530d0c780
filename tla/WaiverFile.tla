----------------------------- MODULE WaiverFile -----------------------------
(***************************************************************************)
(* How a scan comes by its waivers (internal/cli/scan.go, loadWaivers, and *)
(* internal/waivers): the file of --waivers, or the first of the default   *)
(* ones that Stat finds, is read and parsed entry by entry, and what it    *)
(* says of deprecated aliases is moved to the rules they stand for.  The   *)
(* operator's tools replace and remove the files meanwhile.  Triage goes   *)
(* on from there with the scan's set.                                      *)
(***************************************************************************)
EXTENDS Integers, Sequences, FiniteSets

CONSTANTS
  Defaults,  \* how many default paths there are; path 0 is that of --waivers
  Contents,  \* what a file may hold, sequences of entries [id, justified, expiry]
  NoId,      \* the empty rule id
  Aliases,   \* the alias index of the catalog: alias -> rule id
  MaxSaves   \* bound on what happens to the files meanwhile

\* The catalog has been validated: no rule has a name that another one has.
ASSUME AliasAssumption == \A a \in DOMAIN Aliases : Aliases[a] \notin DOMAIN Aliases
ASSUME DefaultsAssumption == Defaults \in Nat \ {0}
ASSUME ContentsAssumption == \A c \in Contents : c \in Seq({c[k] : k \in DOMAIN c})

VARIABLES
  files,    \* files[p]: Missing, Unsearchable, Unreadable, Malformed or a text with entries
  flag,     \* --waivers is set
  pc,       \* "start", "search", "read", "parse", "resolve", "ready", "failed"
  at,       \* the path looked at
  content,  \* what was read from it
  n,        \* the next entry
  problems, \* the entries something is wrong with
  set,      \* byRuleID: id -> entry of the content
  todo,     \* the aliases ResolveAliases has not come to
  error,    \* 0, or the exit code of the error
  present,  \* history: paths where Stat has found a file since the start
  saves     \* what has happened to the files (counted only for the bound)

loadVars == <<files, flag, pc, at, content, n, problems, set, todo, error, present, saves>>
world == <<files, flag, present, saves>>

Paths == 0 .. Defaults
Missing == [state |-> "missing"]
\* There may be a file, in a directory that may not be searched.
Unsearchable == [state |-> "unsearchable"]
Unreadable == [state |-> "unreadable"]
Malformed == [state |-> "malformed"]
States == {Missing, Unsearchable, Unreadable, Malformed} \cup [state : {"text"}, entries : Contents]
\* What os.Stat answers without an error.
Found(p) == files[p] \notin {Missing, Unsearchable}
Fail(e) == pc' = "failed" /\ error' = e /\ UNCHANGED <<at, content, n, problems, set, todo>>

\* A file is created, replaced or removed, or its directory closed, while the command runs.
Save(p) ==
  /\ pc \notin {"ready", "failed"} /\ saves < MaxSaves /\ saves' = saves + 1
  /\ \E s \in States : s # files[p] /\ files' = [files EXCEPT ![p] = s]
  /\ present' = {q \in present : Found(q)'}
  /\ UNCHANGED <<flag, pc, at, content, n, problems, set, todo, error>>
----------------------------------------------------------------------------
(* The file.                                                               *)

LoadWaivers ==
  /\ pc = "start"
  /\ IF flag THEN pc' = "read" /\ at' = 0 ELSE pc' = "search" /\ at' = 1
  /\ UNCHANGED <<world, content, n, problems, set, todo, error>>

\* LoadDefault looks at the next path and passes over it on any error of Stat, not only
\* when there is no file; without a file there is nothing to waive.
LoadDefault ==
  /\ pc = "search"
  /\ \/ at > Defaults /\ pc' = "ready" /\ UNCHANGED at
     \/ at <= Defaults /\ Found(at) /\ pc' = "read" /\ UNCHANGED at
     \/ at <= Defaults /\ ~Found(at) /\ at' = at + 1 /\ UNCHANGED pc
  /\ UNCHANGED <<world, content, n, problems, set, todo, error>>

ReadContent ==
  /\ files[at].state = "text"
  /\ content' = files[at].entries /\ pc' = "parse"
  /\ UNCHANGED <<at, n, problems, set, todo, error>>

\* Variant: a default file that has gone is no file.
Load_Lenient ==
  /\ pc = "read" /\ UNCHANGED world
  /\ \/ ReadContent
     \/ /\ ~flag /\ files[at] = Missing /\ pc' = "ready" /\ at' = Defaults + 1
        /\ UNCHANGED <<content, n, problems, set, todo, error>>
     \/ flag /\ files[at] = Missing /\ Fail(2)
     \/ files[at] \in {Unsearchable, Unreadable, Malformed} /\ Fail(21)

\* Load: only a --waivers file that is missing is a usage error.
Load ==
  /\ pc = "read" /\ UNCHANGED world
  /\ \/ ReadContent
     \/ files[at] = Missing /\ Fail(IF flag THEN 2 ELSE 21)
     \/ files[at] \in {Unsearchable, Unreadable, Malformed} /\ Fail(21)

WellFormed(e) == e.id # NoId /\ e.justified /\ e.expiry # "bad"

\* One iteration of parse.
ParseEntry ==
  /\ pc = "parse" /\ n <= Len(content)
  /\ LET e == content[n]
     IN  IF WellFormed(e) /\ e.id \notin DOMAIN set
         THEN set' = [i \in DOMAIN set \cup {e.id} |-> IF i = e.id THEN n ELSE set[i]]
              /\ UNCHANGED problems
         ELSE problems' = problems \cup {n} /\ UNCHANGED set
  /\ n' = n + 1
  /\ UNCHANGED <<world, pc, at, content, todo, error>>

Parsed ==
  /\ pc' = "resolve" /\ todo' = IF set = <<>> THEN {} ELSE DOMAIN Aliases
  /\ UNCHANGED <<at, content, n, problems, set, error>>

\* Any problem rejects the file.
ParseReturns ==
  /\ pc = "parse" /\ n > Len(content) /\ UNCHANGED world
  /\ \/ problems # {} /\ Fail(21)
     \/ problems = {} /\ Parsed
----------------------------------------------------------------------------
(* The aliases, in any order: the code ranges over a map.                  *)

Rewritten(a, waiver) ==
  [i \in (DOMAIN set \cup {Aliases[a]}) \ {a} |-> IF i = Aliases[a] THEN waiver ELSE set[i]]

\* Variant: the waiver of the alias replaces that of the rule.
Moved_AliasWins(a) == Rewritten(a, set[a])

\* An explicit waiver of the rule wins over one of an alias.
Moved(a) == Rewritten(a, IF Aliases[a] \in DOMAIN set THEN set[Aliases[a]] ELSE set[a])

ResolveAlias ==
  /\ pc = "resolve"
  /\ \E a \in todo : /\ set' = IF a \in DOMAIN set THEN Moved(a) ELSE set
                     /\ todo' = todo \ {a}
  /\ UNCHANGED <<world, pc, at, content, n, problems, error>>

ResolveReturns ==
  /\ pc = "resolve" /\ todo = {} /\ pc' = "ready"
  /\ UNCHANGED <<world, at, content, n, problems, set, todo, error>>
----------------------------------------------------------------------------
LoadInit ==
  /\ files \in [Paths -> States] /\ flag \in BOOLEAN
  /\ pc = "start" /\ at = 0 /\ content = <<>> /\ n = 1 /\ problems = {}
  /\ set = <<>> /\ todo = {} /\ error = 0
  /\ present = {p \in Paths : Found(p)} /\ saves = 0

Loaded == pc \in {"ready", "failed"} /\ UNCHANGED loadVars

LoadNext ==
  \/ \E p \in Paths : Save(p)
  \/ LoadWaivers \/ LoadDefault \/ Load \/ ParseEntry \/ ParseReturns
  \/ ResolveAlias \/ ResolveReturns \/ Loaded

LoadSpec == LoadInit /\ [][LoadNext]_loadVars
----------------------------------------------------------------------------
(* Properties.                                                             *)

Canonical(i) == IF i \in DOMAIN Aliases THEN Aliases[i] ELSE i

\* A default path where Stat has found a file all along is never passed over: the file
\* used is it or one of an earlier path, also when that one is removed after it was found.
\* A file Stat may not reach is left out of this: LoadDefault goes on to the next path, or
\* to a scan without waivers, where its comment has it load "the first that exists".
PresentFileIsUsed ==
  pc = "ready" => /\ flag => at = 0
                  /\ ~flag => \A p \in present \ {0} : at <= p

\* Of a file that was accepted every entry is in force, under the name of its rule
\* and as written: an entry for the rule itself before those for its aliases, in
\* whatever order the aliases are gone through; and nothing else is in force.
EveryEntryInForce ==
  pc = "ready" =>
    /\ \A k \in DOMAIN content :
         LET c == Canonical(content[k].id)
             direct == {j \in DOMAIN content : content[j].id = c}
         IN  c \in DOMAIN set /\ (direct # {} => set[c] \in direct)
    /\ \A c \in DOMAIN set : Canonical(content[set[c]].id) = c

=============================================================================
