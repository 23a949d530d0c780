------------------------------ MODULE RulePack ------------------------------
(***************************************************************************)
(* Rule packs (internal/rulepack, internal/cli/rules_pack.go): a directory *)
(* of rule files and MANIFEST.yaml, which lists each with its hash.        *)
(* `rules-pack create` writes the manifest; `rules-pack verify`, and every *)
(* command with --rules-pack before it loads the rules, holds the          *)
(* directory against it.  Each reads the files one after the other, while  *)
(* the author goes on editing them.                                        *)
(***************************************************************************)
EXTENDS Naturals, Sequences, FiniteSets

CONSTANTS
  Files,      \* the YAML paths not named MANIFEST.yaml, numbered in the order of the paths
  Lower,      \* those whose suffix is .yaml and not, say, .YAML
  Nested,     \* the MANIFEST.yaml of subdirectories, numbered likewise
  Root,       \* the pack's own, as a rule file: the `checks` it may have
  Contents,   \* what a file may hold; a hash stands for it
  Holds,      \* Holds[f]: of these, what f may hold
  Unparsable, \* of these, what is not a rule file
  MaxEdits    \* bound on the author's edits

Paths == Files \cup Nested \cup {Root}

ASSUME FilesAssumption ==
  /\ Paths \subseteq Nat /\ IsFiniteSet(Paths) /\ Lower \subseteq Files
  /\ Files \cap Nested = {} /\ Root \notin Files \cup Nested
ASSUME ContentsAssumption ==
  /\ Unparsable \subseteq Contents /\ "absent" \notin Contents
  /\ Holds \in [Paths -> SUBSET Contents]

VARIABLES
  files,    \* files[f]: what it holds, or "absent"
  manifest, \* what MANIFEST.yaml holds
  writer,   \* create: "idle" before and after, "walk", "write"
  todo,     \* the files it has yet to hash
  hashes,   \* those it has
  steady,   \* history: no edit since its walk began, until it writes
  reader,   \* verify and load: "idle", "hash", "verified", "load", or how it ended
  m,        \* the manifest it has read
  left,     \* the files it has yet to read
  loaded,   \* the rules it has loaded, by file
  touched,  \* history: the files edited since verify last looked at them
  edits     \* the author's edits so far

creator == <<writer, todo, hashes>>
verifier == <<reader, m, left, loaded>>
vars == <<files, manifest, creator, steady, verifier, touched, edits>>

Present == {f \in Files : files[f] # "absent"}

\* The paths of S in their order.
Sorted(S) == CHOOSE s \in [1 .. Cardinality(S) -> S] : \A i, j \in DOMAIN s : i < j => s[i] < s[j]

\* What has been read, and f.
Read(e, f) == [g \in DOMAIN e \cup {f} |-> IF g = f THEN files[f] ELSE e[g]]

\* The entries, whether the text breaks off within one, whether it is all there; and,
\* as history, whether the directory is still as it was for the walk that wrote it.
\* No manifest, an empty one and one without entries are refused alike.
NoManifest == [entries |-> <<>>, ragged |-> FALSE, whole |-> FALSE, exact |-> FALSE]

\* The author changes, adds or removes a file, or the checks of the manifest, that one
\* not while it is being written.
Edit(f) ==
  /\ edits < MaxEdits /\ edits' = edits + 1
  /\ f = Root => writer # "write"
  /\ \E c \in Holds[f] \cup {"absent"} : c # files[f] /\ files' = [files EXCEPT ![f] = c]
  /\ steady' = FALSE /\ touched' = touched \cup {f}
  /\ manifest' = [manifest EXCEPT !.exact = FALSE] /\ m' = [m EXCEPT !.exact = FALSE]
  /\ UNCHANGED <<creator, reader, left, loaded>>
----------------------------------------------------------------------------
(* rules-pack create                                                       *)

\* Variant: only the suffix in lower case.
Walked_Lower == Present \cap Lower

\* Every *.yaml in either case, but none that is named MANIFEST.yaml, at any depth.
Walked == Present

\* A directory without rule files is refused.
Create ==
  /\ writer = "idle"
  /\ todo' = Sorted(Walked) /\ hashes' = <<>> /\ steady' = TRUE
  /\ Walked # {} /\ writer' = "walk"
  /\ UNCHANGED <<files, manifest, verifier, touched, edits>>

\* A file that is gone since the directory was listed fails the command.
HashForManifest ==
  /\ writer = "walk" /\ todo # <<>>
  /\ IF files[Head(todo)] = "absent"
     THEN writer' = "idle" /\ todo' = <<>> /\ hashes' = <<>>
     ELSE hashes' = Read(hashes, Head(todo)) /\ todo' = Tail(todo) /\ UNCHANGED writer
  /\ UNCHANGED <<files, manifest, steady, verifier, touched, edits>>

\* os.WriteFile empties the file it overwrites; what is written has no checks.
TruncateManifest ==
  /\ writer = "walk" /\ todo = <<>>
  /\ manifest' = [NoManifest EXCEPT !.exact = steady] /\ writer' = "write"
  /\ files' = [files EXCEPT ![Root] = "absent"] /\ steady' = FALSE
  /\ UNCHANGED <<todo, hashes, verifier, touched, edits>>

\* The first n entries are on disk, and possibly a part of the next.
WritePart ==
  /\ writer = "write"
  /\ \E n \in 0 .. Len(Sorted(DOMAIN hashes)) - 1, ragged \in BOOLEAN :
       LET some == {Sorted(DOMAIN hashes)[k] : k \in 1 .. n}
       IN  /\ DOMAIN manifest.entries \subseteq some /\ some # DOMAIN manifest.entries
           /\ manifest' = [manifest EXCEPT !.entries = [f \in some |-> hashes[f]],
                                           !.ragged = ragged]
  /\ UNCHANGED <<files, creator, steady, verifier, touched, edits>>

WriteManifest ==
  /\ writer = "write" /\ writer' = "idle"
  /\ manifest' = [manifest EXCEPT !.entries = hashes, !.ragged = FALSE, !.whole = TRUE]
  /\ hashes' = <<>>
  /\ UNCHANGED <<files, todo, steady, verifier, touched, edits>>

\* Killed, or out of space: what is written stays.
StopCreate ==
  /\ writer # "idle" /\ writer' = "idle"
  /\ todo' = <<>> /\ hashes' = <<>> /\ steady' = FALSE
  /\ UNCHANGED <<files, manifest, verifier, touched, edits>>
----------------------------------------------------------------------------
(* rules-pack verify, and loadRulesPack after it                           *)

Verify ==
  /\ reader \notin {"hash", "verified", "load"}
  /\ touched' = {} /\ loaded' = <<>>
  /\ IF manifest.ragged \/ DOMAIN manifest.entries = {}
     THEN reader' = "refused" /\ m' = [manifest EXCEPT !.entries = <<>>] /\ left' = <<>>
     ELSE reader' = "hash" /\ m' = manifest /\ left' = Sorted(DOMAIN manifest.entries)
  /\ UNCHANGED <<files, manifest, creator, steady, edits>>

VerifyManifestEntry ==
  /\ reader = "hash" /\ left # <<>>
  /\ IF files[Head(left)] # m.entries[Head(left)]
     THEN /\ reader' = "refused" /\ m' = [m EXCEPT !.entries = <<>>]
          /\ left' = <<>> /\ touched' = {}
     ELSE left' = Tail(left) /\ touched' = touched \ {Head(left)} /\ UNCHANGED <<reader, m>>
  /\ UNCHANGED <<files, manifest, creator, steady, loaded, edits>>

\* Variant: the other files of the directory are not looked at.
Unlisted_None == {}

\* Here too a file named MANIFEST.yaml is passed over, at any depth.
Unlisted == Present \ DOMAIN m.entries

VerifyNoUnlistedYAML ==
  /\ reader = "hash" /\ left = <<>>
  /\ IF Unlisted = {}
     THEN reader' = "verified" /\ touched' = touched \cap DOMAIN m.entries /\ UNCHANGED m
     ELSE reader' = "refused" /\ touched' = {} /\ m' = [m EXCEPT !.entries = <<>>]
  /\ UNCHANGED <<files, manifest, creator, steady, left, loaded, edits>>

\* LoadFS takes the suffix as it is written, and every file that has it: the pack's
\* manifest, which is there if it was verified, and those of subdirectories too.
RuleFiles == {f \in Lower \cup Nested : files[f] # "absent"} \cup {Root}

\* LoadDir lists the directory anew.
LoadDir ==
  /\ reader = "verified" /\ reader' = "load" /\ left' = Sorted(RuleFiles)
  /\ UNCHANGED <<files, manifest, creator, steady, m, loaded, touched, edits>>

\* A file without rules is a rule file like another; one that is gone is not.
LoadFails(f) ==
  \/ files[f] \in Unparsable
  \/ IF f = Root THEN manifest.ragged ELSE files[f] = "absent"

LoadFile ==
  /\ reader = "load" /\ left # <<>>
  /\ IF LoadFails(Head(left))
     THEN reader' = "failed" /\ left' = <<>> /\ loaded' = <<>> /\ touched' = {} /\ m' = NoManifest
     ELSE /\ loaded' = IF files[Head(left)] = "absent" THEN loaded ELSE Read(loaded, Head(left))
          /\ left' = Tail(left) /\ UNCHANGED <<reader, touched, m>>
  /\ UNCHANGED <<files, manifest, creator, steady, edits>>

Loaded ==
  /\ reader = "load" /\ left = <<>> /\ reader' = "loaded"
  /\ UNCHANGED <<files, manifest, creator, steady, m, left, loaded, touched, edits>>
----------------------------------------------------------------------------
Init ==
  /\ files \in [Paths -> Contents \cup {"absent"}] /\ manifest = NoManifest
  /\ \A f \in Paths : files[f] \in Holds[f] \cup {"absent"}
  /\ writer = "idle" /\ todo = <<>> /\ hashes = <<>> /\ steady = FALSE
  /\ reader = "idle" /\ m = NoManifest /\ left = <<>> /\ loaded = <<>>
  /\ touched = {} /\ edits = 0

CreateStep ==
  Create \/ HashForManifest \/ TruncateManifest \/ WritePart \/ WriteManifest \/ StopCreate
ReadStep ==
  Verify \/ VerifyManifestEntry \/ VerifyNoUnlistedYAML \/ LoadDir \/ LoadFile \/ Loaded

Next == (\E f \in Paths : Edit(f)) \/ CreateStep \/ ReadStep

Spec == Init /\ [][Next]_vars
----------------------------------------------------------------------------
(* Properties.                                                             *)

\* Of the files that are not named MANIFEST.yaml, what is loaded is what the manifest
\* lists, file by file, with the content it was listed with, but for files edited after
\* verify had looked at them: such a file that is not listed is not loaded and one that
\* is listed is not missing, whoever rewrites the manifest meanwhile.  A file that is
\* named MANIFEST.yaml is loaded and never listed, in a subdirectory as at the root;
\* docs/rules-packs.md:38 and 100 make no exception for it.
LoadedAsListed ==
  reader = "loaded" => \A f \in Lower \ touched :
    /\ f \in DOMAIN loaded <=> f \in DOMAIN m.entries
    /\ f \in DOMAIN loaded => loaded[f] = m.entries[f]

\* Of a directory that stays as it was, verify accepts the manifest if and only if
\* create has written all of it: one that a create left half-written when it was
\* killed, or is just writing, never passes for the pack, and a whole one always does.
VerifiesExactlyWhole ==
  m.exact => /\ reader = "refused" => ~m.whole
             /\ reader \in {"verified", "load", "loaded"} => m.whole
=============================================================================
