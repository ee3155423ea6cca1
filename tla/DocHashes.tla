----------------------------- MODULE DocHashes -----------------------------
(***************************************************************************)
(* scripts/check_doc_ipfs_hashes.py: the hashes of packages in the         *)
(* commands of the documentation are compared with packages.json, or       *)
(* replaced by those of packages.json (--fix).                             *)
(*                                                                         *)
(* A file is a sequence of lines with one command each.  Vendors and       *)
(* versions are left out.                                                  *)
(***************************************************************************)
EXTENDS Integers, SequencesExt

CONSTANTS
  \* The files, in the order in which they are found: 1..Files.
  Files,
  \* The contents the files may have at first, and those of packages.json.
  Contents,
  Registries,
  \* A hash that a new release of a package may have, and how many releases.
  NewHash,
  MaxReleases,
  None

\* The commands, and the packages they are about.
LineRecords ==
  [cmd : STRING, name : STRING \cup {None}, hash : STRING, flags : STRING \cup {None}]

PackageRecords == [type : STRING, name : STRING, hash : STRING]

\* How a run ends.
Outcomes == {"checked", "fixed", "exit_1", "raised"}

ASSUME HashAssumption ==
  /\ Files \in Nat \ {0}
  /\ Contents \subseteq Seq(LineRecords)
  /\ Registries \subseteq Seq(PackageRecords)
  /\ NewHash \in STRING
  /\ None \notin STRING \cup Outcomes

Types == {"connection", "agent", "protocol", "service", "skill", "contract"}

Service == "--service"  \* flags of a command; otherwise they are None

VARIABLES
  packages,  \* packages.json: a sequence of packages (type, name, hash)
  docs,      \* the lines of each file
  releases,  \* how many packages were released
  job,       \* the run of the script, or None
  outcome,   \* how the last run ended (Outcomes), or None
  fixes      \* the successful runs with --fix since the last release (history)

hashVars == <<packages, docs, releases, job, outcome, fixes>>

-----------------------------------------------------------------------------
(* PackageHashManager *)

\* The places of packages.json with this type and name; the first is the entry of
\* package_tree.
Registered(type, name) ==
  {i \in DOMAIN packages : packages[i].type = type /\ packages[i].name = name}

WithHash(hash) == {i \in DOMAIN packages : packages[i].hash = hash}

\* More than one package with the hash raises ValueError.
HashAmbiguous(hash) == Cardinality(WithHash(hash)) > 1

TypesNamed(name) == {t \in Types : Registered(t, name) # {}}

\* The type of the package: the only one with the name, or what the command tells.
InferredType(line) ==
  IF Cardinality(TypesNamed(line.name)) = 1
  THEN CHOOSE t \in TypesNamed(line.name) : TRUE
  ELSE CASE line.cmd = "fetch"      -> IF line.flags = Service THEN "service" ELSE "agent"
         [] line.cmd = "deployment" -> "service"
         [] line.cmd = "add skill"  -> "skill"
         [] OTHER                   -> None

\* get_hash_by_package_line raises ...
LineRaises(line) ==
  IF line.name = None THEN HashAmbiguous(line.hash) ELSE InferredType(line) = None

\* ... or finds a hash, or none.
HashByPackageLine(line) ==
  IF line.name = None
  THEN IF WithHash(line.hash) = {} THEN None ELSE line.hash
  ELSE LET found == Registered(InferredType(line), line.name)
       IN  IF found = {} THEN None ELSE packages[Min(found)].hash

\* Faulty variant of Replace: the hash is replaced wherever the file has it.
ReplaceHash(content, old, hash) ==
  [i \in DOMAIN content |->
     IF content[i].hash = old.hash THEN [content[i] EXCEPT !.hash = hash] ELSE content[i]]

\* content.replace: every place that has the old command, as the beginning of a
\* command with flags, too.
Replace(content, old, hash) ==
  [i \in DOMAIN content |->
     IF old \in {content[i], [content[i] EXCEPT !.flags = None]}
     THEN [content[i] EXCEPT !.hash = hash]
     ELSE content[i]]

-----------------------------------------------------------------------------
HashInit ==
  /\ packages \in Registries
  /\ docs \in [1..Files -> Contents]
  /\ releases = 0
  /\ job = None
  /\ outcome = None
  /\ fixes = 0

\* A package changes, and its hash in packages.json.
Release(i) ==
  /\ job = None
  /\ releases < MaxReleases
  /\ packages' = [packages EXCEPT ![i].hash = NewHash]
  /\ releases' = releases + 1
  /\ outcome' = None
  /\ fixes' = 0
  /\ UNCHANGED <<docs, job>>

StartRun(fix) ==
  /\ job = None
  /\ job' = [fix |-> fix, file |-> 1, todo |-> docs[1],
             errors |-> FALSE, mismatches |-> FALSE, matches |-> 0]
  /\ outcome' = None
  /\ UNCHANGED <<packages, docs, releases, fixes>>

\* A command is looked at.  The commands are those the file had when it was read, the
\* replacement is made in what has become of it.
LookAt ==
  /\ job # None /\ job.todo # <<>>
  /\ LET line == Head(job.todo)
         hash == HashByPackageLine(line)
         rest == [job EXCEPT !.todo = Tail(@), !.matches = @ + 1]
     IN  IF LineRaises(line) \/ (hash # None /\ HashAmbiguous(hash))
         THEN job' = None /\ outcome' = "raised" /\ UNCHANGED docs
         ELSE /\ UNCHANGED outcome
              /\ job' = [rest EXCEPT !.errors = @ \/ hash = None,
                                     !.mismatches = @ \/ hash \notin {None, line.hash}]
              /\ docs' = IF job.fix /\ hash \notin {None, line.hash}
                         THEN [docs EXCEPT ![job.file] = Replace(@, line, hash)]
                         ELSE docs
  /\ UNCHANGED <<packages, releases, fixes>>

NextFile ==
  /\ job # None /\ job.todo = <<>> /\ job.file < Files
  /\ job' = [job EXCEPT !.file = @ + 1, !.todo = docs[job.file + 1]]
  /\ UNCHANGED <<packages, docs, releases, outcome, fixes>>

\* Faulty variant of EndRun: commands without a hash in packages.json are only logged.
EndRunMismatches ==
  /\ job # None /\ job.todo = <<>> /\ job.file = Files
  /\ outcome' = IF (~job.fix /\ job.mismatches) \/ job.matches = 0 THEN "exit_1"
                ELSE IF job.fix THEN "fixed"
                ELSE "checked"
  /\ fixes' = IF outcome' = "fixed" /\ fixes < 2 THEN fixes + 1 ELSE fixes
  /\ job' = None
  /\ UNCHANGED <<packages, docs, releases>>

EndRun ==
  /\ job # None /\ job.todo = <<>> /\ job.file = Files
  /\ outcome' = IF job.fix /\ job.errors THEN "raised"
                ELSE IF ~job.fix /\ (job.mismatches \/ job.errors) THEN "exit_1"
                ELSE IF job.matches = 0 THEN "exit_1"
                ELSE IF job.fix THEN "fixed"
                ELSE "checked"
  /\ fixes' = IF outcome' = "fixed" /\ fixes < 2 THEN fixes + 1 ELSE fixes
  /\ job' = None
  /\ UNCHANGED <<packages, docs, releases>>

HashNext ==
  \/ \E i \in DOMAIN packages : Release(i)
  \/ \E fix \in BOOLEAN : StartRun(fix)
  \/ LookAt
  \/ NextFile
  \/ EndRun

-----------------------------------------------------------------------------
(* Properties *)

\* The command has the hash that packages.json has for it.
Current(line) == ~LineRaises(line) /\ HashByPackageLine(line) = line.hash

\* Two runs with --fix that end well, whatever failed ones are between them, leave no
\* stale hash.  One run does not always: a command
\* whose hash is replaced may be the beginning of another one, which is replaced as
\* well and then not found any more (content.replace).
TwoFixesSuffice ==
  fixes >= 2 => \A f \in 1..Files : \A i \in DOMAIN docs[f] : Current(docs[f][i])

\* A run without --fix that ends well has seen no command with another hash than that
\* of its package, whatever runs with --fix have done to the files before.
CheckTruthful ==
  outcome = "checked" =>
    \A f \in 1..Files : \A i \in DOMAIN docs[f] : Current(docs[f][i])

-----------------------------------------------------------------------------
(* The inductive invariant behind TwoFixesSuffice and CheckTruthful. *)

Runs == [fix : BOOLEAN, file : 1..Files, todo : Seq(LineRecords),
         errors : BOOLEAN, mismatches : BOOLEAN, matches : Nat]

HashTypeOK ==
  /\ packages \in Seq(PackageRecords)
  /\ docs \in [1..Files -> Seq(LineRecords)]
  /\ job \in Runs \cup {None}
  /\ outcome \in Outcomes \cup {None}
  /\ fixes \in 0..2

\* The hash is all that a replacement changes, and a command without a name keeps it.
SameCommand(k, l) ==
  /\ k.cmd = l.cmd /\ k.name = l.name /\ k.flags = l.flags
  /\ k.name = None => k.hash = l.hash

\* The package of the command is found.
Found(line) == ~LineRaises(line) /\ HashByPackageLine(line) # None

\* What a run with --fix leaves: commands without flags are current, as only the same
\* command could replace them ...
FixedOnce(line) == Found(line) /\ (line.flags = None => Current(line))

\* ... and the next run finds nothing to replace in them, which could be the beginning
\* of another command, so that the others are replaced one by one.
FixesKept ==
  fixes > 0 => \A f \in 1..Files : \A i \in DOMAIN docs[f] : FixedOnce(docs[f][i])

\* A command of the file, and the same one as it was when the file was read.
Waiting(line, read) ==
  /\ SameCommand(line, read)
  /\ \/ line = read
     \/ job.fix /\ (line.flags = None \/ fixes > 0 => Current(line))

\* A command that the run has looked at, if it has not met an error.
Passed(line) ==
  IF job.fix THEN FixedOnce(line) /\ (fixes > 0 => Current(line)) ELSE Current(line)

Seen == Len(docs[job.file]) - Len(job.todo)

RunInv ==
  job # None =>
    /\ outcome = None
    /\ Seen \in Nat
    /\ \A i \in 1..Len(job.todo) :
         /\ fixes > 0 /\ job.todo[i].flags = None => Current(job.todo[i])
         /\ Waiting(docs[job.file][Seen + i], job.todo[i])
    /\ ~job.errors /\ (job.fix \/ ~job.mismatches) =>
         \A f \in 1..Files : \A i \in DOMAIN docs[f] :
           f < job.file \/ (f = job.file /\ i =< Seen) => Passed(docs[f][i])

HashInv == HashTypeOK /\ FixesKept /\ TwoFixesSuffice /\ CheckTruthful /\ RunInv

HashSpec == HashInit /\ [][HashNext]_hashVars

=============================================================================
