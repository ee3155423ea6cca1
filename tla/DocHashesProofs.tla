--------------------------- MODULE DocHashesProofs ---------------------------
(***************************************************************************)
(* Proofs about DocHashes, for all files, commands and registries.         *)
(***************************************************************************)
EXTENDS DocHashes, SequenceTheorems, WellFoundedInduction, TLAPS

-----------------------------------------------------------------------------
(* What the registry tells of a command *)

LEMMA MinElement ==
  ASSUME NEW S \in SUBSET Nat, S # {}
  PROVE  Min(S) \in S
<1>1. PICK m \in S : \A i \in S : ~(<<i, m>> \in OpToRel(<, Nat))
  BY NatLessThanWellFounded, WFMin, Zenon
<1>2. \A i \in S : m =< i
  <2> SUFFICES ASSUME NEW i \in S, ~(m =< i)
               PROVE  FALSE
    OBVIOUS
  <2>1. i < m /\ <<i, m>> \in Nat \X Nat
    OBVIOUS
  <2>2. <<i, m>> \in OpToRel(<, Nat)
    BY <2>1, Zenon DEF OpToRel
  <2> QED
    BY <1>1, <2>2, Zenon
<1> QED
  BY <1>2, Zenon DEF Min

\* The hash that is found is one of packages.json, or the command's own.
LEMMA HashType ==
  ASSUME HashTypeOK, NEW line \in LineRecords
  PROVE  HashByPackageLine(line) \in STRING \cup {None}
<1> DEFINE found == Registered(InferredType(line), line.name)
<1>1. found \in SUBSET Nat /\ found \subseteq DOMAIN packages
  BY DEF HashTypeOK, Registered
<1>2. found # {} => packages[Min(found)] \in PackageRecords
  <2>1. found # {} => Min(found) \in DOMAIN packages
    BY <1>1, MinElement
  <2> QED
    BY <2>1 DEF HashTypeOK
<1>3. line.hash \in STRING
  BY DEF LineRecords
<1> HIDE DEF found
<1>4. HashByPackageLine(line) =
        IF line.name = None
        THEN IF WithHash(line.hash) = {} THEN None ELSE line.hash
        ELSE IF found = {} THEN None ELSE packages[Min(found)].hash
  BY DEF HashByPackageLine, found
<1> QED
  BY <1>2, <1>3, <1>4 DEF PackageRecords

\* It is the same for two commands that differ in their hashes only.
LEMMA SameHash ==
  ASSUME NEW k, NEW l, SameCommand(k, l)
  PROVE  /\ LineRaises(k) = LineRaises(l)
         /\ HashByPackageLine(k) = HashByPackageLine(l)
         /\ Found(k) = Found(l)
<1>1. InferredType(k) = InferredType(l)
  BY DEF SameCommand, InferredType
<1>2. LineRaises(k) = LineRaises(l)
  BY <1>1 DEF SameCommand, LineRaises
<1>3. HashByPackageLine(k) = HashByPackageLine(l)
  BY <1>1 DEF SameCommand, HashByPackageLine
<1> QED
  BY <1>2, <1>3 DEF Found

LEMMA CurrentFound ==
  ASSUME NEW line \in LineRecords, Current(line)
  PROVE  Found(line)
<1> QED
  BY HashAssumption DEF Current, Found, LineRecords

\* Only a new release changes what the registry tells.
LEMMA RegistryKept ==
  ASSUME packages' = packages, NEW line
  PROVE  /\ Current(line)' = Current(line)
         /\ Found(line)' = Found(line)
         /\ FixedOnce(line)' = FixedOnce(line)
<1>1. InferredType(line)' = InferredType(line)
  BY DEF InferredType, TypesNamed, Registered
<1>2. LineRaises(line)' = LineRaises(line)
  BY <1>1 DEF LineRaises, HashAmbiguous, WithHash
<1>3. HashByPackageLine(line)' = HashByPackageLine(line)
  BY <1>1 DEF HashByPackageLine, WithHash, Registered
<1>4. Current(line)' = Current(line) /\ Found(line)' = Found(line)
  BY <1>2, <1>3 DEF Current, Found
<1> QED
  BY <1>4 DEF FixedOnce

-----------------------------------------------------------------------------
(* What a replacement does to a command *)

\* Command y of a file after content.replace of t.
Replaced(y, t, hash) ==
  IF t \in {y, [y EXCEPT !.flags = None]} THEN [y EXCEPT !.hash = hash] ELSE y

LEMMA IsSequence ==
  ASSUME NEW n \in Nat, NEW S, NEW s \in [1..n -> S]
  PROVE  s \in Seq(S)
<1> QED
  BY SeqDef, Zenon

LEMMA ReplaceElements ==
  ASSUME NEW c \in Seq(LineRecords), NEW t \in LineRecords, NEW hash \in STRING
  PROVE  /\ Replace(c, t, hash) \in Seq(LineRecords)
         /\ Len(Replace(c, t, hash)) = Len(c)
         /\ \A i \in 1..Len(c) : Replace(c, t, hash)[i] = Replaced(c[i], t, hash)
<1> DEFINE r == Replace(c, t, hash)
<1>1. DOMAIN c = 1..Len(c) /\ Len(c) \in Nat /\ \A i \in 1..Len(c) : c[i] \in LineRecords
  BY LenProperties, ElementOfSeq
<1>2. r = [i \in 1..Len(c) |-> Replaced(c[i], t, hash)]
  BY <1>1, Zenon DEF Replace, Replaced
<1>3. \A i \in 1..Len(c) : Replaced(c[i], t, hash) \in LineRecords
  <2> SUFFICES ASSUME NEW y \in LineRecords
               PROVE  Replaced(y, t, hash) \in LineRecords
    BY <1>1
  <2>1. [y EXCEPT !.hash = hash] \in LineRecords
    BY DEF LineRecords
  <2> QED
    BY <2>1, Zenon DEF Replaced
<1>4. r \in [1..Len(c) -> LineRecords]
  BY <1>2, <1>3, Zenon
<1> HIDE DEF r
<1>5. r \in Seq(LineRecords)
  BY <1>1, <1>4, IsSequence
<1>6. Len(r) = Len(c)
  <2>1. DOMAIN r = 1..Len(c) /\ DOMAIN r = 1..Len(r) /\ Len(r) \in Nat
    BY <1>4, <1>5, LenProperties
  <2> QED
    BY <1>1, <2>1
<1> QED
  BY <1>2, <1>5, <1>6, Zenon DEF r

\* A stale command t is looked at, and its hash is replaced by the right one.
LEMMA ReplacedLine ==
  ASSUME HashTypeOK, NEW t \in LineRecords, NEW y \in LineRecords,
         NEW hash, hash = HashByPackageLine(t), hash \notin {None, t.hash},
         ~LineRaises(t),
         fixes > 0 /\ t.flags = None => Current(t)
  PROVE  LET z == Replaced(y, t, hash)
         IN  /\ z \in LineRecords
             /\ SameCommand(z, y)
             /\ Found(z) = Found(y)
             /\ y = t => Current(z)
             /\ Current(y) /\ (y.flags = None \/ fixes > 0) => z = y
             /\ z = y \/ y = t \/ (y.flags # None /\ t.flags = None)
<1> DEFINE z == Replaced(y, t, hash)
           e == [y EXCEPT !.flags = None]
<1>1. hash \in STRING
  BY HashType
<1>2. t.name # None
  BY DEF HashByPackageLine
<1>3. e \in LineRecords /\ e.cmd = y.cmd /\ e.name = y.name /\ e.flags = None /\ e.hash = y.hash
  BY DEF LineRecords
<1>4. [y EXCEPT !.hash = hash] \in LineRecords
  BY <1>1 DEF LineRecords
<1>5. CASE t \notin {y, e}
  <2>1. z = y
    BY <1>5, Zenon DEF Replaced
  <2> QED
    BY <1>5, <2>1 DEF SameCommand
<1>6. CASE t \in {y, e}
  <2>1. z = [y EXCEPT !.hash = hash]
    BY <1>6, Zenon DEF Replaced
  <2>2. z \in LineRecords /\ z.cmd = y.cmd /\ z.name = y.name /\ z.flags = y.flags /\ z.hash = hash
    BY <1>1, <2>1 DEF LineRecords
  <2>3. y.name = t.name
    BY <1>3, <1>6
  <2> HIDE DEF z, e
  <2>4. SameCommand(z, y)
    BY <1>2, <2>2, <2>3 DEF SameCommand
  <2>5. Found(z) = Found(y) /\ LineRaises(z) = LineRaises(y)
        /\ HashByPackageLine(z) = HashByPackageLine(y)
    BY <2>4, SameHash
  <2>6. y = t => Current(z)
    BY <2>2, <2>5 DEF Current
  <2>7. ~Current(t)
    BY DEF Current
  <2>8. y # t => t = e /\ t.flags = None /\ y.flags # None
    <3>1. y # t => t = e
      BY <1>6
    <3>2. y.flags = None => e = y
      BY DEF LineRecords, e
    <3> QED
      BY <1>3, <3>1, <3>2
  <2>9. ~(Current(y) /\ (y.flags = None \/ fixes > 0))
    BY <2>7, <2>8
  <2> QED
    BY <2>2, <2>4, <2>5, <2>6, <2>8, <2>9 DEF z
<1> QED
  BY <1>5, <1>6

-----------------------------------------------------------------------------
(* The command t is looked at: what happens to command y, which becomes z. *)

Kept(y, z, t) ==
  /\ SameCommand(z, y)
  /\ Found(z) = Found(y)
  /\ ~job.fix \/ ~Found(t) => z = y
  /\ Current(y) /\ (y.flags = None \/ fixes > 0) => z = y
  /\ Found(t) /\ job.fix /\ y = t => Current(z)
  /\ z = y \/ y = t \/ (y.flags # None /\ fixes = 0)

LEMMA KeptLine ==
  ASSUME NEW y, NEW z, NEW t, Kept(y, z, t)
  PROVE  /\ FixedOnce(y) => FixedOnce(z)
         /\ fixes > 0 /\ Current(y) => Current(z)
         /\ Passed(y) => Passed(z)
<1>1. z.flags = y.flags /\ Found(z) = Found(y)
  BY DEF Kept, SameCommand
<1>2. Current(y) /\ (y.flags = None \/ fixes > 0) => z = y
  BY DEF Kept
<1>3. FixedOnce(y) => FixedOnce(z)
  BY <1>1, <1>2 DEF FixedOnce
<1>4. fixes > 0 /\ Current(y) => Current(z)
  BY <1>2
<1>5. Passed(y) => Passed(z)
  <2>1. ~job.fix => z = y
    BY DEF Kept
  <2> QED
    BY <1>3, <1>4, <2>1 DEF Passed
<1> QED
  BY <1>3, <1>4, <1>5

LEMMA KeptWaiting ==
  ASSUME NEW y, NEW z, NEW t, Kept(y, z, t), NEW r, Waiting(y, r)
  PROVE  Waiting(z, r)
<1>1. SameCommand(z, y) /\ SameCommand(y, r) /\ z.flags = y.flags
  BY DEF Kept, Waiting, SameCommand
<1>2. SameCommand(z, r)
  BY <1>1 DEF SameCommand
<1>3. CASE z = y
  BY <1>3
<1>4. CASE z # y
  <2>1. job.fix /\ Found(t)
    BY <1>4 DEF Kept
  <2>2. z.flags = None \/ fixes > 0 => Current(z)
    <3>1. CASE y = t
      BY <2>1, <3>1 DEF Kept
    <3>2. CASE y # t
      BY <1>1, <1>4, <3>2 DEF Kept
    <3> QED
      BY <3>1, <3>2
  <2> QED
    BY <1>2, <2>1, <2>2 DEF Waiting
<1> QED
  BY <1>3, <1>4

\* The place that the command was read from.
LEMMA KeptPassed ==
  ASSUME NEW x \in LineRecords, NEW z, NEW t, Kept(x, z, t), Waiting(x, t), Found(t),
         job.fix \/ Current(t)
  PROVE  Passed(z)
<1>1. Found(x) = Found(t)
  BY SameHash DEF Waiting
<1>2. Found(z) /\ z.flags = x.flags
  BY <1>1 DEF Kept, SameCommand
<1>3. CASE ~job.fix
  <2>1. x = t /\ z = x
    BY <1>3 DEF Waiting, Kept
  <2> QED
    BY <1>3, <2>1 DEF Passed
<1>4. CASE job.fix
  <2>1. z.flags = None \/ fixes > 0 => Current(z)
    <3>1. CASE x = t
      BY <1>4, <3>1 DEF Kept
    <3>2. CASE x # t
      BY <1>2, <3>2 DEF Waiting, Kept
    <3> QED
      BY <3>1, <3>2
  <2> QED
    BY <1>2, <1>4, <2>1 DEF Passed, FixedOnce
<1> QED
  BY <1>3, <1>4

LEMMA RunKept ==
  ASSUME packages' = packages, fixes' = fixes, job'.fix = job.fix, NEW l, NEW r
  PROVE  /\ Waiting(l, r)' = Waiting(l, r)
         /\ Passed(l)' = Passed(l)
<1>1. Current(l)' = Current(l) /\ FixedOnce(l)' = FixedOnce(l)
  BY RegistryKept
<1>2. Waiting(l, r)' = Waiting(l, r)
  BY <1>1 DEF Waiting, SameCommand
<1>3. Passed(l)' = Passed(l)
  BY <1>1 DEF Passed
<1> QED
  BY <1>2, <1>3

-----------------------------------------------------------------------------
(* Looking at a command *)

\* The first command of a run's list.
LEMMA TodoHead ==
  ASSUME HashTypeOK, job # None, job.todo # <<>>
  PROVE  /\ job \in Runs /\ docs[job.file] \in Seq(LineRecords)
         /\ Len(docs[job.file]) \in Nat
         /\ Head(job.todo) = job.todo[1] /\ Head(job.todo) \in LineRecords
         /\ Len(job.todo) \in Nat /\ Len(job.todo) > 0
         /\ Tail(job.todo) \in Seq(LineRecords)
         /\ Len(Tail(job.todo)) = Len(job.todo) - 1
         /\ \A i \in 1..Len(Tail(job.todo)) : Tail(job.todo)[i] = job.todo[i + 1]
<1>1. job \in Runs /\ job.todo \in Seq(LineRecords) /\ job.file \in 1..Files
  BY DEF HashTypeOK, Runs
<1>2. docs[job.file] \in Seq(LineRecords)
  BY <1>1 DEF HashTypeOK
<1> DEFINE td == job.todo
<1>3. td \in Seq(LineRecords) /\ td # <<>>
  BY <1>1
<1> HIDE DEF td
<1>4. /\ Head(td) = td[1] /\ Head(td) \in LineRecords
      /\ Len(td) \in Nat /\ Len(td) > 0
      /\ Tail(td) \in Seq(LineRecords) /\ Len(Tail(td)) = Len(td) - 1
      /\ \A i \in 1..Len(Tail(td)) : Tail(td)[i] = td[i + 1]
  BY <1>3, HeadTailProperties, LenProperties, EmptySeq, ElementOfSeq
<1> QED
  BY <1>1, <1>2, <1>4, LenProperties DEF td

LEMMA LookAtLines ==
  ASSUME HashInv, LookAt, outcome' = None
  PROVE  /\ docs' \in [1..Files -> Seq(LineRecords)]
         /\ \A f \in 1..Files : f # job.file => docs'[f] = docs[f]
         /\ Len(docs'[job.file]) = Len(docs[job.file])
         /\ \A i \in 1..Len(docs[job.file]) :
              Kept(docs[job.file][i], docs'[job.file][i], Head(job.todo))
<1> DEFINE t == Head(job.todo)
           hash == HashByPackageLine(t)
           F == job.file
<1>1. HashTypeOK /\ RunInv /\ job # None /\ job.todo # <<>>
  BY DEF HashInv, LookAt
<1>2. /\ job \in Runs /\ docs[F] \in Seq(LineRecords) /\ t \in LineRecords
      /\ F \in 1..Files /\ Len(job.todo) > 0 /\ Len(job.todo) \in Nat /\ t = job.todo[1]
  BY <1>1, TodoHead DEF Runs
<1>3. fixes > 0 /\ t.flags = None => Current(t)
  BY <1>1, <1>2 DEF RunInv
<1>4. /\ ~LineRaises(t)
      /\ docs' = IF job.fix /\ hash \notin {None, t.hash}
                 THEN [docs EXCEPT ![F] = Replace(@, t, hash)]
                 ELSE docs
  BY HashAssumption, Zenon DEF LookAt, Outcomes
<1>5. Found(t) <=> hash # None
  BY <1>4 DEF Found
<1>6. docs \in [1..Files -> Seq(LineRecords)] /\ fixes \in 0..2
  BY <1>1 DEF HashTypeOK
<1>7. \A i \in 1..Len(docs[F]) : docs[F][i] \in LineRecords
  BY <1>2, ElementOfSeq
<1>8. CASE job.fix /\ hash \notin {None, t.hash}
  <2>1. hash \in STRING
    BY <1>1, <1>2, <1>8, HashType
  <2> HIDE DEF t, hash
  <2>2. docs' = [docs EXCEPT ![F] = Replace(docs[F], t, hash)]
    BY <1>4, <1>8
  <2>3. /\ Replace(docs[F], t, hash) \in Seq(LineRecords)
        /\ Len(Replace(docs[F], t, hash)) = Len(docs[F])
        /\ \A i \in 1..Len(docs[F]) :
             Replace(docs[F], t, hash)[i] = Replaced(docs[F][i], t, hash)
    BY <1>2, <2>1, ReplaceElements
  <2>4. docs'[F] = Replace(docs[F], t, hash) /\ docs' \in [1..Files -> Seq(LineRecords)]
        /\ \A f \in 1..Files : f # F => docs'[f] = docs[f]
    BY <1>2, <1>6, <2>2, <2>3
  <2>5. ASSUME NEW i \in 1..Len(docs[F])
        PROVE  Kept(docs[F][i], docs'[F][i], t)
    <3> DEFINE y == docs[F][i]
               z == Replaced(y, t, hash)
    <3>1. docs'[F][i] = z /\ y \in LineRecords
      BY <1>7, <2>3, <2>4
    <3>2. /\ SameCommand(z, y)
          /\ Found(z) = Found(y)
          /\ y = t => Current(z)
          /\ Current(y) /\ (y.flags = None \/ fixes > 0) => z = y
          /\ z = y \/ y = t \/ (y.flags # None /\ t.flags = None)
      BY <1>1, <1>2, <1>3, <1>4, <1>8, <3>1, ReplacedLine DEF hash
    <3>3. ~Current(t)
      BY <1>8 DEF Current, hash
    <3>4. t.flags = None => fixes = 0
      BY <1>3, <1>6, <3>3
    <3> HIDE DEF y, z
    <3>5. Kept(y, z, t)
      BY <1>5, <1>8, <3>2, <3>4 DEF Kept
    <3> QED
      BY <3>1, <3>5 DEF y
  <2> QED
    BY <2>3, <2>4, <2>5 DEF t
<1>9. CASE ~(job.fix /\ hash \notin {None, t.hash})
  <2>1. docs' = docs
    BY <1>4, <1>9
  <2>2. Found(t) /\ job.fix => Current(t)
    BY <1>4, <1>5, <1>9 DEF Current
  <2>3. \A y : Kept(y, y, t)
    BY <2>2 DEF Kept, SameCommand
  <2> QED
    BY <1>6, <2>1, <2>3
<1> QED
  BY <1>8, <1>9

\* n commands of a file were looked at, and b of its a commands are left.
LEMMA PlacesLeft ==
  ASSUME NEW a \in Nat, NEW b \in Nat, NEW n \in Nat, b > 0, n = a - b
  PROVE  /\ a - (b - 1) = n + 1 /\ n + 1 \in 1..a
         /\ \A i \in 1..(b - 1) :
              i + 1 \in 1..b /\ n + (i + 1) = n + 1 + i /\ n + (i + 1) \in 1..a
<1> QED
  OBVIOUS

LEMMA LookAtKeeps ==
  ASSUME HashInv, LookAt
  PROVE  HashInv'
<1> DEFINE t == Head(job.todo)
           hash == HashByPackageLine(t)
           F == job.file
<1>1. HashTypeOK /\ FixesKept /\ TwoFixesSuffice /\ RunInv /\ job # None /\ job.todo # <<>>
  BY DEF HashInv, LookAt
<1>2. UNCHANGED <<packages, fixes>>
  BY DEF LookAt
<1>3. \A l : Current(l)' = Current(l) /\ FixedOnce(l)' = FixedOnce(l)
  BY <1>2, RegistryKept
<1>4. CASE outcome' # None
  <2>1. docs' = docs /\ job' = None /\ outcome' = "raised"
    BY <1>1, <1>4 DEF LookAt, RunInv
  <2>2. FixesKept' /\ TwoFixesSuffice'
    BY <1>1, <1>2, <1>3, <2>1 DEF FixesKept, TwoFixesSuffice
  <2> QED
    BY <1>1, <1>2, <1>4, <2>1, <2>2
       DEF HashInv, HashTypeOK, CheckTruthful, RunInv, Outcomes
<1>5. CASE outcome' = None
  <2> DEFINE old == docs[F]
             new == docs'[F]
             n == Seen
             rest == Tail(job.todo)
  <2>1. /\ job \in Runs /\ F \in 1..Files /\ old \in Seq(LineRecords) /\ Len(old) \in Nat
        /\ t \in LineRecords /\ t = job.todo[1]
        /\ Len(job.todo) \in Nat /\ Len(job.todo) > 0
        /\ rest \in Seq(LineRecords)
        /\ Len(rest) = Len(job.todo) - 1
        /\ \A i \in 1..Len(rest) : rest[i] = job.todo[i + 1]
    BY <1>1, TodoHead DEF Runs
  <2> HIDE DEF rest
  <2>2. /\ docs' \in [1..Files -> Seq(LineRecords)]
        /\ \A f \in 1..Files : f # F => docs'[f] = docs[f]
        /\ Len(new) = Len(old)
        /\ \A i \in 1..Len(old) : Kept(old[i], new[i], t)
    BY <1>5, LookAtLines
  <2>3. /\ ~LineRaises(t)
        /\ outcome' = outcome
        /\ job' = [job EXCEPT !.todo = rest, !.matches = @ + 1,
                              !.errors = @ \/ hash = None,
                              !.mismatches = @ \/ hash \notin {None, t.hash}]
    BY <1>5, HashAssumption, Zenon DEF LookAt, Outcomes, rest
  <2> HIDE DEF hash, t
  <2>4. /\ job' \in Runs /\ job'.fix = job.fix /\ job'.file = F /\ job'.todo = rest
        /\ ~job'.errors => ~job.errors /\ hash # None
        /\ ~job'.mismatches => ~job.mismatches /\ hash \in {None, t.hash}
    <3>1. job' = [fix |-> job.fix, file |-> F, todo |-> rest,
                  errors |-> (job.errors \/ hash = None),
                  mismatches |-> (job.mismatches \/ hash \notin {None, t.hash}),
                  matches |-> job.matches + 1]
      BY <2>1, <2>3 DEF Runs
    <3>2. job.fix \in BOOLEAN /\ job.matches + 1 \in Nat
      BY <2>1 DEF Runs
    <3>3. (job.errors \/ hash = None) \in BOOLEAN
          /\ (job.mismatches \/ hash \notin {None, t.hash}) \in BOOLEAN
      BY Zenon
    <3>4. job' \in Runs
      BY <2>1, <3>1, <3>2, <3>3, Zenon DEF Runs
    <3> QED
      BY <3>1, <3>4, Zenon
  <2>5. outcome = None /\ n \in Nat /\ n = Len(old) - Len(job.todo)
    BY <1>1 DEF RunInv, Seen
  <2>6. /\ Seen' = n + 1 /\ n + 1 \in 1..Len(old)
        /\ \A i \in 1..Len(rest) :
             /\ i + 1 \in 1..Len(job.todo)
             /\ n + (i + 1) = n + 1 + i /\ n + (i + 1) \in 1..Len(old)
    <3>1. Seen' = Len(old) - (Len(job.todo) - 1)
      BY <2>1, <2>2, <2>4 DEF Seen
    <3> HIDE DEF n, old
    <3> QED
      BY <2>1, <2>5, <3>1, PlacesLeft
  <2>7. /\ \A f \in 1..Files : DOMAIN docs[f] = 1..Len(docs[f])
        /\ \A f \in 1..Files : DOMAIN docs'[f] = 1..Len(docs'[f])
    BY <1>1, <2>2, LenProperties DEF HashTypeOK
  <2> HIDE DEF n
  <2>8. ASSUME NEW f \in 1..Files, NEW i \in DOMAIN docs'[f]
        PROVE  /\ i \in DOMAIN docs[f]
               /\ Kept(docs[f][i], docs'[f][i], t) \/ docs'[f] = docs[f]
    BY <2>1, <2>2, <2>7
  <2>9. FixesKept' /\ TwoFixesSuffice'
    <3>1. ASSUME NEW f \in 1..Files, NEW i \in DOMAIN docs'[f]
          PROVE  /\ i \in DOMAIN docs[f]
                 /\ FixedOnce(docs[f][i]) => FixedOnce(docs'[f][i])
                 /\ fixes > 0 /\ Current(docs[f][i]) => Current(docs'[f][i])
      BY <2>8, <3>1, KeptLine
    <3>2. FixesKept'
      BY <1>1, <1>2, <1>3, <3>1 DEF FixesKept
    <3>3. fixes >= 2 => fixes > 0
      BY <1>1 DEF HashTypeOK
    <3>4. TwoFixesSuffice'
      BY <1>1, <1>2, <1>3, <3>1, <3>3 DEF TwoFixesSuffice
    <3> QED
      BY <3>2, <3>4
  <2>10. \A l, r : Waiting(l, r)' = Waiting(l, r) /\ Passed(l)' = Passed(l)
    BY <1>2, <2>4, RunKept
  <2>11. ASSUME NEW i \in 1..Len(rest)
         PROVE  /\ fixes > 0 /\ rest[i].flags = None => Current(rest[i])
                /\ Waiting(new[n + 1 + i], rest[i])
    <3>1. i + 1 \in 1..Len(job.todo) /\ rest[i] = job.todo[i + 1]
      BY <2>1, <2>6
    <3>2. /\ fixes > 0 /\ job.todo[i + 1].flags = None => Current(job.todo[i + 1])
          /\ Waiting(old[n + (i + 1)], job.todo[i + 1])
      BY <1>1, <3>1 DEF RunInv, n
    <3>3. n + (i + 1) = n + 1 + i /\ n + (i + 1) \in 1..Len(old)
      BY <2>6
    <3>4. Waiting(new[n + (i + 1)], job.todo[i + 1])
      BY <2>2, <3>2, <3>3, KeptWaiting
    <3> QED
      BY <3>1, <3>2, <3>3, <3>4
  <2>12. ASSUME ~job'.errors, job'.fix \/ ~job'.mismatches,
                NEW f \in 1..Files, NEW i \in DOMAIN docs'[f],
                f < F \/ (f = F /\ i =< n + 1)
         PROVE  Passed(docs'[f][i])
    <3>1. ~job.errors /\ (job.fix \/ ~job.mismatches) /\ hash # None
          /\ (job.fix \/ hash = t.hash)
      BY <2>4, <2>12
    <3>2. \A g \in 1..Files : \A j \in DOMAIN docs[g] :
            g < F \/ (g = F /\ j =< n) => Passed(docs[g][j])
      BY <1>1, <3>1 DEF RunInv, n
    <3>3. CASE f = F /\ i = n + 1
      <4>1. Waiting(old[n + 1], t)
        BY <1>1, <2>1 DEF RunInv, n
      <4>2. n + 1 \in 1..Len(old) /\ old[n + 1] \in LineRecords
        BY <2>1, <2>6, ElementOfSeq, Zenon
      <4>3. Found(t) /\ (job.fix \/ Current(t))
        BY <2>3, <3>1 DEF Found, Current, hash
      <4>4. Kept(old[n + 1], new[n + 1], t)
        BY <2>2, <4>2
      <4> QED
        BY <3>3, <4>1, <4>2, <4>3, <4>4, KeptPassed
    <3>4. CASE ~(f = F /\ i = n + 1)
      <4>1. i \in DOMAIN docs[f] /\ (f < F \/ (f = F /\ i =< n))
        <5>1. i \in 1..Len(docs'[f])
          BY <2>7
        <5>2. Len(docs[f]) = Len(docs'[f]) /\ Len(docs[f]) \in Nat
          BY <1>1, <2>2, LenProperties DEF HashTypeOK
        <5>3. i \in Nat /\ f \in Nat /\ F \in Nat /\ (f < F \/ (f = F /\ i =< n + 1))
          BY <2>1, <2>12, <5>1, <5>2
        <5>4. f = F => i # n + 1
          BY <3>4
        <5>5. f < F \/ (f = F /\ i =< n)
          BY <2>5, <5>3, <5>4
        <5> QED
          BY <2>7, <5>1, <5>2, <5>5
      <4>2. Passed(docs[f][i])
        BY <3>2, <4>1
      <4> QED
        BY <2>8, <4>2, KeptLine
    <3> QED
      BY <3>3, <3>4
  <2>13. RunInv'
    <3>1. \A i \in 1..Len(job'.todo) :
             /\ (fixes > 0 /\ job.todo[i].flags = None => Current(job.todo[i]))'
             /\ Waiting(docs[job.file][Seen + i], job.todo[i])'
      BY <1>2, <1>3, <2>4, <2>6, <2>10, <2>11
    <3>2. ~job'.errors /\ (job'.fix \/ ~job'.mismatches) =>
            \A f \in 1..Files : \A i \in DOMAIN docs'[f] :
              f < job'.file \/ (f = job'.file /\ i =< Seen') => Passed(docs[f][i])'
      BY <2>4, <2>6, <2>10, <2>12
    <3>3. Seen' \in Nat /\ outcome' = None
      BY <2>3, <2>5, <2>6
    <3> QED
      BY <3>1, <3>2, <3>3, Zenon DEF RunInv
  <2>14. CheckTruthful'
    BY <2>3, <2>5, HashAssumption DEF CheckTruthful, Outcomes
  <2>15. HashTypeOK'
    BY <1>1, <1>2, <2>2, <2>3, <2>4 DEF HashTypeOK
  <2> QED
    BY <2>9, <2>13, <2>14, <2>15 DEF HashInv
<1> QED
  BY <1>4, <1>5

-----------------------------------------------------------------------------
(* The other steps *)

LEMMA HashInvInit ==
  ASSUME HashInit
  PROVE  HashInv
<1>1. docs \in [1..Files -> Seq(LineRecords)] /\ packages \in Seq(PackageRecords)
  BY HashAssumption DEF HashInit
<1>2. fixes = 0 /\ job = None /\ outcome = None
  BY DEF HashInit
<1>3. HashTypeOK
  BY <1>1, <1>2 DEF HashTypeOK
<1>4. FixesKept /\ TwoFixesSuffice /\ RunInv
  BY <1>2 DEF FixesKept, TwoFixesSuffice, RunInv
<1>5. CheckTruthful
  BY <1>2, HashAssumption DEF CheckTruthful, Outcomes
<1> QED
  BY <1>3, <1>4, <1>5 DEF HashInv

LEMMA ReleaseKeeps ==
  ASSUME HashInv, NEW i \in DOMAIN packages, Release(i)
  PROVE  HashInv'
<1>1. fixes' = 0 /\ job' = None /\ outcome' = None /\ docs' = docs
  BY DEF Release
<1>2. packages' \in Seq(PackageRecords)
  <2>1. packages \in Seq(PackageRecords) /\ DOMAIN packages = 1..Len(packages)
        /\ Len(packages) \in Nat
    BY LenProperties DEF HashInv, HashTypeOK
  <2>2. packages \in [1..Len(packages) -> PackageRecords]
    BY <2>1
  <2>3. [packages[i] EXCEPT !.hash = NewHash] \in PackageRecords
    BY <2>1, <2>2, HashAssumption DEF PackageRecords
  <2>4. packages' = [packages EXCEPT ![i] = [packages[i] EXCEPT !.hash = NewHash]]
    BY DEF Release
  <2>5. packages' \in [1..Len(packages) -> PackageRecords]
    BY <2>2, <2>3, <2>4
  <2> QED
    BY <2>1, <2>5, IsSequence
<1>3. HashTypeOK'
  BY <1>1, <1>2 DEF HashInv, HashTypeOK
<1>4. (FixesKept /\ TwoFixesSuffice /\ RunInv)'
  BY <1>1 DEF FixesKept, TwoFixesSuffice, RunInv
<1>5. CheckTruthful'
  BY <1>1, HashAssumption DEF CheckTruthful, Outcomes
<1> QED
  BY <1>3, <1>4, <1>5 DEF HashInv

\* A file is read: its commands are those of the run's list, whatever they are.
LEMMA ReadWaits ==
  ASSUME HashInv, packages' = packages, docs' = docs, fixes' = fixes,
         NEW f \in 1..Files, NEW i \in 1..Len(docs[f])
  PROVE  /\ (fixes > 0 /\ docs[f][i].flags = None => Current(docs[f][i]))'
         /\ Waiting(docs[f][i], docs[f][i])'
<1>1. docs[f] \in Seq(LineRecords) /\ DOMAIN docs[f] = 1..Len(docs[f])
  BY LenProperties DEF HashInv, HashTypeOK
<1>2. fixes > 0 => FixedOnce(docs[f][i])
  BY <1>1 DEF HashInv, FixesKept
<1>3. Current(docs[f][i])' = Current(docs[f][i])
  BY RegistryKept
<1> QED
  BY <1>2, <1>3 DEF FixedOnce, Waiting, SameCommand

\* While the files stay as they are, so does what was said of them.
LEMMA SameDocs ==
  ASSUME HashInv, packages' = packages, docs' = docs, fixes' = fixes, outcome' = None
  PROVE  (FixesKept /\ TwoFixesSuffice /\ CheckTruthful)'
<1>1. \A l : Current(l)' = Current(l) /\ FixedOnce(l)' = FixedOnce(l)
  BY RegistryKept
<1>2. FixesKept' /\ TwoFixesSuffice'
  BY <1>1 DEF HashInv, FixesKept, TwoFixesSuffice
<1>3. CheckTruthful'
  BY HashAssumption DEF CheckTruthful, Outcomes
<1> QED
  BY <1>2, <1>3

LEMMA StartRunKeeps ==
  ASSUME HashInv, NEW fix \in BOOLEAN, StartRun(fix)
  PROVE  HashInv'
<1>1. /\ UNCHANGED <<packages, docs, fixes>> /\ outcome' = None
      /\ job' = [fix |-> fix, file |-> 1, todo |-> docs[1],
                 errors |-> FALSE, mismatches |-> FALSE, matches |-> 0]
  BY DEF StartRun
<1>2. 1 \in 1..Files /\ docs[1] \in Seq(LineRecords) /\ Len(docs[1]) \in Nat
  BY HashAssumption, LenProperties DEF HashInv, HashTypeOK
<1>3. job' \in Runs /\ job'.file = 1 /\ job'.todo = docs[1]
  BY <1>1, <1>2 DEF Runs
<1>4. HashTypeOK'
  BY <1>1, <1>3 DEF HashInv, HashTypeOK
<1>5. Seen' = 0
  BY <1>1, <1>2, <1>3 DEF Seen
<1>6. RunInv'
  <2>1. \A i \in 1..Len(job'.todo) :
          /\ (fixes > 0 /\ job.todo[i].flags = None => Current(job.todo[i]))'
          /\ Waiting(docs[job.file][Seen + i], job.todo[i])'
    <3>1. \A i \in 1..Len(docs[1]) : 0 + i = i
      BY <1>2
    <3> QED
      BY <1>1, <1>2, <1>3, <1>5, <3>1, ReadWaits
  <2>2. ~(\E f \in 1..Files : \E i \in DOMAIN docs'[f] :
            f < job'.file \/ (f = job'.file /\ i =< Seen'))
    <3>1. \A i \in DOMAIN docs[1] : ~(i =< 0)
      BY <1>2
    <3> QED
      BY <1>1, <1>3, <1>5, <3>1
  <2>3. Seen' \in Nat
    BY <1>5
  <2> QED
    BY <1>1, <2>1, <2>2, <2>3, Zenon DEF RunInv
<1> QED
  BY <1>1, <1>4, <1>6, SameDocs DEF HashInv

\* A file is done.
LEMMA FileDone ==
  ASSUME HashInv, job # None, job.todo = <<>>, ~job.errors, job.fix \/ ~job.mismatches,
         NEW f \in 1..Files, f =< job.file, NEW i \in DOMAIN docs[f]
  PROVE  Passed(docs[f][i])
<1>1. job.file \in 1..Files /\ docs[f] \in Seq(LineRecords)
  BY DEF HashInv, HashTypeOK, Runs
<1>2. i \in 1..Len(docs[f]) /\ Len(docs[f]) \in Nat
  BY <1>1, LenProperties
<1>3. f = job.file => i =< Seen
  BY <1>2, EmptySeq DEF Seen
<1> QED
  BY <1>1, <1>3 DEF HashInv, RunInv

LEMMA NextFileKeeps ==
  ASSUME HashInv, NextFile
  PROVE  HashInv'
<1> DEFINE n == job.file + 1
<1>1. /\ UNCHANGED <<packages, docs, outcome, fixes>>
      /\ job # None /\ job.todo = <<>> /\ job.file < Files
      /\ job' = [job EXCEPT !.file = n, !.todo = docs[n]]
  BY DEF NextFile
<1>2. job \in Runs /\ n \in 1..Files /\ docs[n] \in Seq(LineRecords) /\ Len(docs[n]) \in Nat
  BY <1>1, HashAssumption, LenProperties DEF HashInv, HashTypeOK, Runs
<1>3. /\ job' \in Runs /\ job'.file = n /\ job'.todo = docs[n] /\ job'.fix = job.fix
      /\ job'.errors = job.errors /\ job'.mismatches = job.mismatches
  BY <1>1, <1>2 DEF Runs
<1>4. HashTypeOK' /\ outcome = None
  BY <1>1, <1>3 DEF HashInv, HashTypeOK, RunInv
<1>5. Seen' = 0
  BY <1>1, <1>2, <1>3 DEF Seen
<1>6. RunInv'
  <2>1. \A i \in 1..Len(job'.todo) :
          /\ (fixes > 0 /\ job.todo[i].flags = None => Current(job.todo[i]))'
          /\ Waiting(docs[job.file][Seen + i], job.todo[i])'
    <3>1. \A i \in 1..Len(docs[n]) : 0 + i = i
      BY <1>2
    <3> QED
      BY <1>1, <1>2, <1>3, <1>5, <3>1, ReadWaits
  <2>2. ASSUME ~job'.errors, job'.fix \/ ~job'.mismatches,
               NEW f \in 1..Files, NEW i \in DOMAIN docs'[f],
               f < job'.file \/ (f = job'.file /\ i =< Seen')
        PROVE  Passed(docs[f][i])'
    <3>1. i \in DOMAIN docs[f] /\ (f < n \/ (f = n /\ i =< 0))
      BY <1>1, <1>3, <1>5, <2>2
    <3>2. f =< job.file
      <4>1. f = n => ~(i =< 0)
        BY <1>2, <3>1, LenProperties
      <4> QED
        BY <1>2, <3>1, <4>1 DEF Runs
    <3>3. Passed(docs[f][i])
      BY <1>1, <1>3, <2>2, <3>1, <3>2, FileDone
    <3> QED
      BY <1>1, <1>3, <3>3, RunKept
  <2>3. Seen' \in Nat
    BY <1>5
  <2> QED
    BY <1>1, <1>4, <2>1, <2>2, <2>3, Zenon DEF RunInv
<1> QED
  BY <1>1, <1>4, <1>6, SameDocs DEF HashInv

LEMMA EndRunKeeps ==
  ASSUME HashInv, EndRun
  PROVE  HashInv'
<1>1. /\ UNCHANGED <<packages, docs>> /\ job' = None
      /\ job # None /\ job.todo = <<>> /\ job.file = Files
      /\ fixes' = IF outcome' = "fixed" /\ fixes < 2 THEN fixes + 1 ELSE fixes
  BY DEF EndRun
<1>2. /\ outcome' \in Outcomes
      /\ outcome' = "fixed" => job.fix /\ ~job.errors
      /\ outcome' = "checked" => ~job.fix /\ ~job.errors /\ ~job.mismatches
  BY DEF EndRun, Outcomes
<1>3. fixes \in 0..2
  BY DEF HashInv, HashTypeOK
<1>4. ASSUME ~job.errors, job.fix \/ ~job.mismatches, NEW f \in 1..Files, NEW i \in DOMAIN docs[f]
      PROVE  Passed(docs[f][i])
  BY <1>1, <1>4, FileDone, HashAssumption
<1>5. \A l : Current(l)' = Current(l) /\ FixedOnce(l)' = FixedOnce(l)
  BY <1>1, RegistryKept
<1>6. FixesKept'
  <2>1. CASE outcome' = "fixed"
    <3>1. \A f \in 1..Files : \A i \in DOMAIN docs[f] : FixedOnce(docs[f][i])
      BY <1>2, <1>4, <2>1 DEF Passed
    <3> QED
      BY <1>1, <1>5, <3>1 DEF FixesKept
  <2>2. CASE outcome' # "fixed"
    BY <1>1, <1>5, <2>2 DEF HashInv, FixesKept
  <2> QED
    BY <2>1, <2>2
<1>7. TwoFixesSuffice'
  <2>1. CASE outcome' = "fixed" /\ fixes = 1
    <3>1. \A f \in 1..Files : \A i \in DOMAIN docs[f] : Current(docs[f][i])
      BY <1>2, <1>4, <2>1 DEF Passed
    <3> QED
      BY <1>1, <1>5, <3>1 DEF TwoFixesSuffice
  <2>2. CASE ~(outcome' = "fixed" /\ fixes = 1)
    <3>1. fixes' >= 2 => fixes >= 2
      BY <1>1, <1>3, <2>2
    <3> QED
      BY <1>1, <1>5, <3>1 DEF HashInv, TwoFixesSuffice
  <2> QED
    BY <2>1, <2>2
<1>8. CheckTruthful'
  <2> SUFFICES ASSUME outcome' = "checked"
               PROVE  \A f \in 1..Files : \A i \in DOMAIN docs[f] : Current(docs[f][i])
    BY <1>1, <1>5 DEF CheckTruthful
  <2> QED
    BY <1>2, <1>4 DEF Passed
<1>9. HashTypeOK' /\ RunInv'
  BY <1>1, <1>2, <1>3 DEF HashInv, HashTypeOK, RunInv
<1> QED
  BY <1>6, <1>7, <1>8, <1>9 DEF HashInv

LEMMA HashStutter ==
  ASSUME HashInv, UNCHANGED hashVars
  PROVE  HashInv'
<1>1. /\ packages' = packages /\ docs' = docs /\ job' = job /\ outcome' = outcome
      /\ fixes' = fixes /\ job'.fix = job.fix /\ Seen' = Seen
  BY DEF hashVars, Seen
<1>2. \A l, r : /\ Current(l)' = Current(l) /\ FixedOnce(l)' = FixedOnce(l)
                /\ Waiting(l, r)' = Waiting(l, r) /\ Passed(l)' = Passed(l)
  BY <1>1, RegistryKept, RunKept
<1> QED
  BY <1>1, <1>2
     DEF HashInv, HashTypeOK, FixesKept, TwoFixesSuffice, CheckTruthful, RunInv

-----------------------------------------------------------------------------
\* scripts/check_doc_ipfs_hashes.py: the invariant of the files and of a run of the script.
LEMMA HashInvariant == HashSpec => []HashInv
<1>1. HashInit => HashInv
  BY HashInvInit
<1>2. HashInv /\ [HashNext]_hashVars => HashInv'
  <2> SUFFICES ASSUME HashInv, [HashNext]_hashVars
               PROVE  HashInv'
    OBVIOUS
  <2>1. ASSUME NEW i \in DOMAIN packages, Release(i)
        PROVE  HashInv'
    BY <2>1, ReleaseKeeps
  <2>2. ASSUME NEW fix \in BOOLEAN, StartRun(fix)
        PROVE  HashInv'
    BY <2>2, StartRunKeeps
  <2>3. CASE LookAt
    BY <2>3, LookAtKeeps
  <2>4. CASE NextFile
    BY <2>4, NextFileKeeps
  <2>5. CASE EndRun
    BY <2>5, EndRunKeeps
  <2>6. CASE UNCHANGED hashVars
    BY <2>6, HashStutter
  <2> QED
    BY <2>1, <2>2, <2>3, <2>4, <2>5, <2>6 DEF HashNext
<1> QED
  BY <1>1, <1>2, PTL DEF HashSpec

\* Two runs of the script with --fix that end well (fix_ipfs_hashes, between two releases)
\* leave every command of every file with the hash of packages.json.
THEOREM TwoFixesLeaveNoneStale == HashSpec => []TwoFixesSuffice
<1>1. HashInv => TwoFixesSuffice
  BY DEF HashInv
<1> QED
  BY <1>1, HashInvariant, PTL

\* A run without --fix that ends well (check_ipfs_hashes) tells the truth: until the next
\* run or release, every command of every file has the hash of packages.json.
THEOREM ChecksAreTruthful == HashSpec => []CheckTruthful
<1>1. HashInv => CheckTruthful
  BY DEF HashInv
<1> QED
  BY <1>1, HashInvariant, PTL

=============================================================================
