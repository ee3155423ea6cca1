---------------------------- MODULE ScriptProofs ----------------------------
(***************************************************************************)
(* Proofs about CopyrightHeaders and DocLinks, for every sequence of       *)
(* years, commits and corrections, every documentation and any number of   *)
(* threads.                                                                *)
(***************************************************************************)
EXTENDS CopyrightHeaders, DocLinks, TLAPS

-----------------------------------------------------------------------------
(* CopyrightHeaders *)

LEMMA ModificationType ==
  ASSUME HeaderTypeOK
  PROVE  ModificationYear \in Int /\ ModificationYear =< year
<1> QED
  BY DEF HeaderTypeOK, ModificationYear

LEMMA HeaderTypeInit == HeaderInit => HeaderTypeOK
<1> QED
  BY YearsAssumption DEF HeaderInit, HeaderTypeOK, Years

\* What the tool rewrites has a year at both ends.
LEMMA FixedType ==
  ASSUME HeaderTypeOK, Fixable
  PROVE  /\ FixedHeader \in [start : Int, end : Int \cup {Missing}]
         /\ FixedHeader # Missing
<1>1. header # Missing
  BY DEF Fixable, ErrorType
<1>2. header \in [start : Int, end : Int \cup {Missing}]
  BY <1>1 DEF HeaderTypeOK
<1>3. header.start \in Int /\ ModificationYear \in Int
  BY <1>2, ModificationType
<1>4. FixedHeader \in [start : Int, end : Int \cup {Missing}]
  BY <1>3 DEF FixedHeader
<1> QED
  BY <1>4, YearsAssumption

LEMMA HeaderTypeStep == HeaderTypeOK /\ [HeaderNext]_headerVars => HeaderTypeOK'
<1> SUFFICES ASSUME HeaderTypeOK, [HeaderNext]_headerVars
             PROVE  HeaderTypeOK'
  OBVIOUS
<1>1. CASE NewYear
  BY <1>1 DEF NewYear, HeaderTypeOK
<1>2. CASE EditFile
  BY <1>2 DEF EditFile, HeaderTypeOK
<1>3. CASE Commit
  BY <1>3 DEF Commit, HeaderTypeOK
<1>4. CASE UpdateHeaders
  BY <1>4, FixedType DEF UpdateHeaders, HeaderTypeOK
<1>5. CASE UNCHANGED headerVars
  BY <1>5 DEF headerVars, HeaderTypeOK
<1> QED
  BY <1>1, <1>2, <1>3, <1>4, <1>5 DEF HeaderNext

\* The year of the modification never goes back: the last commit is not later than
\* the present.
LEMMA ModificationGrows ==
  ASSUME HeaderTypeOK, [HeaderNext]_headerVars
  PROVE  /\ ModificationYear \in Int /\ ModificationYear' \in Int
         /\ ModificationYear =< ModificationYear'
<1>1. year' \in Int /\ year =< year'
  BY DEF HeaderNext, HeaderTypeOK, NewYear, EditFile, Commit, UpdateHeaders, headerVars
<1>2. committed' = committed \/ committed' = year
  BY DEF HeaderNext, NewYear, EditFile, Commit, UpdateHeaders, headerVars
<1>3. year \in Int /\ year # Missing
  BY YearsAssumption DEF HeaderTypeOK
<1>4. CASE committed = Missing
  BY <1>1, <1>2, <1>3, <1>4 DEF ModificationYear
<1>5. CASE committed # Missing
  <2>1. committed \in Int /\ committed =< year
    BY <1>5 DEF HeaderTypeOK
  <2> QED
    BY <1>1, <1>2, <1>3, <1>5, <2>1 DEF ModificationYear
<1> QED
  BY <1>4, <1>5

\* A header without an error is orderly ...
LEMMA NoErrorOrderly ==
  ASSUME HeaderTypeOK, NEW s \in START_YEARS, ErrorType = "NO_ERROR", header.start = s
  PROVE  Orderly(s)
<1>1. header # Missing
  BY DEF ErrorType
<1>2. header \in [start : Int, end : Int \cup {Missing}]
  BY <1>1 DEF HeaderTypeOK
<1>3. ModificationYear \in Int
  BY ModificationType
<1>4. header.end # Missing => s =< header.end /\ header.end = ModificationYear
  BY <1>1, <1>2, <1>3 DEF ErrorType, START_YEARS
<1> QED
  BY <1>1, <1>3, <1>4 DEF Orderly

\* ... and no orderly header has its start after its end, or a start year that is not
\* allowed, whichever year it is.
LEMMA OrderlyErrors ==
  ASSUME HeaderTypeOK, NEW s \in START_YEARS, Orderly(s), Fixable
  PROVE  /\ ErrorType \in {"END_YEAR_WRONG", "END_YEAR_MISSING"}
         /\ s =< ModificationYear
<1>1. header \in [start : Int, end : Int \cup {Missing}] /\ header.start = s
  BY DEF HeaderTypeOK, Orderly
<1>2. ModificationYear \in Int /\ s \in Int
  BY ModificationType DEF START_YEARS
<1>3. CASE header.end = Missing
  BY <1>1, <1>2, <1>3 DEF ErrorType, Fixable
<1>4. CASE header.end # Missing
  <2>1. header.end \in Int /\ s =< header.end /\ header.end =< ModificationYear
    BY <1>1, <1>4 DEF Orderly
  <2> QED
    BY <1>1, <1>2, <1>4, <2>1 DEF ErrorType, Fixable
<1> QED
  BY <1>3, <1>4

LEMMA OrderlyStep ==
  ASSUME HeaderTypeOK, NEW s \in START_YEARS, Orderly(s), [HeaderNext]_headerVars
  PROVE  Orderly(s)'
<1>1. /\ ModificationYear \in Int /\ ModificationYear' \in Int
      /\ ModificationYear =< ModificationYear'
  BY ModificationGrows
<1>2. header # Missing /\ header \in [start : Int, end : Int \cup {Missing}]
  BY DEF HeaderTypeOK, Orderly
<1>3. CASE header' = header
  <2>1. header.end # Missing => header.end \in Int
    BY <1>2
  <2> QED
    BY <1>1, <1>3, <2>1 DEF Orderly, START_YEARS
<1>4. CASE UpdateHeaders
  <2>1. /\ ErrorType \in {"END_YEAR_WRONG", "END_YEAR_MISSING"}
        /\ s =< ModificationYear
    BY <1>4, OrderlyErrors DEF UpdateHeaders
  <2>2. header' = [start |-> s, end |-> ModificationYear]
    BY <1>4, <2>1 DEF UpdateHeaders, FixedHeader, Orderly
  <2>3. header' # Missing
    BY <1>4, FixedType DEF UpdateHeaders
  <2> QED
    BY <1>1, <2>1, <2>2, <2>3 DEF Orderly
<1> QED
  BY <1>3, <1>4 DEF HeaderNext, NewYear, EditFile, Commit, headerVars

\* A header that was in order once keeps its first year for ever: fix_header never
\* takes the branch that swaps the years again, as the year of the modification does
\* not go back.
THEOREM FirstYearStays == HeaderSpec => StartYearKept
<1> SUFFICES ASSUME NEW s \in START_YEARS
             PROVE  HeaderSpec =>
                      [](ErrorType = "NO_ERROR" /\ header.start = s
                           => [](header # Missing /\ header.start = s))
  BY DEF StartYearKept
<1>1. HeaderInit => HeaderTypeOK
  BY HeaderTypeInit
<1>2. HeaderTypeOK /\ [HeaderNext]_headerVars => HeaderTypeOK'
  BY HeaderTypeStep
<1>3. HeaderTypeOK /\ ErrorType = "NO_ERROR" /\ header.start = s => Orderly(s)
  BY NoErrorOrderly
<1>4. HeaderTypeOK /\ Orderly(s) /\ [HeaderNext]_headerVars => Orderly(s)'
  BY OrderlyStep
<1>5. Orderly(s) => header # Missing /\ header.start = s
  BY DEF Orderly
<1> QED
  BY <1>1, <1>2, <1>3, <1>4, <1>5, PTL DEF HeaderSpec

-----------------------------------------------------------------------------
(* DocLinks *)

LEMMA LengthIsNatural ==
  ASSUME LinkTypeOK, NEW f \in FileIds
  PROVE  Len(links[f]) \in Nat
<1> QED
  BY DEF LinkTypeOK

LEMMA LinkInvInit == LinkInit => LinkInv
<1> SUFFICES ASSUME LinkInit
             PROVE  LinkInv
  OBVIOUS
<1>1. LinkTypeOK
  BY DocumentationAssumption DEF LinkInit, LinkTypeOK
<1>2. PassedNoted
  BY <1>1, LengthIsNatural DEF LinkInit, PassedNoted
<1>3. EndedExamined
  BY DEF LinkInit, EndedExamined
<1> QED
  BY <1>1, <1>2, <1>3 DEF LinkInv

\* The task that examines a link is running, so nobody relies on its end yet, and
\* the link is noted if it has no TLS.
LEMMA ExamineKeeps ==
  ASSUME LinkInv, NEW f \in FileIds, NEW answer \in Answers, ExamineLink(f, answer)
  PROVE  LinkInv'
<1> DEFINE link == links[f][pos[f] + 1]
<1>1. LinkTypeOK /\ PassedNoted /\ EndedExamined
  BY DEF LinkInv
<1>2. /\ task[f] = "running" /\ pos[f] < Len(links[f]) /\ pos[f] \in Nat
      /\ pos' = [pos EXCEPT ![f] = @ + 1]
      /\ links' = links /\ exit' = exit
  BY <1>1 DEF ExamineLink, LinkTypeOK
<1>3. httpLinks' = IF Secure(link) THEN httpLinks ELSE httpLinks \cup {f}
  BY DEF ExamineLink
<1>4. task' = task \/ task' = [task EXCEPT ![f] = "raised"]
  BY DEF ExamineLink
<1>5. brokenLinks' = brokenLinks \/ brokenLinks' = brokenLinks \cup {f}
  BY DEF ExamineLink
<1>6. LinkTypeOK'
  <2>1. task' \in [FileIds -> {"queued", "running", "done", "raised"}]
    BY <1>1, <1>4 DEF LinkTypeOK
  <2>2. pos' \in [FileIds -> Nat]
    BY <1>1, <1>2 DEF LinkTypeOK
  <2>3. httpLinks' \subseteq FileIds /\ brokenLinks' \subseteq FileIds
    BY <1>1, <1>3, <1>5, Zenon DEF LinkTypeOK
  <2> QED
    BY <1>1, <1>2, <2>1, <2>2, <2>3 DEF LinkTypeOK
<1>7. Len(links[f]) \in Nat
  BY <1>1, LengthIsNatural
<1>8. Secure(link) \/ f \in httpLinks'
  BY <1>3
<1>9. httpLinks \subseteq httpLinks'
  BY <1>3
<1> HIDE DEF link
<1>10. PassedNoted'
  <2> SUFFICES ASSUME NEW g \in FileIds
               PROVE  /\ pos'[g] =< Len(links[g])
                      /\ \A i \in 1..pos'[g] : Secure(links[g][i]) \/ g \in httpLinks'
    BY <1>2 DEF PassedNoted
  <2>1. CASE g # f
    <3>1. pos'[g] = pos[g]
      BY <1>1, <1>2, <2>1 DEF LinkTypeOK
    <3> QED
      BY <1>1, <1>9, <3>1 DEF PassedNoted
  <2>2. CASE g = f
    <3>1. pos'[f] = pos[f] + 1 /\ pos'[f] =< Len(links[f])
      BY <1>1, <1>2, <1>7 DEF LinkTypeOK
    <3>2. ASSUME NEW i \in 1..(pos[f] + 1)
          PROVE  Secure(links[f][i]) \/ f \in httpLinks'
      <4>1. CASE i \in 1..pos[f]
        BY <1>1, <1>9, <4>1 DEF PassedNoted
      <4>2. CASE i = pos[f] + 1
        BY <1>8, <4>2 DEF link
      <4> QED
        BY <1>2, <4>1, <4>2
    <3> QED
      BY <2>2, <3>1, <3>2
  <2> QED
    BY <2>1, <2>2
<1>11. EndedExamined'
  <2>1. ASSUME NEW g \in FileIds, task'[g] = "done"
        PROVE  pos'[g] = Len(links'[g])
    <3>1. g # f /\ task[g] = "done"
      BY <1>1, <1>2, <1>4, <2>1 DEF LinkTypeOK
    <3> QED
      BY <1>1, <1>2, <3>1 DEF LinkTypeOK, EndedExamined
  <2>2. exit' # "ok"
    BY <1>1, <1>2 DEF EndedExamined
  <2> QED
    BY <2>1, <2>2 DEF EndedExamined
<1> QED
  BY <1>6, <1>10, <1>11 DEF LinkInv

LEMMA LinkInvStep == LinkInv /\ [LinkNext]_linkVars => LinkInv'
<1> SUFFICES ASSUME LinkInv, [LinkNext]_linkVars
             PROVE  LinkInv'
  OBVIOUS
<1>1. LinkTypeOK /\ PassedNoted /\ EndedExamined
  BY DEF LinkInv
<1>2. ASSUME NEW f \in FileIds, StartTask(f)
      PROVE  LinkInv'
  <2>1. /\ task[f] = "queued" /\ task' = [task EXCEPT ![f] = "running"]
        /\ UNCHANGED <<links, pos, httpLinks, brokenLinks, exit>>
    BY <1>2 DEF StartTask
  <2>2. LinkTypeOK' /\ PassedNoted'
    BY <1>1, <2>1 DEF LinkTypeOK, PassedNoted
  <2>3. \A g \in FileIds : task'[g] = "done" => task[g] = "done"
    BY <1>1, <2>1 DEF LinkTypeOK
  <2>4. exit # "ok"
    BY <1>1, <2>1 DEF EndedExamined
  <2>5. EndedExamined'
    BY <1>1, <2>1, <2>3, <2>4 DEF EndedExamined
  <2> QED
    BY <2>2, <2>5 DEF LinkInv
<1>3. ASSUME NEW f \in FileIds, EndTask(f)
      PROVE  LinkInv'
  <2>1. /\ task[f] = "running" /\ pos[f] = Len(links[f])
        /\ task' = [task EXCEPT ![f] = "done"]
        /\ UNCHANGED <<links, pos, httpLinks, brokenLinks, exit>>
    BY <1>3 DEF EndTask
  <2>2. LinkTypeOK' /\ PassedNoted'
    BY <1>1, <2>1 DEF LinkTypeOK, PassedNoted
  <2>3. \A g \in FileIds : task'[g] = "done" => task[g] = "done" \/ g = f
    BY <1>1, <2>1 DEF LinkTypeOK
  <2>4. exit # "ok"
    BY <1>1, <2>1 DEF EndedExamined
  <2>5. EndedExamined'
    BY <1>1, <2>1, <2>3, <2>4 DEF EndedExamined
  <2> QED
    BY <2>2, <2>5 DEF LinkInv
<1>4. CASE Collect
  <2>1. /\ UNCHANGED <<links, task, pos, httpLinks, brokenLinks>>
        /\ \A f \in FileIds : task[f] \in {"done", "raised"}
        /\ exit' \in {"raised", "ok", "exit_1"}
    BY <1>4 DEF Collect
  <2>2. exit' = "ok" =>
          /\ httpLinks = {} /\ brokenLinks = {}
          /\ ~\E f \in FileIds : task[f] = "raised"
    BY <1>4 DEF Collect
  <2>3. LinkTypeOK' /\ PassedNoted'
    BY <1>1, <2>1 DEF LinkTypeOK, PassedNoted
  <2>4. EndedExamined'
    BY <1>1, <2>1, <2>2 DEF EndedExamined
  <2> QED
    BY <2>3, <2>4 DEF LinkInv
<1>5. CASE UNCHANGED linkVars
  BY <1>1, <1>5 DEF linkVars, LinkInv, LinkTypeOK, PassedNoted, EndedExamined
<1> QED
  BY <1>2, <1>3, <1>4, <1>5, ExamineKeeps DEF LinkNext

\* "OK" is only said of a documentation all of whose links were examined, each of
\* them with TLS or known to have none, whichever thread was faster: the main thread
\* reads the shared lists after all tasks have ended, and none ends by an exception
\* unnoticed.
THEOREM OkMeansExamined == LinkSpec => []LinksExamined
<1>1. LinkInv => LinksExamined
  <2> SUFFICES ASSUME LinkInv, exit = "ok"
               PROVE  /\ httpLinks = {} /\ brokenLinks = {}
                      /\ \A f \in FileIds :
                           /\ pos[f] = Len(links[f])
                           /\ \A i \in 1..Len(links[f]) : Secure(links[f][i])
    BY DEF LinksExamined
  <2>1. /\ httpLinks = {} /\ brokenLinks = {}
        /\ \A f \in FileIds : pos[f] = Len(links[f])
    BY DEF LinkInv, EndedExamined
  <2>2. \A f \in FileIds : \A i \in 1..pos[f] : Secure(links[f][i])
    BY <2>1 DEF LinkInv, PassedNoted
  <2> QED
    BY <2>1, <2>2
<1> QED
  BY LinkInvInit, LinkInvStep, <1>1, PTL DEF LinkSpec

=============================================================================
