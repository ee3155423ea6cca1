-------------------------- MODULE CopyrightHeaders --------------------------
(***************************************************************************)
(* scripts/check_copyright.py: the years in the copyright header of a file *)
(* are compared with the year of its last commit, and corrected.  Files    *)
(* are independent of one another; here is one.                            *)
(***************************************************************************)
EXTENDS Integers

CONSTANTS
  FirstYear, LastYear,  \* the years of a behaviour
  MaxEdits,             \* how often the file is changed by others
  Missing

ASSUME YearsAssumption ==
  /\ FirstYear \in Nat
  /\ LastYear \in Nat
  /\ Missing \notin Int
  /\ Missing \notin [start : Int, end : Int \cup {Missing}]

START_YEARS == 2021..2023

Years == FirstYear..LastYear

VARIABLES
  year,       \* the present year
  header,     \* the years in the header (end may be Missing), or Missing without a header
  committed,  \* the year of the last commit of the file, Missing without one
  dirty,      \* the file has changed since then
  edits       \* how often others have changed the file

headerVars == <<year, header, committed, dirty, edits>>

-----------------------------------------------------------------------------
\* get_modification_date: the last commit counts, not the last change.
ModificationYear == IF committed = Missing THEN year ELSE committed

\* _validate_years and check_copyright: the first error that applies.
ErrorType ==
  IF header = Missing THEN "INVALID_HEADER"
  ELSE IF header.start \notin START_YEARS THEN "START_YEAR_NOT_ALLOWED"
  ELSE IF header.end = Missing
  THEN IF ModificationYear > header.start THEN "END_YEAR_MISSING" ELSE "NO_ERROR"
  ELSE IF header.start > header.end THEN "START_YEAR_GT_END_YEAR"
  ELSE IF header.end # ModificationYear THEN "END_YEAR_WRONG"
  ELSE "NO_ERROR"

\* Faulty variant of FixedHeader: a missing year is taken for a wrong one.
FixedHeaderKeepsMissing ==
  CASE ErrorType = "START_YEAR_GT_END_YEAR" ->
         [start |-> ModificationYear, end |-> header.start]
    [] OTHER ->
         [header EXCEPT !.end = IF @ = Missing THEN Missing ELSE ModificationYear]

\* Faulty variant of FixedHeader: the two years are swapped for each error.
FixedHeaderSwaps == [start |-> ModificationYear, end |-> header.start]

\* fix_header: with a start after the end the year of the modification becomes the
\* start, and the start becomes the end.
FixedHeader ==
  CASE ErrorType = "START_YEAR_GT_END_YEAR" ->
         [start |-> ModificationYear, end |-> header.start]
    [] OTHER ->
         [start |-> header.start, end |-> ModificationYear]

Fixable == ErrorType \in {"START_YEAR_GT_END_YEAR", "END_YEAR_WRONG", "END_YEAR_MISSING"}

-----------------------------------------------------------------------------
HeaderInit ==
  /\ year = FirstYear
  /\ header \in {Missing} \cup [start : Years, end : Years \cup {Missing}]
  /\ committed \in {Missing, FirstYear - 1, FirstYear}
  /\ dirty = (committed = Missing)
  /\ edits = 0

NewYear ==
  /\ year < LastYear
  /\ year' = year + 1
  /\ UNCHANGED <<header, committed, dirty, edits>>

EditFile ==
  /\ edits < MaxEdits
  /\ edits' = edits + 1
  /\ dirty' = TRUE
  /\ UNCHANGED <<year, header, committed>>

Commit ==
  /\ dirty
  /\ committed' = year
  /\ dirty' = FALSE
  /\ UNCHANGED <<year, header, edits>>

\* update_headers: the files with errors that can be fixed are rewritten.
UpdateHeaders ==
  /\ Fixable
  /\ header' = FixedHeader
  /\ dirty' = TRUE
  /\ UNCHANGED <<year, committed, edits>>

HeaderNext == NewYear \/ EditFile \/ Commit \/ UpdateHeaders

\* The tool is run, and what it has changed is committed, again and again.
HeaderFairness == WF_headerVars(Commit) /\ WF_headerVars(UpdateHeaders)

-----------------------------------------------------------------------------
(* Properties *)

\* Repeating fix and commit settles each header that the tool fixes at all: the check
\* passes, or what is left is an error that the tool never fixes.  One round is not
\* enough, as the commit of a fixed header is itself a modification.
HeaderSettles ==
  <>[](ErrorType \in {"NO_ERROR", "INVALID_HEADER", "START_YEAR_NOT_ALLOWED"})

\* The first year of a header that was in order once is kept, in whatever years the
\* file is changed, fixed and committed afterwards: the branch of fix_header that writes
\* the year of the modification first is never taken for it again.
StartYearKept ==
  \A s \in START_YEARS :
    [](ErrorType = "NO_ERROR" /\ header.start = s => [](header # Missing /\ header.start = s))

-----------------------------------------------------------------------------
(* The inductive invariants behind StartYearKept. *)

HeaderTypeOK ==
  /\ year \in Int
  /\ header \in {Missing} \cup [start : Int, end : Int \cup {Missing}]
  /\ committed \in Int \cup {Missing}
  /\ committed # Missing => committed =< year

\* The header has years that the tool corrects at their end only: the end is not
\* before the start and not after the modification.
Orderly(s) ==
  /\ header # Missing
  /\ header.start = s
  /\ header.end # Missing => s =< header.end /\ header.end =< ModificationYear

HeaderSpec == HeaderInit /\ [][HeaderNext]_headerVars

=============================================================================
