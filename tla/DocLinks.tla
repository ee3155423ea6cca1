------------------------------ MODULE DocLinks ------------------------------
(***************************************************************************)
(* scripts/check_doc_links.py: the links of the documentation are tried in *)
(* a pool of threads, one task for each file, and the main thread collects *)
(* the results.                                                            *)
(***************************************************************************)
EXTENDS Integers, SequencesExt

CONSTANTS
  \* The files are 1..LinkFiles.  A documentation gives each of them the sequence of
  \* its links, records with https, http_skip and url_skip.
  LinkFiles,
  Documentations,
  MAX_WORKERS

FileIds == 1..LinkFiles

LinkRecords == [https : BOOLEAN, http_skip : BOOLEAN, url_skip : BOOLEAN]

ASSUME DocumentationAssumption ==
  /\ LinkFiles \in Nat
  /\ Documentations \subseteq [FileIds -> Seq(LinkRecords)]

VARIABLES
  links,    \* the documentation that is checked
  task,     \* the state of each file's task: "queued", "running", "done" or "raised"
  pos,      \* how many links of the file are examined
  httpLinks, brokenLinks,  \* the files with such links, as far as examined
  exit      \* of the main thread: "running", "ok", "exit_1" or "raised"

linkVars == <<links, task, pos, httpLinks, brokenLinks, exit>>

LinkInit ==
  /\ links \in Documentations
  /\ task = [f \in FileIds |-> "queued"]
  /\ pos = [f \in FileIds |-> 0]
  /\ httpLinks = {}
  /\ brokenLinks = {}
  /\ exit = "running"

\* A thread that is free takes the next task.
StartTask(f) ==
  /\ task[f] = "queued"
  /\ \A g \in 1..(f - 1) : task[g] # "queued"
  /\ Cardinality({g \in FileIds : task[g] = "running"}) < MAX_WORKERS
  /\ task' = [task EXCEPT ![f] = "running"]
  /\ UNCHANGED <<links, pos, httpLinks, brokenLinks, exit>>

\* A link with TLS, or one that is known to have none.
Secure(link) == link.https \/ link.http_skip

\* check_file examines the next link.  Status 200 and 403 are fine; retries and
\* connections that fail count as broken; no other exception is caught (a link without
\* a scheme, a loop of redirections).
ExamineLink(f, answer) ==
  /\ task[f] = "running" /\ pos[f] < Len(links[f])
  /\ LET link == links[f][pos[f] + 1]
     IN  /\ httpLinks' = IF Secure(link) THEN httpLinks ELSE httpLinks \cup {f}
         /\ IF link.url_skip
            THEN answer = "none" /\ UNCHANGED <<task, brokenLinks>>
            ELSE /\ answer # "none"
                 /\ brokenLinks' = IF answer \in {"error_status", "failed"}
                                   THEN brokenLinks \cup {f} ELSE brokenLinks
                 /\ task' = IF answer = "exception" THEN [task EXCEPT ![f] = "raised"]
                                                  ELSE task
  /\ pos' = [pos EXCEPT ![f] = @ + 1]
  /\ UNCHANGED <<links, exit>>

EndTask(f) ==
  /\ task[f] = "running" /\ pos[f] = Len(links[f])
  /\ task' = [task EXCEPT ![f] = "done"]
  /\ UNCHANGED <<links, pos, httpLinks, brokenLinks, exit>>

\* Faulty variant of Collect: a task that raised is waited for.
CollectWhenDone ==
  /\ exit = "running"
  /\ \A f \in FileIds : task[f] = "done"
  /\ exit' = IF httpLinks = {} /\ brokenLinks = {} THEN "ok" ELSE "exit_1"
  /\ UNCHANGED <<links, task, pos, httpLinks, brokenLinks>>

\* Faulty variant of Collect: the results that are there are taken.
CollectDone ==
  /\ exit = "running"
  /\ \A f \in FileIds : task[f] # "queued"
  /\ exit' = IF httpLinks = {} /\ brokenLinks = {} THEN "ok" ELSE "exit_1"
  /\ UNCHANGED <<links, task, pos, httpLinks, brokenLinks>>

\* The main thread has waited for all tasks.  The exception of one comes up again with
\* its result, and what the others have found is not reported.
Collect ==
  /\ exit = "running"
  /\ \A f \in FileIds : task[f] \in {"done", "raised"}
  /\ exit' = IF \E f \in FileIds : task[f] = "raised" THEN "raised"
             ELSE IF httpLinks = {} /\ brokenLinks = {} THEN "ok"
             ELSE "exit_1"
  /\ UNCHANGED <<links, task, pos, httpLinks, brokenLinks>>

Answers == {"none", "fine", "error_status", "failed", "exception"}

LinkNext ==
  \/ \E f \in FileIds : StartTask(f) \/ EndTask(f)
  \/ \E f \in FileIds, answer \in Answers : ExamineLink(f, answer)
  \/ Collect

LinkFairness == WF_linkVars(LinkNext)

-----------------------------------------------------------------------------
(* Properties *)

\* "OK" means that every link of every file was examined, in whatever order the
\* threads did it, and none was found broken or without TLS.
LinksExamined ==
  exit = "ok" =>
    /\ httpLinks = {} /\ brokenLinks = {}
    /\ \A f \in FileIds :
         /\ pos[f] = Len(links[f])
         /\ \A i \in 1..Len(links[f]) : Secure(links[f][i])

\* Every run ends, one with an exception in a thread included.
LinkCheckEnds == <>(exit # "running")

-----------------------------------------------------------------------------
(* The inductive invariant behind LinksExamined. *)

LinkTypeOK ==
  /\ links \in [FileIds -> Seq(LinkRecords)]
  /\ task \in [FileIds -> {"queued", "running", "done", "raised"}]
  /\ pos \in [FileIds -> Nat]
  /\ httpLinks \subseteq FileIds
  /\ brokenLinks \subseteq FileIds
  /\ exit \in {"running", "ok", "exit_1", "raised"}

\* A task has noted each link without TLS that it has passed ...
PassedNoted ==
  \A f \in FileIds :
    /\ pos[f] =< Len(links[f])
    /\ \A i \in 1..pos[f] : Secure(links[f][i]) \/ f \in httpLinks

\* ... and ends at the last link; the main thread has a result when all have ended.
EndedExamined ==
  /\ \A f \in FileIds : task[f] = "done" => pos[f] = Len(links[f])
  /\ exit = "ok" =>
       /\ httpLinks = {} /\ brokenLinks = {}
       /\ \A f \in FileIds : task[f] = "done"

LinkInv == LinkTypeOK /\ PassedNoted /\ EndedExamined

LinkSpec == LinkInit /\ [][LinkNext]_linkVars

=============================================================================
