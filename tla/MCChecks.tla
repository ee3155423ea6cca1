------------------------------ MODULE MCChecks ------------------------------
(***************************************************************************)
(* The health check and the three scripts that check the repository, for   *)
(* TLC: they have nothing to do with one another, so a behaviour is one of *)
(* one of them, while the others are at rest.                              *)
(***************************************************************************)
EXTENDS DocHashes, CopyrightHeaders, DocLinks, HealthCheck

VARIABLE subject

checkVars == <<subject, hashVars, headerVars, linkVars, vars>>

-----------------------------------------------------------------------------
(* Packages and commands: an agent and a service with one name, a skill *)

Package(type, name, hash) == [type |-> type, name |-> name, hash |-> hash]

MCRegistries ==
  {<<Package("agent", "watch", "h1"), Package("service", "watch", h), Package("skill", "cow", "h3")>> :
     h \in {"h1", "h2"}}

Line(cmd, name, hash, flags) == [cmd |-> cmd, name |-> name, hash |-> hash, flags |-> flags]

\* Commands of which a file may have two ...
StaleLines ==
  {Line("fetch", "watch", "h0", None), Line("fetch", "watch", "h0", Service),
   Line("fetch", "watch", "h1", None), Line("add skill", "cow", "h0", None)}

\* ... and one.
OtherLines ==
  {Line("deployment", "watch", "h2", None), Line("push", "watch", "h1", None),
   Line("fetch", None, "h1", None), Line("fetch", None, "h0", None),
   Line("add skill", "watch", "h1", None), Line("push", "cow", "h3", None)}

MCContents ==
  {<<>>} \cup {<<l>> : l \in StaleLines \cup OtherLines}
         \cup {<<k, l>> : k, l \in StaleLines}

HashRest ==
  /\ packages = <<>> /\ docs = [f \in 1..Files |-> <<>>]
  /\ releases = 0 /\ job = None /\ outcome = None /\ fixes = 0

HeaderRest ==
  year = FirstYear /\ header = Missing /\ committed = FirstYear /\ dirty = FALSE /\ edits = 0

-----------------------------------------------------------------------------
(* Links *)

Link(https, http_skip, url_skip) ==
  [https |-> https, http_skip |-> http_skip, url_skip |-> url_skip]

\* The link of the last file has TLS or not.
MCDocumentations ==
  {<<<<Link(TRUE, FALSE, FALSE), Link(FALSE, TRUE, TRUE)>>,
     <<Link(FALSE, TRUE, FALSE)>>,
     <<Link(TRUE, FALSE, TRUE), Link(TRUE, FALSE, FALSE)>>,
     <<Link(https, FALSE, FALSE)>>>> : https \in BOOLEAN}

LinkRest ==
  /\ links = [f \in FileIds |-> <<>>]
  /\ task = [f \in FileIds |-> "done"] /\ pos = [f \in FileIds |-> 0]
  /\ httpLinks = FileIds /\ brokenLinks = {} /\ exit = "exit_1"

-----------------------------------------------------------------------------
\* An agent that was just started, and stays so.
HealthRest == Init

ChecksInit ==
  \/ subject = "check_doc_ipfs_hashes" /\ HashInit /\ HeaderRest /\ LinkRest /\ HealthRest
  \/ subject = "check_copyright" /\ HeaderInit /\ HashRest /\ LinkRest /\ HealthRest
  \/ subject = "check_doc_links" /\ LinkInit /\ HashRest /\ HeaderRest /\ HealthRest
  \/ subject = "healthcheck" /\ Init /\ HashRest /\ HeaderRest /\ LinkRest

ChecksNext ==
  \/ /\ subject = "check_doc_ipfs_hashes" /\ HashNext
     /\ UNCHANGED <<subject, headerVars, linkVars, vars>>
  \/ /\ subject = "check_copyright" /\ HeaderNext
     /\ UNCHANGED <<subject, hashVars, linkVars, vars>>
  \/ /\ subject = "check_doc_links" /\ LinkNext
     /\ UNCHANGED <<subject, hashVars, headerVars, vars>>
  \/ /\ subject = "healthcheck" /\ Next
     /\ UNCHANGED <<subject, hashVars, headerVars, linkVars>>

\* No script at rest has a fair action that could be taken; the health check has.
ChecksSpec ==
  /\ ChecksInit
  /\ [][ChecksNext]_checkVars
  /\ HeaderFairness /\ LinkFairness
  /\ subject = "healthcheck" => Fairness

=============================================================================
