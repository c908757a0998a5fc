----------------------------- MODULE VersionLog -----------------------------
(***************************************************************************)
(* What the workflow store promises of ONE workflow: a draft that is       *)
(* edited, a log of published versions that only grows and whose entries   *)
(* never change, and a pointer to the active one.  A version is a draft    *)
(* that the workflow had at some time; the draft changes only by an edit   *)
(* or to the content of a version; with the workflow everything goes.      *)
(***************************************************************************)
EXTENDS Integers, Sequences

CONSTANT Contents   \* what a draft may contain

VARIABLES
  exists,  \* the workflow has not been deleted
  draft,   \* its draft
  past,    \* every content the draft had
  log,     \* the published versions
  active   \* the index of the active one, 0 for none

logVars == <<exists, draft, past, log, active>>

LogInit ==
  /\ exists = TRUE
  /\ draft \in Contents /\ past = {draft}
  /\ log = <<>> /\ active = 0

Edit ==
  /\ draft' \in Contents
  /\ past' = past \cup {draft'}
  /\ UNCHANGED <<exists, log, active>>

Publish ==
  /\ \E c \in past : log' = Append(log, c)
  /\ UNCHANGED <<exists, draft, past, active>>

Activate ==
  /\ active' \in DOMAIN log
  /\ UNCHANGED <<exists, draft, past, log>>

Restore ==
  /\ \E k \in DOMAIN log : draft' = log[k]
  /\ UNCHANGED <<exists, past, log, active>>

Delete ==
  /\ exists' = FALSE /\ log' = <<>> /\ active' = 0
  /\ UNCHANGED <<draft, past>>

LogNext == exists /\ (Edit \/ Publish \/ Activate \/ Restore \/ Delete)

LogSpec == LogInit /\ [][LogNext]_logVars
=============================================================================
