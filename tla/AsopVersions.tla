----------------------------- MODULE AsopVersions -----------------------------
(***************************************************************************)
(* The versions of one procedure in asops.jsonl: asop_store.py, and the    *)
(* `sop` commands of cli.py.                                               *)
(*                                                                         *)
(* A version is never edited, only its status moves.  People and agents    *)
(* revise and activate; the revision policy binds the agents.  Builds of   *)
(* different age share the file: a line an older build cannot read is      *)
(* quarantined, that is, carried along and otherwise not seen.             *)
(*                                                                         *)
(* Every verb holds the store's lock from its read to its write, so each   *)
(* is one action.                                                          *)
(***************************************************************************)
EXTENDS Integers, Sequences, FiniteSets

CONSTANTS
  StepName,     \* names of steps
  Caller,        \* who calls
  Humans,       \* ASOP_HUMANS, empty when it is not declared
  Build,        \* "old" and "new"; what "new" writes, "old" cannot read
  MaxVersion    \* bound on the lines of the file

ASSUME AsopAssumption ==
  /\ Humans \subseteq Caller
  /\ Build \subseteq {"old", "new"}
  /\ MaxVersion \in Nat

VARIABLES
  file,         \* asops.jsonl, in the order written
  published     \* history: what a person last put into service

vars == <<file, published>>

Kinds == {"human", "agent"}
Statuses == {"draft", "active", "superseded", "retired"}

\* What a step can be: not there, an agent's, gated by a person, or gated by
\* a person and protected by a tag (money, irreversible).
Form == {"absent", "agent", "human", "money"}

Body == [StepName -> Form]

ASOP == [version : Nat \ {0}, status : Statuses, kind : Kinds, steps : Body, build : Build]

TypeOK == file \in Seq(ASOP) /\ published \in Body

Nothing == [s \in StepName |-> "absent"]

Init == file = <<>> /\ published = Nothing

-----------------------------------------------------------------------------
(* Reads.                                                                   *)

\* _read_all: the lines this build can read.
Readable(b, r) == r.build = "old" \/ b = "new"
Read(b) == {n \in DOMAIN file : Readable(b, file[n])}
Quarantined(b) == DOMAIN file \ Read(b)

\* versions[-1].
Latest(h) == file[CHOOSE n \in h : \A m \in h : file[m].version <= file[n].version]

Active(h) == {n \in h : file[n].status = "active"}

\* _kind: the operator's declaration, where there is one.
Kind(actor, claimed) ==
  IF Humans = {} THEN claimed ELSE IF actor \in Humans THEN "human" ELSE "agent"

-----------------------------------------------------------------------------
(* The revision policy (asop.revision, a library).                          *)

Protected(body) == \E s \in StepName : body[s] = "money"
HumanSteps(body) == {s \in StepName : body[s] \in {"human", "money"}}

Precedes(h, m, n) ==
  /\ m \in h /\ file[m].version < file[n].version
  /\ \A k \in h : file[k].version < file[n].version => file[k].version <= file[m].version

\* A person's version n moved step s away from a form, or to one.
MovedFrom(h, n, s, form) ==
  /\ n \in h /\ file[n].kind = "human" /\ file[n].steps[s] # form
  /\ \E m \in h : Precedes(h, m, n) /\ file[m].steps[s] = form
MovedTo(h, n, s, form) ==
  /\ n \in h /\ file[n].kind = "human" /\ file[n].steps[s] = form
  /\ \E m \in h : Precedes(h, m, n) /\ file[m].steps[s] # form

\* The forms a person moved a step away from, and none moved it back to.
Banned(h, s) ==
  {form \in Form :
     \E n \in h : /\ MovedFrom(h, n, s, form)
                  /\ \A k \in h : MovedTo(h, k, s, form) => file[k].version < file[n].version}

\* check_asop_revision.
Allowed(kind, h, baseline, proposed, first) ==
  kind = "agent" =>
    /\ ~Protected(baseline) /\ ~Protected(proposed)
    /\ HumanSteps(baseline) \subseteq HumanSteps(proposed)
    /\ first => HumanSteps(proposed) = {}
    /\ \A s \in StepName : proposed[s] # baseline[s] => proposed[s] \notin Banned(h, s)

-----------------------------------------------------------------------------
(* The verbs.                                                               *)

Draft(version, kind, body, b) ==
  [version |-> version, status |-> "draft", kind |-> kind, steps |-> body, build |-> b]

\* create: refused where this build can read a version.
Create(kind, body, b) ==
  /\ Read(b) = {} /\ Len(file) < MaxVersion
  /\ file' = Append(file, Draft(1, kind, body, b))
  /\ UNCHANGED published

\* (A mutant of Revise: an unreadable version does not count.)
ReviseUnderQuarantine(kind, body, b) ==
  /\ Read(b) # {} /\ Len(file) < MaxVersion
  /\ Allowed(kind, Read(b), Latest(Read(b)).steps, body, FALSE)
  /\ file' = Append(file, Draft(Latest(Read(b)).version + 1, kind, body, b))
  /\ UNCHANGED published

\* (A mutant of Revise: measured against the version it starts from.)
ReviseFromSource(kind, body, b) ==
  /\ Quarantined(b) = {} /\ Len(file) < MaxVersion
  /\ \E from \in Read(b) : Allowed(kind, Read(b), file[from].steps, body, FALSE)
  /\ file' = Append(file, Draft(Latest(Read(b)).version + 1, kind, body, b))
  /\ UNCHANGED published

\* revise: the changes may be to any version, so the body may be any; the
\* policy measures it against the latest.
Revise(kind, body, b) ==
  /\ Quarantined(b) = {}
  /\ Read(b) # {} /\ Len(file) < MaxVersion
  /\ Allowed(kind, Read(b), Latest(Read(b)).steps, body, FALSE)
  /\ file' = Append(file, Draft(Latest(Read(b)).version + 1, kind, body, b))
  /\ UNCHANGED published

\* (A mutant of WriteAll: a line that is not read is not written.)
WriteAllRead(b, new) ==
  file' = [k \in 1..Cardinality(Read(b)) |->
             new[CHOOSE n \in Read(b) : Cardinality({m \in Read(b) : m <= n}) = k]]

\* _write_all: what was read, as changed, and what was quarantined.
WriteAll(b, new) ==
  file' = [n \in DOMAIN file |-> IF n \in Read(b) THEN new[n] ELSE file[n]]

AfterActivation(version, n) ==
  IF file[n].version = version THEN [file[n] EXCEPT !.status = "active"]
  ELSE IF file[n].status = "active" THEN [file[n] EXCEPT !.status = "superseded"]
  ELSE file[n]

\* (A mutant of Baseline: the latest version, whatever is in service.)
BaselineLatest(h) == Latest(h).steps

\* What an activation is measured against.
Baseline(h) == IF Active(h) = {} THEN Latest(h).steps
               ELSE file[CHOOSE n \in Active(h) : \A m \in Active(h) : n <= m].steps

Activate(kind, n, b) ==
  LET h == Read(b) IN
    /\ n \in h /\ \A m \in h : file[m].version = file[n].version => n <= m
    /\ file[n].status = "draft"
    /\ Allowed(kind, h, Baseline(h), file[n].steps, Active(h) = {})
    /\ WriteAll(b, [k \in h |-> AfterActivation(file[n].version, k)])
    /\ published' = IF kind = "human" THEN file[n].steps ELSE published

\* retire: a person's verb.
Retire(kind, b) ==
  /\ kind = "human"
  /\ Active(Read(b)) # {}
  /\ LET n == CHOOSE n \in Active(Read(b)) : \A m \in Active(Read(b)) : n <= m
     IN WriteAll(b, [k \in Read(b) |->
                      IF k = n THEN [file[k] EXCEPT !.status = "retired"] ELSE file[k]])
  /\ published' = Nothing

-----------------------------------------------------------------------------
Next ==
  \E kind \in {Kind(actor, claimed) : actor \in Caller, claimed \in Kinds}, b \in Build :
    \/ \E body \in Body : Create(kind, body, b) \/ Revise(kind, body, b)
    \/ \E n \in DOMAIN file : Activate(kind, n, b)
    \/ Retire(kind, b)

Spec == Init /\ [][Next]_vars

-----------------------------------------------------------------------------
(* Properties.                                                              *)

\* revise refuses where "revising would reissue its number"
\* (asop_store.py:254): builds of different age never give a number twice,
\* except the first, which create gives without looking at what it cannot
\* read.
NumberIssuedOnce ==
  \A m, n \in DOMAIN file :
    file[m].version = file[n].version /\ file[m].version > 1 => m = n

\* One version is in service (asop_store.py:294), among those that every
\* build can read.
OneActive ==
  \A m, n \in DOMAIN file :
    /\ file[m].build = "old" /\ file[n].build = "old"
    /\ file[m].status = "active" /\ file[n].status = "active"
    => m = n

\* Number 1 has gone to one line only.
FirstIssuedOnce ==
  \A m, n \in DOMAIN file : file[m].version = 1 /\ file[n].version = 1 => m = n

\* What a step may do to the lines there are.
Forward ==
  FirstIssuedOnce =>
    \A n \in DOMAIN file :
      /\ n \in DOMAIN file'
      /\ file'[n] = [file[n] EXCEPT !.status = file'[n].status]
      /\ file'[n].status # file[n].status =>
           <<file[n].status, file'[n].status>> \in
             {<<"draft", "active">>, <<"active", "superseded">>, <<"active", "retired">>}

\* Lines that cannot be read are "carried, never dropped"
\* (asop_store.py:146), and a version is never edited: it only moves on from
\* draft, and from active, whatever the builds that rewrite the file can read.
VersionsForward == [][Forward]_vars

\* "Branching from an older version is how an agent would otherwise undo a
\* human without ever proposing the undo" (asop_store.py:277): the latest
\* version holds nothing a person moved away from, whoever wrote it.
HumanWordStands ==
  file # <<>> /\ FirstIssuedOnce =>
    \A s \in StepName : Latest(DOMAIN file).steps[s] \notin Banned(DOMAIN file, s)

\* Activation is policed "or the policy has a door beside it"
\* (asop_store.py:297): where every line can be read, what agents draft and
\* activate, in however many steps, keeps gated what the person who last had a
\* say in it put into service gated.
ServiceKeepsHumanSteps ==
  (\A n \in DOMAIN file : file[n].build = "old") =>
    \A n \in Active(DOMAIN file) : HumanSteps(published) \subseteq HumanSteps(file[n].steps)

\* Among the lines an old build writes, a number is a line.
OldIssuedOnce ==
  \A m, n \in DOMAIN file :
    file[m].build = "old" /\ file[n].build = "old" /\ file[m].version = file[n].version => m = n

\* The first line is a first version, and no number is beyond the lines.
NumbersFit ==
  /\ file # <<>> => file[1].version = 1
  /\ \A n \in DOMAIN file : file[n].version <= Len(file)

\* Where every line can be read, only a person ends the service.
ServiceEndedByPerson ==
  (\A n \in DOMAIN file : file[n].build = "old") /\ Active(DOMAIN file) = {} =>
    published = Nothing

\* What is inductive.
IInv ==
  /\ TypeOK /\ NumbersFit /\ OldIssuedOnce /\ NumberIssuedOnce /\ OneActive
  /\ ServiceEndedByPerson /\ ServiceKeepsHumanSteps /\ HumanWordStands

\* activate: "the previously active version" is superseded
\* (asop_store.py:293).  Not one this build cannot read.
OneActiveForAll ==
  FirstIssuedOnce => Cardinality(Active(DOMAIN file)) <= 1

\* "Activation is policed exactly as a revision is" (asop_store.py:296): but
\* it does not refuse where a version cannot be read.
ActivatedFollowsWord ==
  [][\A n \in Active(DOMAIN file)' \ Active(DOMAIN file) :
       /\ FirstIssuedOnce /\ n \in DOMAIN file /\ published' = published
       /\ published # file[n].steps
       => \A s \in StepName : file[n].steps[s] \notin Banned(DOMAIN file, s)]_vars
=============================================================================
