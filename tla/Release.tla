-------------------------------- MODULE Release --------------------------------
(***************************************************************************)
(* scripts/release.sh, run by several maintainers from clones of their     *)
(* own, and the workflow docker.yml that every pushed tag starts.  A tag   *)
(* object is known by who made it: two annotated tags of one name from two *)
(* clones are different objects.  A run of the script interleaves with the *)
(* others between any two git or gh commands; an error ends it (set -e)    *)
(* and leaves behind what it did so far.                                   *)
(*                                                                         *)
(* Outside src/, and modelled from how they are used: git, the repository  *)
(* on GitHub, gh, the runners of the workflow and the image registry.      *)
(***************************************************************************)
EXTENDS Integers, FiniteSetsExt

CONSTANTS
  Maintainers,
  None,    \* no such tag
  MaxTag   \* bound on the tag numbers

ASSUME NoneAssumption == None \notin Maintainers
ASSUME MaxTagAssumption == MaxTag \in Nat

Tags == 1..MaxTag
TagTables == [Tags -> Maintainers \union {None}]

VARIABLES
  remote,   \* the tags of origin
  local,    \* local[m]: the tags of m's clone
  pc,       \* pc[m]: the command at which m's run of the script is
  newTag,   \* newTag[m]: new_tag of m's latest run, 0 before the first
  releases, \* tags with a GitHub release
  build,    \* build[t]: how far the workflow run of a pushed tag is
  latest,   \* the tag that the image "latest" was built from, 0 if none
  overlap   \* history: two runs of the script, or of the workflow, overlapped

vars == <<remote, local, pc, newTag, releases, build, latest, overlap>>
ciVars == <<build, latest>>

Present(table) == {t \in Tags : table[t] # None}
HighestTag(table) == Max({0} \union Present(table))

ReleaseTypeOK ==
  /\ remote \in TagTables
  /\ local \in [Maintainers -> TagTables]
  /\ pc \in [Maintainers -> {"idle", "prompt", "tag", "push", "publish", "done"}]
  /\ newTag \in [Maintainers -> 0..MaxTag]
  /\ releases \subseteq Tags
  /\ build \in [Tags -> {"none", "queued", "built", "published", "failed"}]
  /\ latest \in 0..MaxTag
  /\ overlap \in BOOLEAN

Init ==
  /\ remote = [t \in Tags |-> None]
  /\ local = [m \in Maintainers |-> remote]
  /\ pc = [m \in Maintainers |-> "idle"]
  /\ newTag = [m \in Maintainers |-> 0]
  /\ releases = {}
  /\ build = [t \in Tags |-> "none"]
  /\ latest = 0
  /\ overlap = FALSE

Goto(m, p) == pc' = [pc EXCEPT ![m] = p]

-----------------------------------------------------------------------------
(* One run of the script.                                                  *)

\* Mutant: git fetch --tags --force.
Merged_Force(m) == [t \in Tags |-> IF remote[t] = None THEN local[m][t] ELSE remote[t]]

\* The tags of a clone after git fetch --tags: what it lacked is added, and a
\* tag that differs from origin's is left alone.
Merged(m) == [t \in Tags |-> IF local[m][t] = None THEN remote[t] ELSE local[m][t]]

\* git would have to clobber a tag of the clone: the fetch fails.
Clobbers(m) == \E t \in Tags : None \notin {local[m][t], remote[t]} /\ local[m][t] # remote[t]

\* Mutant: the lowest free number is taken.
NextTag_Gap(table) == Min({t \in 1..(MaxTag + 1) : t \notin Present(table)})

\* new_tag: one more than the highest vN of the clone
NextTag(table) == HighestTag(table) + 1

\* Runs that have read the tags and have yet to push theirs.
Undecided == {m \in Maintainers : pc[m] \in {"prompt", "tag", "push"}}

\* The worktree checks and the fetch; branch, worktree and remote may stop it.
Fetch(m) ==
  /\ pc[m] \in {"idle", "done"}
  /\ local' = [local EXCEPT ![m] = Merged(m)]
  /\ IF Clobbers(m) THEN Goto(m, "idle") /\ UNCHANGED <<newTag, overlap>>
     ELSE /\ NextTag(Merged(m)) <= MaxTag
          /\ newTag' = [newTag EXCEPT ![m] = NextTag(Merged(m))]
          /\ Goto(m, "prompt")
          /\ overlap' = (overlap \/ Undecided # {})
  /\ UNCHANGED <<remote, releases, ciVars>>

Confirm(m) ==
  /\ pc[m] = "prompt"
  /\ Goto(m, "tag") \/ Goto(m, "idle")
  /\ UNCHANGED <<remote, local, newTag, releases, ciVars, overlap>>

\* git tag -a
MakeTag(m) ==
  /\ pc[m] = "tag"
  /\ local' = [local EXCEPT ![m][newTag[m]] = m]
  /\ Goto(m, "push")
  /\ UNCHANGED <<remote, newTag, releases, ciVars, overlap>>

\* Mutant: git push --force.
Accepted_Force(m) == TRUE

\* origin takes a new tag and rejects one that it has.
Accepted(m) == remote[newTag[m]] = None

\* Workflow runs under way.
Building == {t \in Tags : build[t] \in {"queued", "built"}}

\* git push origin vN: origin takes the tag and starts a workflow run; the
\* answer may be lost on its way back, which ends the script.
Push(m) ==
  /\ pc[m] = "push"
  /\ Accepted(m)
  /\ remote' = [remote EXCEPT ![newTag[m]] = m]
  /\ build' = [build EXCEPT ![newTag[m]] = "queued"]
  /\ Goto(m, "publish") \/ Goto(m, "idle")
  /\ overlap' = (overlap \/ Building # {})
  /\ UNCHANGED <<local, newTag, releases, latest>>

\* Mutant: a failed push does not end the script.
PushFails_Ignored(m) ==
  /\ pc[m] = "push"
  /\ Goto(m, "publish")
  /\ UNCHANGED <<remote, local, newTag, releases, ciVars, overlap>>

\* Rejected, or the network is down.
PushFails(m) ==
  /\ pc[m] = "push"
  /\ Goto(m, "idle")
  /\ UNCHANGED <<remote, local, newTag, releases, ciVars, overlap>>

\* --push-only, no gh, a release that is there already, or a new release.
PublishRelease(m) ==
  /\ pc[m] = "publish"
  /\ \/ releases' = releases \union {newTag[m]}
     \/ UNCHANGED releases
  /\ Goto(m, "done")
  /\ UNCHANGED <<remote, local, newTag, ciVars, overlap>>

-----------------------------------------------------------------------------
(* The workflow run of a tag: build and smoke test, then publish.          *)

\* Mutant: a newer tag cancels the run.
BuildImage_Cancels(t) ==
  /\ build[t] = "queued"
  /\ \E outcome \in {"built", "failed", "cancelled"} : build' = [build EXCEPT ![t] = outcome]
  /\ UNCHANGED <<remote, local, pc, newTag, releases, latest, overlap>>

BuildImage(t) ==
  /\ build[t] = "queued"
  /\ \E outcome \in {"built", "failed"} : build' = [build EXCEPT ![t] = outcome]
  /\ UNCHANGED <<remote, local, pc, newTag, releases, latest, overlap>>

\* The images of the tag and "latest" are pushed together.
PublishImage(t) ==
  /\ build[t] = "built"
  /\ \/ build' = [build EXCEPT ![t] = "published"] /\ latest' = t
     \/ build' = [build EXCEPT ![t] = "failed"] /\ UNCHANGED latest
  /\ UNCHANGED <<remote, local, pc, newTag, releases, overlap>>

ScriptStep(m) ==
  \/ Fetch(m)
  \/ Confirm(m)
  \/ MakeTag(m)
  \/ Push(m)
  \/ PushFails(m)
  \/ PublishRelease(m)
WorkflowStep(t) == BuildImage(t) \/ PublishImage(t)
Next ==
  \/ \E m \in Maintainers : ScriptStep(m)
  \/ \E t \in Tags : WorkflowStep(t)

Spec == Init /\ [][Next]_vars

-----------------------------------------------------------------------------
\* A run that told its maintainer that the tag was pushed and released told
\* the truth: origin's tag of that number is the maintainer's own, so no two
\* of them announce one number; and only pushed tags have a GitHub release.
AnnouncedTagIsOwn ==
  /\ \A m \in Maintainers :
       pc[m] \in {"publish", "done"} => remote[newTag[m]] = m
  /\ \A t \in releases : remote[t] # None

\* The image "latest" moves to an older release only if two runs of the script
\* overlapped between fetch and push, or two workflow runs overlapped: one
\* release after the other, from whichever clones, always moves it forward,
\* also when earlier runs failed half-way (release.sh:92-129, docker.yml:90).
LatestFallsOnlyOnOverlap == [][latest' < latest => overlap]_vars

\* A maintainer who lost a race is out of it for good: whatever the others do,
\* and however often the script is run again, the clone never agrees with origin
\* and no run gets past its fetch (release.sh:92); only git by hand ends that.
LoserStaysOut ==
  [][\A m \in Maintainers : Clobbers(m) =>
       /\ Clobbers(m)'
       /\ pc[m] \in {"idle", "done"} => pc'[m] \in {"idle", "done"}]_vars

\* Nobody else is out: such a clone has a tag of its own that lost to another's.
OnlyLosersStuck ==
  \A m \in Maintainers : Clobbers(m) =>
    \E t \in Tags : local[m][t] = m /\ remote[t] \notin {m, None}

-----------------------------------------------------------------------------
(* A statement of the repository that the code does not keep.              *)

Published == {t \in Tags : build[t] = "published"}

\* docs/development.md:86: "The `latest` tag is reserved for the most recent
\* numbered release tag": once every workflow run has ended, of the published.
LatestIsNewest ==
  (\A t \in Tags : build[t] \in {"none", "published", "failed"}) =>
    latest = Max({0} \union Published)
=============================================================================
